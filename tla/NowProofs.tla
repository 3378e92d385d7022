----------------------------- MODULE NowProofs -----------------------------
(***************************************************************************)
(* Proofs about NowOrders and NowEngine.  OrdersInv says who owns what:    *)
(* evidence belongs to the order of its payment, a job and the runner that *)
(* took it to a capture of their order, a delivery to the payment its      *)
(* order recorded.  The owners never change, and captures are only         *)
(* appended.                                                               *)
(*                                                                         *)
(* EngineInv says what a book of the engine is: Good.  A run is a chain of *)
(* books, a day, a sale, a member or a claim at a time, so the proof goes  *)
(* along each of the engine's recursive functions: every step of one keeps *)
(* what is Good, and Pays carries what the claims of a week have taken of  *)
(* its budget.                                                             *)
(*                                                                         *)
(* VolumeInv is about the volume: what a member has claimed is whole       *)
(* blocks, and what is allocated of a membership are its units in them.    *)
(* HistoryGood says that every later volume begins with what was claimed.  *)
(***************************************************************************)
EXTENDS NowOrders, NowEngine, Sums, SequenceTheorems, WellFoundedInduction, TLAPS

-----------------------------------------------------------------------------
(* The inductive invariant.                                                *)

\* A payment that was notified has an order and a status.
SentKnown == \A n \in sent : pay[n[1]].order \in Orders /\ pay[n[1]].status \in Statuses

\* A handler at work carries a notification that was sent.
HandlersCarry ==
  \A x \in Handlers : handler[x].pc # "idle" =>
    <<handler[x].pay, handler[x].signed>> \in sent /\ handler[x].api \in Statuses

\* Before the job is queued the evidence is stored.
HandlersStored ==
  \A x \in Handlers : handler[x].pc = "enqueue" =>
    \E i \in Ids : capture[i].pay = handler[x].pay /\ capture[i].signed = handler[x].signed

\* A capture is of the order of its payment.
EvidenceOwned == \A i \in Ids : capture[i].order = pay[capture[i].pay].order

\* A job is of a capture of its order.
JobsOwned ==
  \A o \in Orders : job[o].state # "none" =>
    job[o].capture \in Ids /\ capture[job[o].capture].order = o

\* A runner at work has a capture of its order; a held order, a reason.
RunnersOwned ==
  \A x \in Runners : runner[x].pc \notin {"idle", "stopped"} =>
    /\ runner[x].order \in Orders
    /\ runner[x].capture \in Ids /\ capture[runner[x].capture].order = runner[x].order
    /\ runner[x].pc = "hold" => runner[x].result \in {"risk_review", "security_blocked"}

\* The payment an order recorded is of that order.
PaymentsOwned == \A o \in Orders : order[o].payment # Nobody => pay[order[o].payment].order = o

CancelledBlocked == \A o \in Orders : Cancelled(o) => order[o].state = "security_blocked"

\* A delivery is of the order of its payment, and its order waits no more.
DeliveriesOwned ==
  \A d \in package :
    /\ pay[d.pay].order = d.order /\ d.seen <= Len(capture)
    /\ order[d.order].state \in {"activated", "risk_review"}

\* An invoice is asked for once, for the order of a request.
InvoicesOwned ==
  \A o \in Orders :
    /\ invoices[o] <= 1
    /\ call[o] = "asking" => invoices[o] = 0
    /\ call[o] = "asking" \/ invoices[o] > 0 =>
         order[o].attempt # "none" /\ \E q \in Requests : request[q] = o

OrdersInv ==
  /\ OrdersTypeOK
  /\ SentKnown /\ HandlersCarry /\ HandlersStored
  /\ EvidenceOwned /\ JobsOwned /\ RunnersOwned /\ PaymentsOwned
  /\ CancelledBlocked /\ DeliveriesOwned /\ InvoicesOwned
  /\ ActivatedIsClean /\ DeliveredOnce /\ AckedIsStored

-----------------------------------------------------------------------------
(* Lemmas about the operators.                                             *)

LEMMA NobodyElse == \A x \in Orders \cup Payments \cup Runners : x # Nobody
  BY OrdersAssumption

\* Of the numbers up to n that are in a set one is the greatest.
LEMMA Greatest ==
  ASSUME NEW n \in Nat, NEW S \in SUBSET (1..n), S # {}
  PROVE  \E i \in S : \A j \in S : j <= i
<1> DEFINE R == {p \in Nat \X Nat : p[1] < p[2]}
           T == {n - i : i \in S}
<1>1. IsWellFoundedOn(R, Nat)
  BY NatLessThanWellFounded DEF OpToRel
<1>2. T \subseteq Nat /\ T # {}
  <2>1. \A i \in S : i \in 1..n /\ n - i \in Nat
    OBVIOUS
  <2>2. PICK i \in S : TRUE
    OBVIOUS
  <2>3. n - i \in T
    BY <2>2
  <2> QED
    BY <2>1, <2>3
<1>3. PICK x \in T : \A y \in T : ~ (<<y, x>> \in R)
  <2> HIDE DEF R, T
  <2> QED
    BY <1>1, <1>2, WFMin
<1>4. PICK i \in S : x = n - i
  BY <1>3
<1>5. ASSUME NEW j \in S PROVE j <= i
  <2>1. ~ (<<n - j, n - i>> \in R)
    BY <1>3, <1>4
  <2> QED
    BY <2>1
<1> QED
  BY <1>5

\* Newest is the greatest id of the matched captures of a body, or 0 when there is none.
LEMMA NewestIsNewest ==
  ASSUME capture \in Seq(Evidence), NEW h
  PROVE  /\ Newest(h) \in Nat
         /\ Newest(h) # 0 => /\ Newest(h) \in Ids /\ capture[Newest(h)].pay = h.pay
                             /\ capture[Newest(h)].matched
         /\ \A i \in Ids : capture[i].pay = h.pay /\ capture[i].signed = h.signed /\ capture[i].matched
              => i <= Newest(h)
<1> DEFINE S == {i \in Ids : /\ capture[i].pay = h.pay /\ capture[i].signed = h.signed
                             /\ capture[i].matched}
<1>1. CASE S = {}
  BY <1>1 DEF Newest
<1>2. CASE S # {}
  <2>1. S \in SUBSET (1..Len(capture)) /\ Len(capture) \in Nat
    BY DEF Ids
  <2>2. \E i \in S : \A j \in S : j <= i
    <3> HIDE DEF S
    <3> QED
      BY <1>2, <2>1, Greatest
  <2>3. Newest(h) = CHOOSE i \in S : \A j \in S : j <= i
    BY <1>2 DEF Newest
  <2>4. Newest(h) \in S /\ \A j \in S : j <= Newest(h)
    <3> HIDE DEF S
    <3> QED
      BY <2>2, <2>3
  <2> QED
    BY <2>1, <2>4
<1> QED
  BY <1>1, <1>2

\* What each action changes.
Frame ==
  /\ UNCHANGED request \/ \E q \in Requests, o \in Orders : Checkout(q, o)
  /\ UNCHANGED <<pay, sent>> \/ \E p \in Payments, status \in Statuses : Change(p, status)
  /\ UNCHANGED capture \/ \E x \in Handlers : Capture(x)
  /\ UNCHANGED receipt \/ \E x \in Runners : RecordReceipt(x)
  /\ UNCHANGED package \/ \E x \in Runners : Activate(x)
  /\ UNCHANGED acked \/ \E x \in Handlers : Enqueue(x)
  /\ UNCHANGED invoices \/ \E o \in Orders : CreateInvoice(o)
  /\ UNCHANGED buyer \/ \E b \in {"banned", "unfit"} : BuyerBecomes(b)
  /\ \/ UNCHANGED call
     \/ \E q \in Requests, o \in Orders : Checkout(q, o)
     \/ \E o \in Orders : CreateInvoice(o) \/ CreateInvoiceFails(o) \/ AttachInvoice(o)
                           \/ InvoiceUnknown(o) \/ CheckoutStops(o)
  /\ \/ UNCHANGED order
     \/ \E q \in Requests, o \in Orders : Checkout(q, o)
     \/ \E o \in Orders : AttachInvoice(o) \/ InvoiceUnknown(o) \/ Cancel(o)
     \/ \E x \in Runners : RecordReceipt(x) \/ Decide(x) \/ Activate(x) \/ Hold(x)
  /\ \/ UNCHANGED handler
     \/ \E x \in Handlers :
          \/ \E p \in Payments, status \in Statuses : Receive(x, p, status)
          \/ Capture(x) \/ Enqueue(x) \/ HandlerFails(x)
  /\ \/ UNCHANGED runner
     \/ \E x \in Runners :
          \/ \E o \in Orders : Claim(x, o)
          \/ RecordReceipt(x) \/ Decide(x) \/ Activate(x) \/ Hold(x) \/ Finish(x)
          \/ RunnerFails(x) \/ RunnerStops(x)
  /\ \/ UNCHANGED job
     \/ \E x \in Handlers : Enqueue(x)
     \/ \E x \in Runners : (\E o \in Orders : Claim(x, o)) \/ Finish(x) \/ RunnerFails(x)

LEMMA Frames == ASSUME [OrdersNext]_orderVars PROVE Frame
<1>1. ASSUME NEW q \in Requests, NEW o \in Orders, Checkout(q, o) PROVE Frame
  BY <1>1 DEF Frame, Checkout
<1>2. ASSUME NEW o \in Orders, CreateInvoice(o) PROVE Frame
  BY <1>2 DEF Frame, CreateInvoice
<1>3. ASSUME NEW o \in Orders, CreateInvoiceFails(o) PROVE Frame
  BY <1>3 DEF Frame, CreateInvoiceFails
<1>4. ASSUME NEW o \in Orders, AttachInvoice(o) PROVE Frame
  BY <1>4 DEF Frame, AttachInvoice
<1>5. ASSUME NEW o \in Orders, InvoiceUnknown(o) PROVE Frame
  BY <1>5 DEF Frame, InvoiceUnknown
<1>6. ASSUME NEW o \in Orders, CheckoutStops(o) PROVE Frame
  BY <1>6 DEF Frame, CheckoutStops
<1>7. ASSUME NEW o \in Orders, Cancel(o) PROVE Frame
  BY <1>7 DEF Frame, Cancel
<1>8. ASSUME NEW p \in Payments, NEW status \in Statuses, Change(p, status) PROVE Frame
  BY <1>8 DEF Frame, Change
<1>9. ASSUME NEW b \in {"banned", "unfit"}, BuyerBecomes(b) PROVE Frame
  BY <1>9 DEF Frame, BuyerBecomes
<1>10. ASSUME NEW x \in Handlers, NEW p \in Payments, NEW status \in Statuses, Receive(x, p, status) PROVE Frame
  BY <1>10 DEF Frame, Receive
<1>11. ASSUME NEW x \in Handlers, Capture(x) PROVE Frame
  BY <1>11 DEF Frame, Capture
<1>12. ASSUME NEW x \in Handlers, Enqueue(x) PROVE Frame
  BY <1>12 DEF Frame, Enqueue
<1>13. ASSUME NEW x \in Handlers, HandlerFails(x) PROVE Frame
  BY <1>13 DEF Frame, HandlerFails
<1>14. ASSUME NEW x \in Runners, NEW o \in Orders, Claim(x, o) PROVE Frame
  BY <1>14 DEF Frame, Claim
<1>15. ASSUME NEW x \in Runners, RecordReceipt(x) PROVE Frame
  BY <1>15 DEF Frame, RecordReceipt
<1>16. ASSUME NEW x \in Runners, Decide(x) PROVE Frame
  BY <1>16 DEF Frame, Decide
<1>17. ASSUME NEW x \in Runners, Activate(x) PROVE Frame
  BY <1>17 DEF Frame, Activate
<1>18. ASSUME NEW x \in Runners, Hold(x) PROVE Frame
  BY <1>18 DEF Frame, Hold
<1>19. ASSUME NEW x \in Runners, Finish(x) PROVE Frame
  BY <1>19 DEF Frame, Finish
<1>20. ASSUME NEW x \in Runners, RunnerFails(x) PROVE Frame
  BY <1>20 DEF Frame, RunnerFails
<1>21. ASSUME NEW x \in Runners, RunnerStops(x) PROVE Frame
  BY <1>21 DEF Frame, RunnerStops
<1>22. CASE UNCHANGED orderVars
  BY <1>22 DEF Frame, orderVars
<1> QED
  BY <1>1, <1>2, <1>3, <1>4, <1>5, <1>6, <1>7, <1>8, <1>9, <1>10, <1>11, <1>12, <1>13, <1>14, <1>15, <1>16, <1>17, <1>18, <1>19, <1>20, <1>21, <1>22 DEF OrdersNext, HandlerStep, RunnerStep

-----------------------------------------------------------------------------
(* What stays.                                                             *)

\* Owners, evidence, notifications and requests stay; a job's capture only grows.
LEMMA Stays ==
  ASSUME OrdersInv, [OrdersNext]_orderVars
  PROVE  /\ \A p \in Payments : pay[p].order \in Orders => pay'[p].order = pay[p].order
         /\ sent \subseteq sent'
         /\ Len(capture) <= Len(capture') /\ Ids \subseteq Ids'
         /\ \A i \in Ids : capture'[i] = capture[i]
         /\ \A q \in Requests : request[q] # Nobody => request'[q] = request[q]
         /\ \A o \in Orders : order[o].attempt # "none" => order'[o].attempt # "none"
         /\ \A o \in Orders : job[o].capture <= job'[o].capture
<1>0. Frame /\ OrdersTypeOK
  BY Frames DEF OrdersInv
<1>1. \A p \in Payments : pay[p].order \in Orders => pay'[p].order = pay[p].order
  <2>1. ASSUME NEW p \in Payments, NEW status \in Statuses, Change(p, status)
        PROVE  \A r \in Payments : pay[r].order \in Orders => pay'[r].order = pay[r].order
    BY <1>0, <2>1, NobodyElse DEF Change, OrdersTypeOK
  <2> QED
    BY <1>0, <2>1 DEF Frame
<1>2. sent \subseteq sent'
  BY <1>0 DEF Frame, Change
<1>3. Len(capture) <= Len(capture') /\ Ids \subseteq Ids' /\ \A i \in Ids : capture'[i] = capture[i]
  <2>1. ASSUME NEW e, capture' = Append(capture, e)
        PROVE  Len(capture) <= Len(capture') /\ Ids \subseteq Ids' /\ \A i \in Ids : capture'[i] = capture[i]
    BY <1>0, <2>1 DEF OrdersTypeOK, Ids
  <2>2. UNCHANGED capture \/ \E e : capture' = Append(capture, e)
    BY <1>0 DEF Frame, Capture
  <2>3. CASE UNCHANGED capture
    BY <1>0, <2>3 DEF OrdersTypeOK, Ids
  <2> QED
    BY <2>1, <2>2, <2>3
<1>4. \A q \in Requests : request[q] # Nobody => request'[q] = request[q]
  BY <1>0 DEF Frame, Checkout, RequestFree, OrdersTypeOK
<1>5. \A o \in Orders : order[o].attempt # "none" => order'[o].attempt # "none"
  <2> SUFFICES ASSUME NEW o \in Orders, order[o].attempt # "none" PROVE order'[o].attempt # "none"
    OBVIOUS
  <2>1. ASSUME NEW q \in Requests, NEW u \in Orders, Checkout(q, u) PROVE order'[o].attempt # "none"
    BY <1>0, <2>1 DEF Checkout, NoOrder, OrdersTypeOK
  <2>2. ASSUME NEW u \in Orders, AttachInvoice(u) \/ InvoiceUnknown(u) \/ Cancel(u) PROVE order'[o].attempt # "none"
    BY <1>0, <2>2 DEF AttachInvoice, InvoiceUnknown, Cancel, OrdersTypeOK
  <2>3. ASSUME NEW x \in Runners, RecordReceipt(x) PROVE order'[o].attempt # "none"
    <3>1. UNCHANGED order \/ \E u, r, p :
             order' = [order EXCEPT ![u].attempt = ReviewState(u, r), ![u].payment = p]
      BY <2>3 DEF RecordReceipt
    <3>2. \A u \in Orders : \A r : ReviewState(u, r) \in {order[u].attempt, "pending_review"}
      BY DEF ReviewState
    <3>3. CASE UNCHANGED order
      BY <3>3
    <3>4. ASSUME NEW u, NEW r, NEW p,
                 order' = [order EXCEPT ![u].attempt = ReviewState(u, r), ![u].payment = p]
          PROVE  order'[o].attempt # "none"
      <4>1. CASE u = o
        <5>1. order'[o].attempt = ReviewState(o, r)
          BY <1>0, <3>4, <4>1 DEF OrdersTypeOK
        <5> QED
          BY <3>2, <5>1
      <4>2. CASE u # o
        BY <1>0, <3>4, <4>2 DEF OrdersTypeOK
      <4> QED
        BY <4>1, <4>2
    <3> QED
      BY <3>1, <3>3, <3>4
  <2>4. ASSUME NEW x \in Runners, Decide(x) \/ Activate(x) \/ Hold(x) PROVE order'[o].attempt # "none"
    <3>1. \/ UNCHANGED order
          \/ \E u, state : order' = [order EXCEPT ![u].state = state]
          \/ \E u, state, open : order' = [order EXCEPT ![u].state = state, ![u].open = open]
      BY <2>4 DEF Decide, Activate, Hold
    <3>2. ASSUME NEW u, NEW state, order' = [order EXCEPT ![u].state = state]
          PROVE  order'[o].attempt # "none"
      BY <1>0, <3>2 DEF OrdersTypeOK
    <3>3. ASSUME NEW u, NEW state, NEW open, order' = [order EXCEPT ![u].state = state, ![u].open = open]
          PROVE  order'[o].attempt # "none"
      BY <1>0, <3>3 DEF OrdersTypeOK
    <3> QED
      BY <3>1, <3>2, <3>3
  <2> QED
    BY <1>0, <2>1, <2>2, <2>3, <2>4 DEF Frame
<1>6. \A o \in Orders : job[o].capture <= job'[o].capture
  <2>1. ASSUME NEW x \in Handlers, Enqueue(x) PROVE \A o \in Orders : job[o].capture <= job'[o].capture
    <3>0. \A h : Newest(h) \in Nat
      BY <1>0, NewestIsNewest DEF OrdersTypeOK
    <3>1. \E u, i : i \in Nat /\ job' = [job EXCEPT ![u] = JobFor(u, i)]
      BY <2>1, <3>0 DEF Enqueue
    <3> PICK u, i : i \in Nat /\ job' = [job EXCEPT ![u] = JobFor(u, i)]
      BY <3>1
    <3>2. \A o \in Orders : job[o].capture \in Nat
      BY <1>0 DEF OrdersTypeOK
    <3>3. job[u].capture \in Nat => job[u].capture <= JobFor(u, i).capture
      BY DEF JobFor
    <3> QED
      BY <1>0, <3>1, <3>2, <3>3 DEF OrdersTypeOK
  <2>2. ASSUME NEW x \in Runners, (\E o \in Orders : Claim(x, o)) \/ Finish(x) \/ RunnerFails(x)
        PROVE  \A o \in Orders : job[o].capture <= job'[o].capture
    <3>3. UNCHANGED job \/ \E u, state, lease : job' = [job EXCEPT ![u].state = state, ![u].lease = lease]
      <4>1. CASE \E o \in Orders : Claim(x, o)
        <5>1. PICK o \in Orders : job' = [job EXCEPT ![o].state = "running", ![o].lease = x]
          BY <4>1 DEF Claim
        <5> DEFINE running == "running"
        <5>2. job' = [job EXCEPT ![o].state = running, ![o].lease = x]
          BY <5>1
        <5> HIDE DEF running
        <5> QED
          BY <5>2, Zenon
      <4>2. CASE Finish(x) \/ RunnerFails(x)
        <5>1. PICK state : SetJob(x, state)
          BY <4>2 DEF Finish, RunnerFails
        <5> QED
          BY <5>1 DEF SetJob
      <4> QED
        BY <2>2, <4>1, <4>2
    <3>4. ASSUME NEW u, NEW state, NEW lease, job' = [job EXCEPT ![u].state = state, ![u].lease = lease]
          PROVE  \A o \in Orders : job[o].capture <= job'[o].capture
      BY <1>0, <3>4 DEF OrdersTypeOK
    <3>5. CASE UNCHANGED job
      BY <1>0, <3>5 DEF OrdersTypeOK
    <3> QED
      BY <3>3, <3>4, <3>5
  <2>3. CASE UNCHANGED job
    BY <1>0, <2>3 DEF OrdersTypeOK
  <2> QED
    BY <1>0, <2>1, <2>2, <2>3 DEF Frame
<1> QED
  BY <1>1, <1>2, <1>3, <1>4, <1>5, <1>6

-----------------------------------------------------------------------------
(* The types.                                                              *)

OrderRows == [attempt : {"none", "creating_invoice", "invoice_created", "invoice_unknown", "pending_review"},
              invoice : BOOLEAN, payment : Payments \cup {Nobody},
              state : OrderStates, open : BOOLEAN, cancelled : BOOLEAN]
Receipts == [order : Orders, pay : Payments, signed : Statuses, api : Statuses,
             finished : BOOLEAN, multiple : BOOLEAN]
JobRows == [state : {"none", "queued", "running", "completed", "held"}, capture : Nat,
            lease : Runners \cup {Nobody}]
RunnerRows == [pc : {"idle", "receipt", "decide", "activate", "hold", "finish", "stopped"},
               order : Orders \cup {Nobody}, capture : Nat, result : OrderStates \cup {"activate"}]
HandlerRows == [pc : {"idle", "capture", "enqueue"}, pay : Payments \cup {Nobody},
                signed : Statuses \cup {"none"}, api : Statuses \cup {"none"}]
PaymentRows == [order : Orders \cup {Nobody}, status : Statuses \cup {"none"}]

Shapes ==
  /\ order \in [Orders -> OrderRows] /\ request \in [Requests -> Orders \cup {Nobody}]
  /\ call \in [Orders -> {"none", "asking", "answered", "failed"}] /\ invoices \in [Orders -> Nat]
  /\ pay \in [Payments -> PaymentRows]
  /\ sent \subseteq Payments \X Statuses /\ acked \subseteq sent
  /\ capture \in Seq(Evidence) /\ receipt \subseteq Receipts
  /\ job \in [Orders -> JobRows] /\ handler \in [Handlers -> HandlerRows]
  /\ runner \in [Runners -> RunnerRows]
  /\ package \subseteq [order : Orders, pay : Payments, seen : Nat]
  /\ buyer \in {"fit", "banned", "unfit"}

LEMMA TypeIsShapes == OrdersTypeOK <=> Shapes
  BY DEF OrdersTypeOK, Shapes, OrderRows, Receipts, JobRows, RunnerRows, HandlerRows, PaymentRows

\* A runner that records a receipt has a capture of its order.
LEMMA RunnerEvidence ==
  ASSUME OrdersInv, NEW x \in Runners, runner[x].pc \notin {"idle", "stopped"}
  PROVE  /\ runner[x].order \in Orders
         /\ capture[runner[x].capture] \in Evidence
         /\ capture[runner[x].capture].order = runner[x].order
         /\ pay[capture[runner[x].capture].pay].order = runner[x].order
<1>1. runner[x].order \in Orders /\ runner[x].capture \in Ids /\ capture[runner[x].capture].order = runner[x].order
  BY DEF OrdersInv, RunnersOwned
<1>2. capture \in Seq(Evidence) /\ \A i \in Ids : capture[i].order = pay[capture[i].pay].order
  BY DEF OrdersInv, OrdersTypeOK, EvidenceOwned
<1> QED
  BY <1>1, <1>2 DEF Ids

\* What a receipt is and what follows from it.
LEMMA ReceiptShape ==
  ASSUME OrdersInv, NEW o \in Orders, NEW c \in Evidence
  PROVE  /\ ReceiptOf(o, c) \in Receipts
         /\ Verdict(o, ReceiptOf(o, c)) \in OrderStates \cup {"activate"}
         /\ ReviewState(o, ReceiptOf(o, c)) \in {order[o].attempt, "pending_review"}
<1> DEFINE known == {r \in receipt : r.pay = c.pay /\ r.signed = c.signed /\ r.api = c.api}
<1>1. receipt \subseteq Receipts
  BY TypeIsShapes DEF OrdersInv, Shapes
<1>2. CASE known # {}
  <2>1. ReceiptOf(o, c) = CHOOSE r \in known : TRUE
    BY <1>2 DEF ReceiptOf
  <2>2. ReceiptOf(o, c) \in known
    <3> HIDE DEF known
    <3> QED
      BY <1>2, <2>1
  <2> QED
    BY <1>1, <2>2 DEF Verdict, ReviewState, OrderStates
<1>3. CASE known = {}
  <2>1. ReceiptOf(o, c) = [order |-> o, pay |-> c.pay, signed |-> c.signed, api |-> c.api,
           finished |-> c.api = "finished", multiple |-> order[o].payment \notin {Nobody, c.pay}]
    BY <1>3 DEF ReceiptOf
  <2>2. c.pay \in Payments /\ c.signed \in Statuses /\ c.api \in Statuses
    BY DEF Evidence
  <2>3. ReceiptOf(o, c) \in Receipts
    BY <2>1, <2>2 DEF Receipts
  <2> QED
    BY <2>3 DEF Verdict, ReviewState, OrderStates
<1> QED
  BY <1>2, <1>3

\* A new capture is evidence of the order of its payment.
LEMMA CaptureShape ==
  ASSUME OrdersInv, NEW x \in Handlers, handler[x].pc = "capture"
  PROVE  /\ CaptureOf(handler[x]) \in Evidence
         /\ CaptureOf(handler[x]).pay = handler[x].pay
         /\ CaptureOf(handler[x]).signed = handler[x].signed
         /\ CaptureOf(handler[x]).order = pay[handler[x].pay].order
<1> DEFINE h == handler[x]
<1>1. h.pay \in Payments /\ h.signed \in Statuses /\ h.api \in Statuses /\ pay[h.pay].order \in Orders
  BY DEF OrdersInv, OrdersTypeOK, HandlersCarry, SentKnown
<1>2. Matches(h.pay) \in BOOLEAN
  BY DEF Matches, MayAssociate
<1>3. \A signed, api, matched, known : RiskOf(signed, api, matched, known) \in BOOLEAN
  BY DEF RiskOf
<1> QED
  BY <1>1, <1>2, <1>3 DEF CaptureOf, Evidence

\* What the actions write in an order.
LEMMA OrderChanges ==
  ASSUME OrdersInv, [OrdersNext]_orderVars, ~ UNCHANGED order
  PROVE  \E o \in Orders :
           \/ /\ order[o] = NoOrder
              /\ order' = [order EXCEPT ![o] = [NoOrder EXCEPT !.attempt = "creating_invoice",
                                                  !.state = "awaiting_payment", !.open = TRUE]]
           \/ order' = [order EXCEPT ![o].attempt = "invoice_created", ![o].invoice = TRUE]
           \/ order' = [order EXCEPT ![o].attempt = "invoice_unknown"]
           \/ /\ CanResume(o)
              /\ order' = [order EXCEPT ![o].cancelled = TRUE, ![o].state = "security_blocked",
                                        ![o].open = FALSE]
           \/ \E attempt \in {order[o].attempt, "pending_review"}, p \in Payments :
                /\ pay[p].order = o
                /\ order' = [order EXCEPT ![o].attempt = attempt,
                                          ![o].payment = IF @ = Nobody THEN p ELSE @]
           \/ /\ order[o].state \in {"awaiting_payment", "activated"}
              /\ order' = [order EXCEPT ![o].state = "risk_review"]
           \/ Awaiting(o) /\ order' = [order EXCEPT ![o].state = "security_blocked"]
           \/ Awaiting(o) /\ order' = [order EXCEPT ![o].state = "activated", ![o].open = FALSE]
<1> DEFINE Goal == \E o \in Orders :
           \/ /\ order[o] = NoOrder
              /\ order' = [order EXCEPT ![o] = [NoOrder EXCEPT !.attempt = "creating_invoice",
                                                  !.state = "awaiting_payment", !.open = TRUE]]
           \/ order' = [order EXCEPT ![o].attempt = "invoice_created", ![o].invoice = TRUE]
           \/ order' = [order EXCEPT ![o].attempt = "invoice_unknown"]
           \/ /\ CanResume(o)
              /\ order' = [order EXCEPT ![o].cancelled = TRUE, ![o].state = "security_blocked",
                                        ![o].open = FALSE]
           \/ \E attempt \in {order[o].attempt, "pending_review"}, p \in Payments :
                /\ pay[p].order = o
                /\ order' = [order EXCEPT ![o].attempt = attempt,
                                          ![o].payment = IF @ = Nobody THEN p ELSE @]
           \/ /\ order[o].state \in {"awaiting_payment", "activated"}
              /\ order' = [order EXCEPT ![o].state = "risk_review"]
           \/ Awaiting(o) /\ order' = [order EXCEPT ![o].state = "security_blocked"]
           \/ Awaiting(o) /\ order' = [order EXCEPT ![o].state = "activated", ![o].open = FALSE]
<1>1. ASSUME NEW q \in Requests, NEW o \in Orders, Checkout(q, o) PROVE Goal
  BY <1>1 DEF Checkout
<1>2. ASSUME NEW o \in Orders, AttachInvoice(o) \/ InvoiceUnknown(o) \/ Cancel(o) PROVE Goal
  BY <1>2 DEF AttachInvoice, InvoiceUnknown, Cancel, CancelAllowed
<1>3. ASSUME NEW x \in Runners, RecordReceipt(x) PROVE Goal
  <2> DEFINE o == runner[x].order
             c == capture[runner[x].capture]
  <2>1. o \in Orders /\ c \in Evidence /\ pay[c.pay].order = o
    BY <1>3, RunnerEvidence DEF RecordReceipt
  <2>2. order' = [order EXCEPT ![o].attempt = ReviewState(o, ReceiptOf(o, c)),
                               ![o].payment = IF @ = Nobody THEN c.pay ELSE @]
    BY <1>3 DEF RecordReceipt
  <2>3. ReviewState(o, ReceiptOf(o, c)) \in {order[o].attempt, "pending_review"}
    BY <2>1, ReceiptShape
  <2>4. c.pay \in Payments
    BY <2>1 DEF Evidence
  <2>5. PICK attempt : attempt \in {order[o].attempt, "pending_review"}
                       /\ order' = [order EXCEPT ![o].attempt = attempt,
                                          ![o].payment = IF @ = Nobody THEN c.pay ELSE @]
    BY <2>2, <2>3
  <2> QED
    BY <2>1, <2>4, <2>5
<1>4. ASSUME NEW x \in Runners, Decide(x) PROVE Goal
  BY <1>4, RunnerEvidence DEF Decide
<1>5. ASSUME NEW x \in Runners, Activate(x) PROVE Goal
  BY <1>5, RunnerEvidence DEF Activate, Awaiting
<1>6. ASSUME NEW x \in Runners, Hold(x) PROVE Goal
  <2>1. runner[x].order \in Orders /\ runner[x].result \in {"risk_review", "security_blocked"}
    BY <1>6, RunnerEvidence DEF Hold, OrdersInv, RunnersOwned
  <2> QED
    BY <1>6, <2>1 DEF Hold, Awaiting
<1> QED
  <2>1. Frame
    BY Frames
  <2>2. Goal
    <3> HIDE DEF Goal
    <3> QED
      BY <1>1, <1>2, <1>3, <1>4, <1>5, <1>6, <2>1 DEF Frame
  <2> QED
    BY <2>2

LEMMA OrderType ==
  ASSUME OrdersInv, [OrdersNext]_orderVars
  PROVE  order' \in [Orders -> OrderRows]
<1>1. order \in [Orders -> OrderRows]
  BY TypeIsShapes DEF OrdersInv, Shapes
<1>2. CASE UNCHANGED order
  BY <1>1, <1>2
<1>3. CASE ~ UNCHANGED order
  <2> PICK o \in Orders :
           \/ order' = [order EXCEPT ![o] = [NoOrder EXCEPT !.attempt = "creating_invoice",
                                               !.state = "awaiting_payment", !.open = TRUE]]
           \/ order' = [order EXCEPT ![o].attempt = "invoice_created", ![o].invoice = TRUE]
           \/ order' = [order EXCEPT ![o].attempt = "invoice_unknown"]
           \/ order' = [order EXCEPT ![o].cancelled = TRUE, ![o].state = "security_blocked",
                                     ![o].open = FALSE]
           \/ \E attempt \in {order[o].attempt, "pending_review"}, p \in Payments :
                order' = [order EXCEPT ![o].attempt = attempt,
                                       ![o].payment = IF @ = Nobody THEN p ELSE @]
           \/ order' = [order EXCEPT ![o].state = "risk_review"]
           \/ order' = [order EXCEPT ![o].state = "security_blocked"]
           \/ order' = [order EXCEPT ![o].state = "activated", ![o].open = FALSE]
    BY <1>3, OrderChanges
  <2>1. order[o] \in OrderRows
    BY <1>1
  <2>2. order' = [order EXCEPT ![o] = order'[o]]
    BY <1>1
  <2>3. order'[o] \in OrderRows
    <3>1. CASE order' = [order EXCEPT ![o] = [NoOrder EXCEPT !.attempt = "creating_invoice",
                                               !.state = "awaiting_payment", !.open = TRUE]]
      <4>1. order'[o] = [NoOrder EXCEPT !.attempt = "creating_invoice",
                                        !.state = "awaiting_payment", !.open = TRUE]
        BY <1>1, <3>1
      <4> QED
        BY <4>1 DEF OrderRows, OrderStates, NoOrder
    <3>2. CASE order' = [order EXCEPT ![o].attempt = "invoice_created", ![o].invoice = TRUE]
      <4>1. order'[o] = [order[o] EXCEPT !.attempt = "invoice_created", !.invoice = TRUE]
        BY <1>1, <3>2
      <4> QED
        BY <2>1, <4>1 DEF OrderRows
    <3>3. CASE order' = [order EXCEPT ![o].attempt = "invoice_unknown"]
      BY <1>1, <2>1, <3>3 DEF OrderRows
    <3>4. CASE order' = [order EXCEPT ![o].cancelled = TRUE, ![o].state = "security_blocked",
                                      ![o].open = FALSE]
      <4>1. order'[o] = [order[o] EXCEPT !.cancelled = TRUE, !.state = "security_blocked", !.open = FALSE]
        BY <1>1, <3>4
      <4> QED
        BY <2>1, <4>1 DEF OrderRows, OrderStates
    <3>5. ASSUME NEW attempt \in {order[o].attempt, "pending_review"}, NEW p \in Payments,
                 order' = [order EXCEPT ![o].attempt = attempt,
                                        ![o].payment = IF @ = Nobody THEN p ELSE @]
          PROVE  order'[o] \in OrderRows
      <4>1. order'[o] = [order[o] EXCEPT !.attempt = attempt,
                                         !.payment = IF @ = Nobody THEN p ELSE @]
        BY <1>1, <3>5
      <4> QED
        BY <2>1, <4>1 DEF OrderRows
    <3>6. CASE order' = [order EXCEPT ![o].state = "risk_review"]
      BY <1>1, <2>1, <3>6 DEF OrderRows, OrderStates
    <3>7. CASE order' = [order EXCEPT ![o].state = "security_blocked"]
      BY <1>1, <2>1, <3>7 DEF OrderRows, OrderStates
    <3>8. CASE order' = [order EXCEPT ![o].state = "activated", ![o].open = FALSE]
      <4>1. order'[o] = [order[o] EXCEPT !.state = "activated", !.open = FALSE]
        BY <1>1, <3>8
      <4> QED
        BY <2>1, <4>1 DEF OrderRows, OrderStates
    <3> QED
      BY <3>1, <3>2, <3>3, <3>4, <3>5, <3>6, <3>7, <3>8
  <2> QED
    BY <1>1, <2>2, <2>3
<1> QED
  BY <1>2, <1>3

LEMMA EnvironmentType ==
  ASSUME OrdersInv, [OrdersNext]_orderVars
  PROVE  /\ request' \in [Requests -> Orders \cup {Nobody}]
         /\ call' \in [Orders -> {"none", "asking", "answered", "failed"}]
         /\ invoices' \in [Orders -> Nat]
         /\ pay' \in [Payments -> PaymentRows]
         /\ sent' \subseteq Payments \X Statuses /\ acked' \subseteq sent'
         /\ buyer' \in {"fit", "banned", "unfit"}
<1>0. Shapes /\ Frame
  BY Frames, TypeIsShapes DEF OrdersInv
<1>1. request' \in [Requests -> Orders \cup {Nobody}]
  BY <1>0, ZenonT(60) DEF Shapes, Frame, Checkout
<1>2. call' \in [Orders -> {"none", "asking", "answered", "failed"}]
  BY <1>0, ZenonT(60) DEF Shapes, Frame, Checkout, CreateInvoice, CreateInvoiceFails, AttachInvoice,
    InvoiceUnknown, CheckoutStops
<1>3. invoices' \in [Orders -> Nat]
  BY <1>0, SMTT(60) DEF Shapes, Frame, CreateInvoice
<1>4. pay' \in [Payments -> PaymentRows] /\ sent' \subseteq Payments \X Statuses
  <2>1. ASSUME NEW p \in Payments, NEW status \in Statuses, Change(p, status)
        PROVE  pay' \in [Payments -> PaymentRows] /\ sent' \subseteq Payments \X Statuses
    <3>1. PICK o \in Orders : pay' = [pay EXCEPT ![p] = [order |-> o, status |-> status]]
      BY <2>1 DEF Change
    <3>2. sent' = sent \cup {<<p, status>>} /\ sent \subseteq Payments \X Statuses
      BY <1>0, <2>1 DEF Change, Shapes
    <3> QED
      BY <1>0, <3>1, <3>2 DEF Shapes, PaymentRows
  <2> QED
    BY <1>0, <2>1 DEF Shapes, Frame
<1>5. acked' \subseteq sent'
  <2>1. acked \subseteq sent /\ sent \subseteq sent'
    BY <1>0, Stays DEF Shapes
  <2>2. ASSUME NEW x \in Handlers, Enqueue(x) PROVE acked' \subseteq sent'
    BY <2>1, <2>2 DEF Enqueue, OrdersInv, HandlersCarry
  <2> QED
    BY <1>0, <2>1, <2>2 DEF Frame
<1>6. buyer' \in {"fit", "banned", "unfit"}
  BY <1>0 DEF Shapes, Frame, BuyerBecomes
<1> QED
  BY <1>1, <1>2, <1>3, <1>4, <1>5, <1>6

LEMMA EvidenceType ==
  ASSUME OrdersInv, [OrdersNext]_orderVars
  PROVE  /\ capture' \in Seq(Evidence) /\ receipt' \subseteq Receipts
         /\ package' \subseteq [order : Orders, pay : Payments, seen : Nat]
<1>0. Shapes /\ Frame
  BY Frames, TypeIsShapes DEF OrdersInv
<1>1. capture' \in Seq(Evidence)
  <2>1. ASSUME NEW x \in Handlers, Capture(x) PROVE capture' \in Seq(Evidence)
    <3>1. CaptureOf(handler[x]) \in Evidence
      BY <2>1, CaptureShape DEF Capture
    <3> QED
      BY <1>0, <2>1, <3>1 DEF Capture, Shapes
  <2> QED
    BY <1>0, <2>1 DEF Frame, Shapes
<1>2. receipt' \subseteq Receipts
  <2>1. ASSUME NEW x \in Runners, RecordReceipt(x) PROVE receipt' \subseteq Receipts
    <3>1. ReceiptOf(runner[x].order, capture[runner[x].capture]) \in Receipts
      BY <2>1, RunnerEvidence, ReceiptShape DEF RecordReceipt
    <3> QED
      BY <1>0, <2>1, <3>1 DEF RecordReceipt, Shapes
  <2> QED
    BY <1>0, <2>1 DEF Frame, Shapes
<1>3. package' \subseteq [order : Orders, pay : Payments, seen : Nat]
  <2>1. ASSUME NEW x \in Runners, Activate(x)
        PROVE  package' \subseteq [order : Orders, pay : Payments, seen : Nat]
    <3> DEFINE o == runner[x].order
    <3>1. o \in Orders
      BY <2>1, RunnerEvidence DEF Activate
    <3>2. CASE UNCHANGED package
      BY <1>0, <3>2 DEF Shapes
    <3>3. CASE Safe(o) /\ package' = package \cup {Delivery(o)}
      <4>1. order[o].payment \in Payments
        BY <1>0, <3>1, <3>3 DEF Safe, Shapes, Receipts
      <4>2. Len(capture) \in Nat
        BY <1>0 DEF Shapes
      <4> QED
        BY <1>0, <3>1, <3>3, <4>1, <4>2 DEF Delivery, Shapes
    <3> QED
      BY <2>1, <3>2, <3>3 DEF Activate
  <2> QED
    BY <1>0, <2>1 DEF Frame, Shapes
<1> QED
  BY <1>1, <1>2, <1>3

LEMMA ProcessType ==
  ASSUME OrdersInv, [OrdersNext]_orderVars
  PROVE  /\ job' \in [Orders -> JobRows] /\ handler' \in [Handlers -> HandlerRows]
         /\ runner' \in [Runners -> RunnerRows]
<1>0. Shapes /\ Frame
  BY Frames, TypeIsShapes DEF OrdersInv
<1>1. job' \in [Orders -> JobRows]
  <2>1. ASSUME NEW x \in Handlers, Enqueue(x) PROVE job' \in [Orders -> JobRows]
    <3> DEFINE o == pay[handler[x].pay].order
    <3>1. job' = [job EXCEPT ![o] = JobFor(o, Newest(handler[x]))]
      BY <2>1 DEF Enqueue
    <3>2. Newest(handler[x]) \in Nat
      BY <1>0, NewestIsNewest DEF Shapes
    <3>3. o \in Orders => JobFor(o, Newest(handler[x])) \in JobRows
      BY <1>0, <3>2 DEF JobFor, Shapes, JobRows
    <3> QED
      BY <1>0, <3>1, <3>3 DEF Shapes
  <2>2. ASSUME NEW x \in Runners, NEW o \in Orders, Claim(x, o) PROVE job' \in [Orders -> JobRows]
    <3>1. job' = [job EXCEPT ![o].state = "running", ![o].lease = x]
      BY <2>2 DEF Claim
    <3> QED
      BY <1>0, <3>1, ZenonT(60) DEF Shapes, JobRows
  <2>3. ASSUME NEW x \in Runners, Finish(x) \/ RunnerFails(x) PROVE job' \in [Orders -> JobRows]
    <3>1. PICK state \in {"held", "completed", "queued"} : SetJob(x, state)
      BY <2>3 DEF Finish, RunnerFails, JobEnd
    <3>2. \/ UNCHANGED job
          \/ job' = [job EXCEPT ![runner[x].order].state = state, ![runner[x].order].lease = Nobody]
      BY <3>1 DEF SetJob
    <3> DEFINE o == runner[x].order
    <3>3. CASE job' = [job EXCEPT ![o].state = state, ![o].lease = Nobody]
      <4>1. job[o] \in JobRows => [job[o] EXCEPT !.state = state, !.lease = Nobody] \in JobRows
        BY DEF JobRows
      <4>2. job' = [job EXCEPT ![o] = [job[o] EXCEPT !.state = state, !.lease = Nobody]]
        BY <3>3
      <4> QED
        BY <1>0, <4>1, <4>2 DEF Shapes
    <3> QED
      BY <1>0, <3>2, <3>3 DEF Shapes
  <2> QED
    BY <1>0, <2>1, <2>2, <2>3 DEF Frame, Shapes
<1>2. handler' \in [Handlers -> HandlerRows]
  <2>1. ASSUME NEW x \in Handlers, NEW p \in Payments, NEW status \in Statuses, Receive(x, p, status)
        PROVE  handler' \in [Handlers -> HandlerRows]
    <3>1. pay[p].status \in Statuses
      BY <2>1 DEF Receive, OrdersInv, SentKnown
    <3> QED
      BY <1>0, <2>1, <3>1 DEF Receive, Shapes, HandlerRows
  <2>2. ASSUME NEW x \in Handlers, Capture(x) \/ Enqueue(x) \/ HandlerFails(x)
        PROVE  handler' \in [Handlers -> HandlerRows]
    <3>1. handler[x] \in HandlerRows
      BY <1>0 DEF Shapes
    <3>2. [handler[x] EXCEPT !.pc = "enqueue"] \in HandlerRows /\ IdleHandler \in HandlerRows
      BY <3>1 DEF IdleHandler, HandlerRows
    <3>3. \/ handler' = [handler EXCEPT ![x] = [handler[x] EXCEPT !.pc = "enqueue"]]
          \/ handler' = [handler EXCEPT ![x] = IdleHandler]
      BY <2>2 DEF Capture, Enqueue, HandlerFails
    <3> QED
      BY <1>0, <3>2, <3>3 DEF Shapes
  <2> QED
    BY <1>0, <2>1, <2>2 DEF Frame, Shapes
<1>3. runner' \in [Runners -> RunnerRows]
  <2>1. ASSUME NEW x \in Runners, NEW o \in Orders, Claim(x, o) PROVE runner' \in [Runners -> RunnerRows]
    BY <1>0, <2>1 DEF Claim, IdleRunner, Shapes, RunnerRows, JobRows, OrderStates
  <2>2. ASSUME NEW x \in Runners, NEW pc \in {"decide", "activate", "hold", "finish"},
               NEW result \in OrderStates \cup {"activate"}, Go(x, pc, result)
        PROVE  runner' \in [Runners -> RunnerRows]
    <3>1. runner[x] \in RunnerRows
      BY <1>0 DEF Shapes
    <3>2. [runner[x] EXCEPT !.pc = pc, !.result = result] \in RunnerRows
      BY <3>1 DEF RunnerRows
    <3>3. runner' = [runner EXCEPT ![x] = [runner[x] EXCEPT !.pc = pc, !.result = result]]
      BY <2>2 DEF Go
    <3> QED
      BY <1>0, <3>2, <3>3 DEF Shapes
  <2>3. ASSUME NEW x \in Runners, RecordReceipt(x) PROVE runner' \in [Runners -> RunnerRows]
    <3>1. Verdict(runner[x].order, ReceiptOf(runner[x].order, capture[runner[x].capture]))
            \in OrderStates \cup {"activate"}
      BY <2>3, RunnerEvidence, ReceiptShape DEF RecordReceipt
    <3>2. \E result \in OrderStates \cup {"activate"} : Go(x, "hold", result) \/ Go(x, "decide", result)
      BY <2>3, <3>1 DEF RecordReceipt, OrderStates
    <3> QED
      BY <2>2, <3>2
  <2>4. ASSUME NEW x \in Runners, Decide(x) \/ Hold(x) PROVE runner' \in [Runners -> RunnerRows]
    <3>1. runner[x].result \in OrderStates \cup {"activate"}
      BY <1>0 DEF Shapes, RunnerRows
    <3>2. Go(x, "activate", runner[x].result) \/ Go(x, "finish", runner[x].result)
      BY <2>4 DEF Decide, Hold
    <3> QED
      BY <2>2, <3>1, <3>2
  <2>5. ASSUME NEW x \in Runners, Activate(x) PROVE runner' \in [Runners -> RunnerRows]
    <3>1. order[runner[x].order].state \in OrderStates
      BY <1>0, <2>5, RunnerEvidence DEF Activate, Shapes, OrderRows
    <3>2. \E result \in OrderStates : Go(x, "hold", result) \/ Go(x, "finish", result)
      BY <2>5, <3>1 DEF Activate, OrderStates
    <3> QED
      BY <2>2, <3>2
  <2>6. ASSUME NEW x \in Runners, Finish(x) \/ RunnerFails(x) \/ RunnerStops(x)
        PROVE  runner' \in [Runners -> RunnerRows]
    <3>1. IdleRunner \in RunnerRows /\ [IdleRunner EXCEPT !.pc = "stopped"] \in RunnerRows
      BY DEF IdleRunner, RunnerRows, OrderStates
    <3>2. \/ runner' = [runner EXCEPT ![x] = IdleRunner]
          \/ runner' = [runner EXCEPT ![x] = [IdleRunner EXCEPT !.pc = "stopped"]]
      BY <2>6 DEF Finish, RunnerFails, RunnerStops
    <3> QED
      BY <1>0, <3>1, <3>2 DEF Shapes
  <2> QED
    BY <1>0, <2>1, <2>3, <2>4, <2>5, <2>6 DEF Frame, Shapes
<1> QED
  BY <1>1, <1>2, <1>3

LEMMA TypeStays == ASSUME OrdersInv, [OrdersNext]_orderVars PROVE OrdersTypeOK'
<1>1. Shapes'
  BY OrderType, EnvironmentType, EvidenceType, ProcessType DEF Shapes
<1>2. OrdersTypeOK' <=> Shapes'
  BY DEF OrdersTypeOK, Shapes, OrderRows, Receipts, JobRows, RunnerRows, HandlerRows, PaymentRows
<1> QED
  BY <1>1, <1>2

-----------------------------------------------------------------------------
(* Evidence and processes.                                                 *)

LEMMA SentKnownStays == ASSUME OrdersInv, [OrdersNext]_orderVars PROVE SentKnown'
<1>0. Frame /\ Shapes /\ SentKnown
  BY Frames, TypeIsShapes DEF OrdersInv
<1>1. CASE UNCHANGED <<pay, sent>>
  BY <1>0, <1>1 DEF SentKnown
<1>2. ASSUME NEW p \in Payments, NEW status \in Statuses, Change(p, status) PROVE SentKnown'
  <2>1. PICK o \in Orders : pay' = [pay EXCEPT ![p] = [order |-> o, status |-> status]]
    BY <1>2 DEF Change
  <2>2. sent' = sent \cup {<<p, status>>} /\ sent \subseteq Payments \X Statuses
    BY <1>0, <1>2 DEF Change, Shapes
  <2>3. ASSUME NEW n \in sent' PROVE pay'[n[1]].order \in Orders /\ pay'[n[1]].status \in Statuses
    <3>1. CASE n[1] = p
      BY <1>0, <2>1, <3>1 DEF Shapes
    <3>2. CASE n[1] # p
      <4>1. n \in sent /\ n[1] \in Payments
        BY <2>2, <3>2
      <4> QED
        BY <1>0, <2>1, <3>2, <4>1 DEF Shapes, SentKnown
    <3> QED
      BY <3>1, <3>2
  <2> QED
    BY <2>3 DEF SentKnown
<1> QED
  BY <1>0, <1>1, <1>2 DEF Frame

LEMMA HandlersCarryStays == ASSUME OrdersInv, [OrdersNext]_orderVars PROVE HandlersCarry'
<1>0. Frame /\ Shapes /\ HandlersCarry /\ sent \subseteq sent'
  BY Frames, TypeIsShapes, Stays DEF OrdersInv
<1>1. CASE UNCHANGED handler
  BY <1>0, <1>1 DEF HandlersCarry
<1>2. ASSUME NEW x \in Handlers, NEW p \in Payments, NEW status \in Statuses, Receive(x, p, status)
      PROVE  HandlersCarry'
  <2>1. pay[p].status \in Statuses /\ <<p, status>> \in sent
    BY <1>2 DEF Receive, OrdersInv, SentKnown
  <2> QED
    BY <1>0, <1>2, <2>1 DEF Receive, Shapes, HandlersCarry
<1>3. ASSUME NEW x \in Handlers, Capture(x) \/ Enqueue(x) \/ HandlerFails(x) PROVE HandlersCarry'
  <2>1. \/ handler' = [handler EXCEPT ![x].pc = "enqueue"] /\ handler[x].pc = "capture"
        \/ handler' = [handler EXCEPT ![x] = IdleHandler]
    BY <1>3 DEF Capture, Enqueue, HandlerFails
  <2>2. IdleHandler.pc = "idle"
    BY DEF IdleHandler
  <2>3. handler \in [Handlers -> HandlerRows]
    BY <1>0 DEF Shapes
  <2>4. ASSUME NEW y \in Handlers, handler'[y].pc # "idle"
        PROVE  /\ handler[y].pc # "idle" /\ handler'[y].pay = handler[y].pay
               /\ handler'[y].signed = handler[y].signed /\ handler'[y].api = handler[y].api
    <3>1. CASE y = x
      BY <2>1, <2>2, <2>3, <2>4, <3>1 DEF HandlerRows
    <3>2. CASE y # x
      BY <2>1, <2>3, <2>4, <3>2
    <3> QED
      BY <3>1, <3>2
  <2> QED
    BY <1>0, <2>4 DEF HandlersCarry
<1> QED
  BY <1>0, <1>1, <1>2, <1>3 DEF Frame

LEMMA HandlersStoredStays == ASSUME OrdersInv, [OrdersNext]_orderVars PROVE HandlersStored'
<1>0. Frame /\ Shapes /\ HandlersStored /\ Ids \subseteq Ids' /\ \A i \in Ids : capture'[i] = capture[i]
  BY Frames, TypeIsShapes, Stays DEF OrdersInv
<1> DEFINE Stored(y) == \E i \in Ids : capture[i].pay = handler[y].pay /\ capture[i].signed = handler[y].signed
<1>1. ASSUME NEW y \in Handlers, handler'[y] = handler[y], handler'[y].pc = "enqueue"
      PROVE  \E i \in Ids' : capture'[i].pay = handler'[y].pay /\ capture'[i].signed = handler'[y].signed
  BY <1>0, <1>1 DEF HandlersStored
<1>2. ASSUME NEW x \in Handlers, Capture(x)
      PROVE  \E i \in Ids' : capture'[i].pay = handler'[x].pay /\ capture'[i].signed = handler'[x].signed
  <2>1. handler'[x].pay = handler[x].pay /\ handler'[x].signed = handler[x].signed
    BY <1>0, <1>2 DEF Capture, Shapes
  <2>2. CASE \E i \in Ids : SameEvidence(i, handler[x])
    BY <1>0, <2>1, <2>2 DEF SameEvidence
  <2>3. CASE ~ \E i \in Ids : SameEvidence(i, handler[x])
    <3>1. capture' = Append(capture, CaptureOf(handler[x])) /\ handler[x].pc = "capture"
      BY <1>2, <2>3 DEF Capture
    <3>2. Len(capture) + 1 \in Ids' /\ capture'[Len(capture) + 1] = CaptureOf(handler[x])
      BY <1>0, <3>1, CaptureShape DEF Shapes, Ids
    <3> QED
      BY <2>1, <3>1, <3>2, CaptureShape
  <2> QED
    BY <2>2, <2>3
<1>3. ASSUME NEW x \in Handlers, Capture(x) PROVE \A y \in Handlers \ {x} : handler'[y] = handler[y]
  BY <1>0, <1>3 DEF Capture, Shapes
<1>4. ASSUME NEW x \in Handlers, Enqueue(x) \/ HandlerFails(x)
      PROVE  handler'[x].pc # "enqueue" /\ \A y \in Handlers \ {x} : handler'[y] = handler[y]
  BY <1>0, <1>4 DEF Enqueue, HandlerFails, IdleHandler, Shapes
<1>5. ASSUME NEW x \in Handlers, NEW p \in Payments, NEW status \in Statuses, Receive(x, p, status)
      PROVE  handler'[x].pc # "enqueue" /\ \A y \in Handlers \ {x} : handler'[y] = handler[y]
  BY <1>0, <1>5 DEF Receive, Shapes
<1>6. ASSUME NEW y \in Handlers, handler'[y].pc = "enqueue"
      PROVE  \E i \in Ids' : capture'[i].pay = handler'[y].pay /\ capture'[i].signed = handler'[y].signed
  BY <1>0, <1>1, <1>2, <1>3, <1>4, <1>5, <1>6 DEF Frame
<1> QED
  BY <1>6 DEF HandlersStored

LEMMA EvidenceOwnedStays == ASSUME OrdersInv, [OrdersNext]_orderVars PROVE EvidenceOwned'
<1>0. Frame /\ Shapes /\ EvidenceOwned /\ Ids \subseteq Ids' /\ \A i \in Ids : capture'[i] = capture[i]
  BY Frames, TypeIsShapes, Stays DEF OrdersInv
<1>1. ASSUME NEW i \in Ids
      PROVE  capture'[i].order = pay'[capture'[i].pay].order
  <2>1. capture[i] \in Evidence
    BY <1>0 DEF Shapes, Ids
  <2>2. capture[i].pay \in Payments /\ capture[i].order \in Orders
    BY <2>1 DEF Evidence
  <2> QED
    BY <1>0, <2>2, Stays DEF EvidenceOwned
<1>2. ASSUME NEW x \in Handlers, Capture(x), NEW i \in Ids', i \notin Ids
      PROVE  capture'[i].order = pay'[capture'[i].pay].order
  <2>1. capture' = Append(capture, CaptureOf(handler[x])) /\ handler[x].pc = "capture"
    BY <1>2 DEF Capture, Ids
  <2>2. capture'[i] = CaptureOf(handler[x])
    BY <1>0, <1>2, <2>1, CaptureShape DEF Shapes, Ids
  <2>3. UNCHANGED pay
    BY <1>2 DEF Capture
  <2> QED
    BY <2>1, <2>2, <2>3, CaptureShape
<1>3. UNCHANGED capture => Ids' = Ids
  BY DEF Ids
<1> QED
  BY <1>0, <1>1, <1>2, <1>3 DEF Frame, EvidenceOwned

LEMMA JobsOwnedStays == ASSUME OrdersInv, [OrdersNext]_orderVars PROVE JobsOwned'
<1>0. Frame /\ Shapes /\ JobsOwned /\ Ids \subseteq Ids' /\ \A i \in Ids : capture'[i] = capture[i]
  BY Frames, TypeIsShapes, Stays DEF OrdersInv
<1>1. \A o \in Orders : job'[o].state # "none" => job'[o].capture \in Ids /\ capture[job'[o].capture].order = o
  <2>1. ASSUME NEW x \in Handlers, Enqueue(x), NEW o \in Orders, job'[o].state # "none"
        PROVE  job'[o].capture \in Ids /\ capture[job'[o].capture].order = o
    <3> DEFINE h == handler[x]
               u == pay[h.pay].order
    <3>1. job' = [job EXCEPT ![u] = JobFor(u, Newest(h))]
      BY <2>1 DEF Enqueue
    <3>2. CASE o # u \/ Newest(h) <= job[u].capture
      BY <1>0, <2>1, <3>1, <3>2 DEF JobFor, Shapes, JobsOwned
    <3>3. CASE o = u /\ ~ (Newest(h) <= job[u].capture)
      <4>1. Newest(h) # 0
        BY <1>0, <3>3 DEF Shapes, JobRows
      <4>2. Newest(h) \in Ids /\ capture[Newest(h)].pay = h.pay
        BY <1>0, <4>1, NewestIsNewest DEF Shapes
      <4>3. capture[Newest(h)].order = u
        BY <4>2 DEF OrdersInv, EvidenceOwned
      <4> QED
        BY <1>0, <3>1, <3>3, <4>2, <4>3 DEF JobFor, Shapes
    <3> QED
      BY <3>2, <3>3
  <2>2. ASSUME NEW x \in Runners, NEW u \in Orders, Claim(x, u), NEW o \in Orders, job'[o].state # "none"
        PROVE  job'[o].capture \in Ids /\ capture[job'[o].capture].order = o
    BY <1>0, <2>2 DEF Claim, Claimable, Shapes, JobRows, JobsOwned
  <2>3. ASSUME NEW x \in Runners, Finish(x) \/ RunnerFails(x), NEW o \in Orders, job'[o].state # "none"
        PROVE  job'[o].capture \in Ids /\ capture[job'[o].capture].order = o
    <3> DEFINE u == runner[x].order
    <3>1. PICK state : SetJob(x, state)
      BY <2>3 DEF Finish, RunnerFails
    <3>2. CASE UNCHANGED job
      BY <1>0, <2>3, <3>2 DEF JobsOwned
    <3>3. CASE job[u].capture = runner[x].capture /\ job' = [job EXCEPT ![u].state = state, ![u].lease = Nobody]
      <4>1. runner[x].capture \in Ids /\ capture[runner[x].capture].order = u
        BY <2>3 DEF Finish, RunnerFails, OrdersInv, RunnersOwned
      <4>2. CASE o = u
        BY <1>0, <3>3, <4>1, <4>2 DEF Shapes, JobRows
      <4>3. CASE o # u
        BY <1>0, <2>3, <3>3, <4>3 DEF Shapes, JobsOwned
      <4> QED
        BY <4>2, <4>3
    <3> QED
      BY <3>1, <3>2, <3>3 DEF SetJob, Holds
  <2> QED
    BY <1>0, <2>1, <2>2, <2>3 DEF Frame, JobsOwned
<1> QED
  BY <1>0, <1>1 DEF JobsOwned

LEMMA RunnersOwnedStays == ASSUME OrdersInv, [OrdersNext]_orderVars PROVE RunnersOwned'
<1>0. Frame /\ Shapes /\ RunnersOwned /\ Ids \subseteq Ids' /\ \A i \in Ids : capture'[i] = capture[i]
  BY Frames, TypeIsShapes, Stays DEF OrdersInv
<1> DEFINE Owned(r) ==
      r.pc \notin {"idle", "stopped"} =>
        /\ r.order \in Orders /\ r.capture \in Ids /\ capture[r.capture].order = r.order
        /\ r.pc = "hold" => r.result \in {"risk_review", "security_blocked"}
<1>1. \A x \in Runners : Owned(runner[x])
  BY <1>0 DEF RunnersOwned
<1>2. ASSUME NEW x \in Runners, NEW o \in Orders, Claim(x, o) PROVE \A y \in Runners : Owned(runner'[y])
  <2>1. job[o].capture \in Ids /\ capture[job[o].capture].order = o
    BY <1>0, <1>2 DEF Claim, Claimable, OrdersInv, JobsOwned
  <2>2. runner' = [runner EXCEPT ![x] = [IdleRunner EXCEPT !.pc = "receipt", !.order = o,
                                                           !.capture = job[o].capture]]
    BY <1>2 DEF Claim
  <2>3. Owned([IdleRunner EXCEPT !.pc = "receipt", !.order = o, !.capture = job[o].capture])
    BY <2>1 DEF IdleRunner
  <2> HIDE DEF Owned
  <2> QED
    BY <1>0, <1>1, <2>2, <2>3 DEF Shapes
<1>3. ASSUME NEW x \in Runners, NEW pc, NEW result, Go(x, pc, result), Owned(runner[x]),
             runner[x].pc \notin {"idle", "stopped"},
             pc = "hold" => result \in {"risk_review", "security_blocked"}
      PROVE  \A y \in Runners : Owned(runner'[y])
  <2>1. runner' = [runner EXCEPT ![x] = [runner[x] EXCEPT !.pc = pc, !.result = result]]
    BY <1>3 DEF Go
  <2>2. runner[x] \in RunnerRows
    BY <1>0 DEF Shapes
  <2>3. Owned([runner[x] EXCEPT !.pc = pc, !.result = result])
    BY <1>3, <2>2 DEF RunnerRows
  <2> QED
    BY <1>0, <1>1, <2>1, <2>3 DEF Shapes
<1>4. ASSUME NEW x \in Runners, RecordReceipt(x) \/ Decide(x) \/ Activate(x) \/ Hold(x)
      PROVE  \A y \in Runners : Owned(runner'[y])
  <2>1. runner[x].pc \in {"receipt", "decide", "activate", "hold"}
    BY <1>4 DEF RecordReceipt, Decide, Activate, Hold
  <2>2. \E pc, result : /\ Go(x, pc, result)
                        /\ pc = "hold" => result \in {"risk_review", "security_blocked"}
    <3>1. CASE RecordReceipt(x)
      BY <3>1 DEF RecordReceipt
    <3>2. CASE Decide(x) \/ Hold(x)
      <4>1. Go(x, "activate", runner[x].result) \/ Go(x, "finish", runner[x].result)
        BY <3>2 DEF Decide, Hold
      <4> QED
        BY <4>1
    <3>3. CASE Activate(x)
      <4>1. \/ \E result : Go(x, "finish", result)
            \/ Go(x, "hold", "security_blocked")
        BY <3>3 DEF Activate
      <4> QED
        BY <4>1
    <3> QED
      BY <1>4, <3>1, <3>2, <3>3
  <2> QED
    BY <1>1, <1>3, <2>1, <2>2
<1>5. ASSUME NEW x \in Runners, Finish(x) \/ RunnerFails(x) \/ RunnerStops(x)
      PROVE  \A y \in Runners : Owned(runner'[y])
  <2>1. \/ runner' = [runner EXCEPT ![x] = IdleRunner]
        \/ runner' = [runner EXCEPT ![x] = [IdleRunner EXCEPT !.pc = "stopped"]]
    BY <1>5 DEF Finish, RunnerFails, RunnerStops
  <2>2. IdleRunner.pc = "idle" /\ [IdleRunner EXCEPT !.pc = "stopped"].pc = "stopped"
    BY DEF IdleRunner
  <2> QED
    BY <1>0, <1>1, <2>1, <2>2 DEF Shapes
<1>6. \A y \in Runners : Owned(runner'[y])
  <2> HIDE DEF Owned
  <2>1. CASE UNCHANGED runner
    BY <1>1, <2>1
  <2> QED
    BY <1>0, <1>2, <1>4, <1>5, <2>1 DEF Frame
<1> QED
  BY <1>0, <1>6 DEF RunnersOwned

-----------------------------------------------------------------------------
(* Orders and deliveries.                                                  *)

\* What may become of the row of an order.
LEMMA OrderStep ==
  ASSUME OrdersInv, [OrdersNext]_orderVars, NEW o \in Orders, order'[o] # order[o]
  PROVE  \/ /\ order[o] = NoOrder
            /\ order'[o] = [NoOrder EXCEPT !.attempt = "creating_invoice",
                                           !.state = "awaiting_payment", !.open = TRUE]
         \/ order'[o] = [order[o] EXCEPT !.attempt = "invoice_created", !.invoice = TRUE]
         \/ order'[o] = [order[o] EXCEPT !.attempt = "invoice_unknown"]
         \/ /\ CanResume(o)
            /\ order'[o] = [order[o] EXCEPT !.cancelled = TRUE, !.state = "security_blocked", !.open = FALSE]
         \/ \E attempt \in {order[o].attempt, "pending_review"}, p \in Payments :
              /\ pay[p].order = o
              /\ order'[o] = [order[o] EXCEPT !.attempt = attempt, !.payment = IF @ = Nobody THEN p ELSE @]
         \/ /\ order[o].state \in {"awaiting_payment", "activated"}
            /\ order'[o] = [order[o] EXCEPT !.state = "risk_review"]
         \/ Awaiting(o) /\ order'[o] = [order[o] EXCEPT !.state = "security_blocked"]
         \/ Awaiting(o) /\ order'[o] = [order[o] EXCEPT !.state = "activated", !.open = FALSE]
<1>0. order \in [Orders -> OrderRows]
  BY TypeIsShapes DEF OrdersInv, Shapes
<1>1. PICK u \in Orders :
           \/ /\ order[u] = NoOrder
              /\ order' = [order EXCEPT ![u] = [NoOrder EXCEPT !.attempt = "creating_invoice",
                                                  !.state = "awaiting_payment", !.open = TRUE]]
           \/ order' = [order EXCEPT ![u].attempt = "invoice_created", ![u].invoice = TRUE]
           \/ order' = [order EXCEPT ![u].attempt = "invoice_unknown"]
           \/ /\ CanResume(u)
              /\ order' = [order EXCEPT ![u].cancelled = TRUE, ![u].state = "security_blocked",
                                        ![u].open = FALSE]
           \/ \E attempt \in {order[u].attempt, "pending_review"}, p \in Payments :
                /\ pay[p].order = u
                /\ order' = [order EXCEPT ![u].attempt = attempt,
                                          ![u].payment = IF @ = Nobody THEN p ELSE @]
           \/ /\ order[u].state \in {"awaiting_payment", "activated"}
              /\ order' = [order EXCEPT ![u].state = "risk_review"]
           \/ Awaiting(u) /\ order' = [order EXCEPT ![u].state = "security_blocked"]
           \/ Awaiting(u) /\ order' = [order EXCEPT ![u].state = "activated", ![u].open = FALSE]
  BY OrderChanges
<1>2. o = u
  BY <1>0, <1>1
<1> DEFINE WasPaid(p, attempt) == pay[p].order = u /\
             order' = [order EXCEPT ![u].attempt = attempt, ![u].payment = IF @ = Nobody THEN p ELSE @]
           After(v, p, attempt) == pay[p].order = v /\
             order'[v] = [order[v] EXCEPT !.attempt = attempt, !.payment = IF @ = Nobody THEN p ELSE @]
           IsPaid(v) == \E attempt \in {order[v].attempt, "pending_review"}, p \in Payments : After(v, p, attempt)
           Other(v) ==
             \/ /\ order[v] = NoOrder
                /\ order'[v] = [NoOrder EXCEPT !.attempt = "creating_invoice",
                                               !.state = "awaiting_payment", !.open = TRUE]
             \/ order'[v] = [order[v] EXCEPT !.attempt = "invoice_created", !.invoice = TRUE]
             \/ order'[v] = [order[v] EXCEPT !.attempt = "invoice_unknown"]
             \/ /\ CanResume(v)
                /\ order'[v] = [order[v] EXCEPT !.cancelled = TRUE, !.state = "security_blocked", !.open = FALSE]
             \/ /\ order[v].state \in {"awaiting_payment", "activated"}
                /\ order'[v] = [order[v] EXCEPT !.state = "risk_review"]
             \/ Awaiting(v) /\ order'[v] = [order[v] EXCEPT !.state = "security_blocked"]
             \/ Awaiting(v) /\ order'[v] = [order[v] EXCEPT !.state = "activated", !.open = FALSE]
<1>3. Other(u) \/ \E attempt \in {order[u].attempt, "pending_review"}, p \in Payments : WasPaid(p, attempt)
  BY <1>0, <1>1
<1>4. ASSUME NEW attempt, NEW p, WasPaid(p, attempt) PROVE After(u, p, attempt)
  BY <1>0, <1>4
<1>5. Other(o) \/ IsPaid(o)
  <2>1. Other(u) \/ IsPaid(u)
    <3> HIDE DEF WasPaid, After, Other
    <3> QED
      BY <1>3, <1>4
  <2> HIDE DEF Other, IsPaid
  <2> QED
    BY <1>2, <2>1
<1> QED
  BY <1>5, Zenon

\* Of these, what the rest of the proof relies on.
LEMMA OrderFacts ==
  ASSUME OrdersInv, [OrdersNext]_orderVars, NEW o \in Orders
  PROVE  /\ order'[o].payment \in {order[o].payment, Nobody} \/ pay[order'[o].payment].order = o
         /\ order'[o].cancelled => order'[o].state = "security_blocked"
         /\ order[o].state \in {"activated", "risk_review"} =>
              order'[o].state \in {"activated", "risk_review"} /\ ~ order'[o].cancelled
<1>0. order[o] \in OrderRows
  BY TypeIsShapes DEF OrdersInv, Shapes
<1>1. order[o].cancelled => order[o].state = "security_blocked"
  BY DEF OrdersInv, CancelledBlocked, Cancelled
<1>2. CASE order'[o] = order[o]
  BY <1>0, <1>1, <1>2 DEF OrderRows
<1>3. CASE order'[o] # order[o]
  <2> USE <1>0, <1>1 DEF OrderRows
  <2> DEFINE Goal ==
        /\ order'[o].payment \in {order[o].payment, Nobody} \/ pay[order'[o].payment].order = o
        /\ order'[o].cancelled => order'[o].state = "security_blocked"
        /\ order[o].state \in {"activated", "risk_review"} =>
             order'[o].state \in {"activated", "risk_review"} /\ ~ order'[o].cancelled
  <2>1. CASE order[o] = NoOrder /\ order'[o] = [NoOrder EXCEPT !.attempt = "creating_invoice",
                                           !.state = "awaiting_payment", !.open = TRUE]
    BY <2>1 DEF NoOrder
  <2>2. CASE \/ order'[o] = [order[o] EXCEPT !.attempt = "invoice_created", !.invoice = TRUE]
             \/ order'[o] = [order[o] EXCEPT !.attempt = "invoice_unknown"]
    BY <2>2
  <2>3. CASE CanResume(o) /\ order'[o] = [order[o] EXCEPT !.cancelled = TRUE, !.state = "security_blocked",
                                                          !.open = FALSE]
    BY <2>3 DEF CanResume
  <2>4. ASSUME NEW attempt, NEW p \in Payments, pay[p].order = o,
               order'[o] = [order[o] EXCEPT !.attempt = attempt, !.payment = IF @ = Nobody THEN p ELSE @]
        PROVE  Goal
    <3>1. order'[o].state = order[o].state /\ order'[o].cancelled = order[o].cancelled
      BY <2>4
    <3>2. order'[o].payment \in {order[o].payment, Nobody} \/ pay[order'[o].payment].order = o
      BY <2>4
    <3> QED
      BY <3>1, <3>2
  <2>5. CASE \/ /\ order[o].state \in {"awaiting_payment", "activated"}
                /\ order'[o] = [order[o] EXCEPT !.state = "risk_review"]
             \/ Awaiting(o) /\ order'[o] = [order[o] EXCEPT !.state = "security_blocked"]
             \/ Awaiting(o) /\ order'[o] = [order[o] EXCEPT !.state = "activated", !.open = FALSE]
    BY <2>5 DEF Awaiting
  <2> DEFINE IsPaid(p, attempt) == pay[p].order = o /\
               order'[o] = [order[o] EXCEPT !.attempt = attempt, !.payment = IF @ = Nobody THEN p ELSE @]
             Other ==
               \/ order[o] = NoOrder /\ order'[o] = [NoOrder EXCEPT !.attempt = "creating_invoice",
                                                       !.state = "awaiting_payment", !.open = TRUE]
               \/ \/ order'[o] = [order[o] EXCEPT !.attempt = "invoice_created", !.invoice = TRUE]
                  \/ order'[o] = [order[o] EXCEPT !.attempt = "invoice_unknown"]
               \/ CanResume(o) /\ order'[o] = [order[o] EXCEPT !.cancelled = TRUE, !.state = "security_blocked",
                                                              !.open = FALSE]
               \/ \/ /\ order[o].state \in {"awaiting_payment", "activated"}
                     /\ order'[o] = [order[o] EXCEPT !.state = "risk_review"]
                  \/ Awaiting(o) /\ order'[o] = [order[o] EXCEPT !.state = "security_blocked"]
                  \/ Awaiting(o) /\ order'[o] = [order[o] EXCEPT !.state = "activated", !.open = FALSE]
  <2>6. Other \/ \E attempt \in {order[o].attempt, "pending_review"}, p \in Payments : IsPaid(p, attempt)
    BY <1>3, OrderStep, Zenon
  <2>7. ASSUME NEW p \in Payments, NEW attempt, IsPaid(p, attempt) PROVE Goal
    BY <2>4, <2>7, Zenon
  <2>8. Other => Goal
    BY <2>1, <2>2, <2>3, <2>5, Zenon
  <2> HIDE DEF Goal, Other, IsPaid
  <2>9. Goal
    BY <2>6, <2>7, <2>8
  <2> QED
    BY <2>9 DEF Goal
<1> QED
  BY <1>2, <1>3

LEMMA PaymentsOwnedStays == ASSUME OrdersInv, [OrdersNext]_orderVars PROVE PaymentsOwned'
<1>1. Shapes /\ Shapes' /\ PaymentsOwned
  BY TypeIsShapes, TypeStays DEF OrdersInv, OrdersTypeOK, Shapes, OrderRows, Receipts, JobRows, RunnerRows,
    HandlerRows, PaymentRows
<1>2. ASSUME NEW o \in Orders, order'[o].payment # Nobody PROVE pay'[order'[o].payment].order = o
  <2>1. order'[o].payment \in Payments
    BY <1>1, <1>2 DEF Shapes, OrderRows
  <2>2. pay[order'[o].payment].order = o
    BY <1>1, <1>2, OrderFacts DEF PaymentsOwned
  <2> QED
    BY <2>1, <2>2, Stays
<1> QED
  BY <1>2 DEF PaymentsOwned

LEMMA CancelledBlockedStays == ASSUME OrdersInv, [OrdersNext]_orderVars PROVE CancelledBlocked'
  BY OrderFacts DEF CancelledBlocked, Cancelled

\* A new delivery is of an order that waited, on clean evidence of its payment.
LEMMA NewDelivery ==
  ASSUME OrdersInv, [OrdersNext]_orderVars, package' # package
  PROVE  \E o \in Orders :
           /\ package' = package \cup {Delivery(o)} /\ Awaiting(o) /\ Safe(o) /\ capture' = capture
           /\ order'[o].state = "activated" /\ ~ order'[o].cancelled
           /\ Delivery(o).pay \in Payments /\ pay[Delivery(o).pay].order = o /\ pay' = pay
<1>1. Frame /\ Shapes
  BY Frames, TypeIsShapes DEF OrdersInv
<1>2. PICK x \in Runners : Activate(x)
  BY <1>1 DEF Frame
<1> DEFINE o == runner[x].order
<1>3. o \in Orders
  BY <1>2, RunnerEvidence DEF Activate
<1>4. /\ Awaiting(o) /\ Safe(o) /\ package' = package \cup {Delivery(o)}
      /\ order' = [order EXCEPT ![o].state = "activated", ![o].open = FALSE] /\ capture' = capture /\ pay' = pay
  BY <1>2 DEF Activate
<1>5. order[o] \in OrderRows
  BY <1>1, <1>3 DEF Shapes
<1>6. order'[o] = [order[o] EXCEPT !.state = "activated", !.open = FALSE]
  BY <1>1, <1>3, <1>4 DEF Shapes
<1>7. order'[o].state = "activated" /\ ~ order'[o].cancelled
  <2>1. order[o].state = "awaiting_payment"
    BY <1>4 DEF Awaiting
  <2>2. ~ order[o].cancelled
    BY <1>3, <2>1 DEF OrdersInv, CancelledBlocked, Cancelled
  <2> QED
    BY <1>5, <1>6, <2>2 DEF OrderRows
<1>8. order[o].payment \in Payments
  BY <1>1, <1>4 DEF Safe, Shapes, Receipts
<1>9. pay[order[o].payment].order = o
  BY <1>3, <1>8, NobodyElse DEF OrdersInv, PaymentsOwned
<1> QED
  BY <1>3, <1>4, <1>7, <1>8, <1>9 DEF Delivery

LEMMA DeliveriesOwnedStays == ASSUME OrdersInv, [OrdersNext]_orderVars PROVE DeliveriesOwned'
<1>0. Shapes /\ DeliveriesOwned /\ Len(capture) <= Len(capture') /\ Len(capture) \in Nat
      /\ capture' \in Seq(Evidence)
  BY TypeIsShapes, Stays, EvidenceType DEF OrdersInv, Shapes
<1>1. ASSUME NEW d \in package
      PROVE  /\ pay'[d.pay].order = d.order /\ d.seen <= Len(capture')
             /\ order'[d.order].state \in {"activated", "risk_review"}
  <2>1. d.pay \in Payments /\ d.order \in Orders /\ d.seen \in Nat
    BY <1>0 DEF Shapes
  <2>2. pay[d.pay].order = d.order /\ d.seen <= Len(capture) /\ order[d.order].state \in {"activated", "risk_review"}
    BY <1>0 DEF DeliveriesOwned
  <2>3. pay'[d.pay].order = d.order /\ order'[d.order].state \in {"activated", "risk_review"}
    BY <2>1, <2>2, Stays, OrderFacts
  <2>4. Len(capture') \in Nat
    BY <1>0
  <2> QED
    BY <1>0, <2>1, <2>2, <2>3, <2>4
<1>2. CASE package' = package
  BY <1>1, <1>2 DEF DeliveriesOwned
<1>3. CASE package' # package
  <2>1. PICK o \in Orders :
           /\ package' = package \cup {Delivery(o)} /\ capture' = capture
           /\ order'[o].state = "activated" /\ pay[Delivery(o).pay].order = o /\ pay' = pay
    BY <1>3, NewDelivery
  <2>2. Delivery(o).order = o /\ Delivery(o).seen = Len(capture)
    BY DEF Delivery
  <2> QED
    BY <1>0, <1>1, <2>1, <2>2 DEF DeliveriesOwned
<1> QED
  BY <1>2, <1>3

LEMMA ActivatedIsCleanStays == ASSUME OrdersInv, [OrdersNext]_orderVars PROVE ActivatedIsClean'
<1>0. Shapes /\ ActivatedIsClean /\ DeliveriesOwned /\ EvidenceOwned /\ Len(capture) \in Nat
      /\ \A i \in 1..Len(capture) : capture'[i] = capture[i]
  BY TypeIsShapes, Stays DEF OrdersInv, Shapes, Ids
<1> DEFINE Clean(d) ==
      /\ order'[d.order].state \in {"activated", "risk_review"} /\ ~ order'[d.order].cancelled
      /\ \E i \in 1..d.seen : capture'[i].pay = d.pay /\ capture'[i].order = d.order /\ capture'[i].finished
      /\ \A i \in 1..d.seen : capture'[i].pay = d.pay => capture'[i].matched /\ ~ capture'[i].risk
<1>1. ASSUME NEW d \in package PROVE Clean(d)
  <2>1. d.order \in Orders /\ d.seen \in Nat /\ d.seen <= Len(capture)
    BY <1>0 DEF Shapes, DeliveriesOwned
  <2>2. order'[d.order].state \in {"activated", "risk_review"} /\ ~ order'[d.order].cancelled
    BY <1>0, <2>1, OrderFacts DEF DeliveriesOwned
  <2>3. \A i \in 1..d.seen : capture'[i] = capture[i]
    BY <1>0, <2>1
  <2> QED
    BY <1>0, <2>2, <2>3 DEF ActivatedIsClean
<1>2. CASE package' = package
  BY <1>1, <1>2 DEF ActivatedIsClean, Cancelled
<1>3. CASE package' # package
  <2>1. PICK o \in Orders :
           /\ package' = package \cup {Delivery(o)} /\ Safe(o) /\ capture' = capture
           /\ order'[o].state = "activated" /\ ~ order'[o].cancelled
           /\ Delivery(o).pay \in Payments /\ pay[Delivery(o).pay].order = o
    BY <1>3, NewDelivery
  <2>2. Delivery(o).order = o /\ Delivery(o).seen = Len(capture) /\ Delivery(o).pay = order[o].payment
    BY DEF Delivery
  <2>3. PICK i \in Ids : capture[i].pay = order[o].payment /\ capture[i].finished
    BY <2>1 DEF Safe
  <2>4. capture[i].order = o
    BY <1>0, <2>1, <2>2, <2>3 DEF EvidenceOwned
  <2>5. Ids = 1..Len(capture)
    BY <1>0 DEF Ids, Shapes
  <2>6. \A j \in Ids : capture[j].pay = order[o].payment => capture[j].matched /\ ~ capture[j].risk
    BY <2>1 DEF Safe
  <2>7. Clean(Delivery(o))
    BY <2>1, <2>2, <2>3, <2>4, <2>5, <2>6
  <2> HIDE DEF Clean
  <2>8. \A d \in package' : Clean(d)
    BY <1>1, <2>1, <2>7
  <2> QED
    BY <2>8 DEF ActivatedIsClean, Cancelled, Clean
<1> QED
  BY <1>2, <1>3

LEMMA InvoicesOwnedStays == ASSUME OrdersInv, [OrdersNext]_orderVars PROVE InvoicesOwned'
<1>0. Frame /\ Shapes /\ InvoicesOwned
  BY Frames, TypeIsShapes DEF OrdersInv
<1> SUFFICES ASSUME NEW o \in Orders
             PROVE  /\ invoices'[o] <= 1
                    /\ call'[o] = "asking" => invoices'[o] = 0
                    /\ call'[o] = "asking" \/ invoices'[o] > 0 =>
                         order'[o].attempt # "none" /\ \E q \in Requests : request'[q] = o
  BY DEF InvoicesOwned
<1>1. invoices[o] \in Nat /\ o # Nobody
  BY <1>0, NobodyElse DEF Shapes
<1>2. order[o].attempt # "none" /\ (\E q \in Requests : request[q] = o) =>
        order'[o].attempt # "none" /\ \E q \in Requests : request'[q] = o
  BY <1>1, Stays
<1>3. ASSUME NEW u \in Orders, CreateInvoice(u)
      PROVE  \/ invoices'[o] = invoices[o] /\ call'[o] = call[o]
             \/ call[o] = "asking" /\ invoices'[o] = invoices[o] + 1 /\ call'[o] # "asking"
  BY <1>0, <1>3 DEF CreateInvoice, Shapes
<1>4. ASSUME NEW q \in Requests, NEW u \in Orders, Checkout(q, u)
      PROVE  \/ call'[o] = call[o]
             \/ /\ order[o].attempt = "none"
                /\ order'[o].attempt # "none" /\ \E r \in Requests : request'[r] = o
  <2>1. CASE o # u
    BY <1>0, <1>4, <2>1 DEF Checkout, Shapes
  <2>2. CASE o = u
    <3>1. order'[o].attempt = "creating_invoice" /\ request'[q] = o
      BY <1>0, <1>4, <2>2 DEF Checkout, Shapes, NoOrder
    <3>2. order[o].attempt = "none"
      BY <1>4, <2>2 DEF Checkout, NoOrder
    <3> QED
      BY <3>1, <3>2
  <2> QED
    BY <2>1, <2>2
<1>5. ASSUME NEW u \in Orders, CreateInvoiceFails(u) \/ AttachInvoice(u) \/ InvoiceUnknown(u) \/ CheckoutStops(u)
      PROVE  call'[o] = call[o] \/ call'[o] # "asking"
  BY <1>0, <1>5 DEF CreateInvoiceFails, AttachInvoice, InvoiceUnknown, CheckoutStops, Shapes
<1>6. \/ invoices'[o] = invoices[o]
      \/ call[o] = "asking" /\ invoices'[o] = invoices[o] + 1 /\ call'[o] # "asking"
  BY <1>0, <1>3 DEF Frame
<1>7. \/ call'[o] = call[o] \/ call'[o] # "asking"
      \/ /\ order[o].attempt = "none"
         /\ order'[o].attempt # "none" /\ \E r \in Requests : request'[r] = o
  BY <1>0, <1>3, <1>4, <1>5 DEF Frame
<1>8. /\ invoices[o] <= 1
      /\ call[o] = "asking" => invoices[o] = 0
      /\ call[o] = "asking" \/ invoices[o] > 0 =>
           order[o].attempt # "none" /\ \E q \in Requests : request[q] = o
  BY <1>0 DEF InvoicesOwned
<1> QED
  BY <1>1, <1>2, <1>6, <1>7, <1>8

LEMMA DeliveredOnceStays == ASSUME OrdersInv, [OrdersNext]_orderVars PROVE DeliveredOnce'
<1>0. Shapes /\ Shapes' /\ DeliveredOnce /\ DeliveriesOwned /\ InvoicesOwned' /\ Shapes'
  BY TypeIsShapes, TypeStays, InvoicesOwnedStays
     DEF OrdersInv, OrdersTypeOK, Shapes, OrderRows, Receipts, JobRows, RunnerRows, HandlerRows, PaymentRows
<1>1. \A d, e \in package' : d.order = e.order \/ d.pay = e.pay => d = e
  <2>1. CASE package' = package
    BY <1>0, <2>1 DEF DeliveredOnce
  <2>2. CASE package' # package
    <3>1. PICK o \in Orders :
             /\ package' = package \cup {Delivery(o)} /\ Awaiting(o)
             /\ pay[Delivery(o).pay].order = o
      BY <2>2, NewDelivery
    <3>2. Delivery(o).order = o
      BY DEF Delivery
    <3>3. \A d \in package : d.order # o /\ d.pay # Delivery(o).pay
      BY <1>0, <3>1 DEF DeliveriesOwned, Awaiting
    <3> QED
      BY <1>0, <3>1, <3>2, <3>3 DEF DeliveredOnce
  <2> QED
    BY <2>1, <2>2
<1>2. \A o \in Orders : invoices'[o] <= 1 /\ (invoices'[o] > 0 => \E q \in Requests : request'[q] = o)
  BY <1>0 DEF InvoicesOwned
<1> QED
  BY <1>1, <1>2 DEF DeliveredOnce

LEMMA AckedIsStoredStays == ASSUME OrdersInv, [OrdersNext]_orderVars PROVE AckedIsStored'
<1>0. /\ Frame /\ Shapes /\ Shapes' /\ AckedIsStored
      /\ Ids \subseteq Ids' /\ \A i \in Ids : capture'[i] = capture[i]
      /\ \A o \in Orders : job[o].capture <= job'[o].capture
  BY Frames, Stays, TypeIsShapes, TypeStays
     DEF OrdersInv, OrdersTypeOK, Shapes, OrderRows, Receipts, JobRows, RunnerRows, HandlerRows, PaymentRows
<1> DEFINE Stored(n) ==
      \E i \in Ids' : /\ capture'[i].pay = n[1] /\ capture'[i].signed = n[2]
                      /\ capture'[i].matched => job'[capture'[i].order].capture >= i
<1>1. \A i \in Ids : i \in Nat /\ capture[i].order \in Orders
  <2>1. \A i \in Ids : i \in Nat /\ capture[i] \in Evidence
    BY <1>0 DEF Shapes, Ids
  <2> QED
    BY <2>1 DEF Evidence
<1>2. \A o \in Orders : job[o].capture \in Nat /\ job'[o].capture \in Nat
  BY <1>0 DEF Shapes, JobRows
<1>3. ASSUME NEW n \in acked PROVE Stored(n)
  <2>1. PICK i \in Ids : /\ capture[i].pay = n[1] /\ capture[i].signed = n[2]
                         /\ capture[i].matched => job[capture[i].order].capture >= i
    BY <1>0 DEF AckedIsStored
  <2>2. i \in Ids' /\ capture'[i] = capture[i]
    BY <1>0
  <2>3. capture[i].matched => job'[capture[i].order].capture >= i
    BY <1>0, <1>1, <1>2, <2>1
  <2> QED
    BY <2>1, <2>2, <2>3
<1>4. ASSUME NEW x \in Handlers, Enqueue(x) PROVE Stored(<<handler[x].pay, handler[x].signed>>)
  <2> DEFINE h == handler[x]
             o == pay[h.pay].order
  <2>1. PICK i \in Ids : capture[i].pay = h.pay /\ capture[i].signed = h.signed
    BY <1>4 DEF Enqueue, OrdersInv, HandlersStored
  <2>2. capture[i].order = o
    BY <2>1 DEF OrdersInv, EvidenceOwned
  <2>3. Newest(h) \in Nat /\ (capture[i].matched => i <= Newest(h))
    BY <1>0, <2>1, NewestIsNewest DEF Shapes
  <2>4. job' = [job EXCEPT ![o] = JobFor(o, Newest(h))]
    BY <1>4 DEF Enqueue
  <2>5. o \in Orders /\ i \in Nat
    BY <1>1, <2>2
  <2>6. job'[o].capture >= Newest(h)
    <3> HIDE DEF h, o
    <3>1. job'[o] = JobFor(o, Newest(h))
      BY <1>0, <2>4, <2>5 DEF Shapes
    <3>2. PICK k \in Nat : k = Newest(h)
      BY <2>3
    <3>3. JobFor(o, k).capture >= k
      BY <1>2, <2>5 DEF JobFor
    <3> QED
      BY <3>1, <3>2, <3>3
  <2>7. capture[i].matched => job'[o].capture >= i
    BY <1>2, <2>3, <2>5, <2>6
  <2>8. i \in Ids' /\ capture'[i] = capture[i]
    BY <1>0
  <2> QED
    BY <2>1, <2>2, <2>7, <2>8
<1>5. \A n \in acked' : Stored(n)
  <2> HIDE DEF Stored
  <2>1. acked' = acked \/ \E x \in Handlers : Enqueue(x) /\ acked' = acked \cup {<<handler[x].pay, handler[x].signed>>}
    BY <1>0 DEF Frame, Enqueue
  <2> QED
    BY <1>3, <1>4, <2>1
<1> QED
  BY <1>5 DEF AckedIsStored

-----------------------------------------------------------------------------
(* The theorems.                                                           *)

LEMMA OrdersInitInv == OrdersInit => OrdersInv
<1> SUFFICES ASSUME OrdersInit PROVE OrdersInv
  OBVIOUS
<1>1. Shapes
  BY DEF OrdersInit, Shapes, OrderRows, Receipts, JobRows, RunnerRows, HandlerRows, PaymentRows, OrderStates,
    NoOrder, NoJob, IdleHandler, IdleRunner
<1>2. SentKnown /\ HandlersCarry /\ HandlersStored /\ RunnersOwned /\ DeliveriesOwned /\ AckedIsStored /\ ActivatedIsClean
  BY DEF OrdersInit, SentKnown, HandlersCarry, HandlersStored, RunnersOwned, DeliveriesOwned, AckedIsStored,
    ActivatedIsClean, IdleHandler, IdleRunner
<1>3. EvidenceOwned
  BY DEF OrdersInit, EvidenceOwned, Ids
<1>4. JobsOwned /\ PaymentsOwned /\ CancelledBlocked /\ InvoicesOwned /\ DeliveredOnce
  BY DEF OrdersInit, JobsOwned, PaymentsOwned, CancelledBlocked, Cancelled, InvoicesOwned, DeliveredOnce, NoJob, NoOrder
<1> QED
  BY <1>1, <1>2, <1>3, <1>4, TypeIsShapes DEF OrdersInv

LEMMA OrdersInvStays == OrdersInv /\ [OrdersNext]_orderVars => OrdersInv'
<1> SUFFICES ASSUME OrdersInv, [OrdersNext]_orderVars PROVE OrdersInv'
  OBVIOUS
<1>1. OrdersTypeOK' /\ SentKnown' /\ HandlersCarry' /\ HandlersStored' /\ EvidenceOwned' /\ JobsOwned' /\ RunnersOwned'
  BY TypeStays, SentKnownStays, HandlersCarryStays, HandlersStoredStays, EvidenceOwnedStays, JobsOwnedStays,
    RunnersOwnedStays
<1>2. PaymentsOwned' /\ CancelledBlocked' /\ DeliveriesOwned' /\ InvoicesOwned'
  BY PaymentsOwnedStays, CancelledBlockedStays, DeliveriesOwnedStays, InvoicesOwnedStays
<1>3. ActivatedIsClean' /\ DeliveredOnce' /\ AckedIsStored'
  BY ActivatedIsCleanStays, DeliveredOnceStays, AckedIsStoredStays
<1> QED
  BY <1>1, <1>2, <1>3 DEF OrdersInv

LEMMA OrdersInvHolds == OrdersSpec => []OrdersInv
<1> QED
  BY OrdersInitInv, OrdersInvStays, PTL DEF OrdersSpec

\* Orders, payments, captures, receipts, jobs and processes keep their type; in particular
\* what is answered was sent, and a delivery has an order and a payment.
THEOREM OrdersTypeCorrect == OrdersSpec => []OrdersTypeOK
<1>1. OrdersInv => OrdersTypeOK
  BY DEF OrdersInv
<1> QED
  BY <1>1, OrdersInvHolds, PTL

\* activateNOWOperationalOrder delivers an order on a finished capture of its own payment and
\* on no risky or quarantined one, and never an order that was cancelled.
THEOREM ActivationIsClean == OrdersSpec => []ActivatedIsClean
<1>1. OrdersInv => ActivatedIsClean
  BY DEF OrdersInv
<1> QED
  BY <1>1, OrdersInvHolds, PTL

\* CreateNOWPaymentsMembership asks for at most one invoice of an order of a request, and of
\* the runners that process an order or a payment one delivers.
THEOREM OneDelivery == OrdersSpec => []DeliveredOnce
<1>1. OrdersInv => DeliveredOnce
  BY DEF OrdersInv
<1> QED
  BY <1>1, OrdersInvHolds, PTL

\* handleNOWPaymentsCapture answers 200 to a notification when its evidence is stored and,
\* when it is of an order, a job of that order is at this evidence or at a newer one.
THEOREM AckedIsKept == OrdersSpec => []AckedIsStored
<1>1. OrdersInv => AckedIsStored
  BY DEF OrdersInv
<1> QED
  BY <1>1, OrdersInvHolds, PTL

-----------------------------------------------------------------------------
(* The books of the engine.                                                *)

\* What a book holds.
Fields == {"roi", "rates", "paid", "capClosed", "owed", "payment", "claimed", "prefix", "allocation", "closed"}
RoiRec == [cut : Nat, numerator : Nat, claimed : Nat, excluded : Nat]
OwedRec == [kind : Commissions, pkg : Sources, week : Nat, amount : Nat, excluded : Nat, paid : Nat]
PayRec == [kind : Commissions \cup {"roi"}, pkg : Sources, amount : Nat, day : Nat]

Shape(b) ==
  /\ DOMAIN b = Fields
  /\ b.roi \in [Slots -> RoiRec] /\ b.rates \in [Slots -> Seq(Nat)]
  /\ b.paid \in [Slots -> Nat] /\ b.claimed \in [Members -> Nat]
  /\ b.owed \in Seq(OwedRec) /\ b.payment \in Seq(PayRec)

\* What the payments that are in S add up to.
Chosen(p, S) == Total([n \in DOMAIN p |-> IF p[n] \in S THEN p[n].amount ELSE 0])

LEMMA ChosenGrows ==
  ASSUME NEW p \in Seq(PayRec), NEW x \in PayRec, NEW S
  PROVE  /\ Chosen(Append(p, x), S) = Chosen(p, S) + IF x \in S THEN x.amount ELSE 0
         /\ Chosen(p, S) \in Nat
<1> DEFINE q == Append(p, x)
           f == [n \in DOMAIN p |-> IF p[n] \in S THEN p[n].amount ELSE 0]
           g == [n \in DOMAIN q |-> IF q[n] \in S THEN q[n].amount ELSE 0]
           n == Len(p)
<1>1. n \in Nat /\ DOMAIN p = 1..n /\ DOMAIN q = 1..(n + 1) /\ q[n + 1] = x
  OBVIOUS
<1>2. \A k \in 1..n : q[k] = p[k] /\ p[k] \in PayRec
  OBVIOUS
<1>3. x.amount \in Nat /\ \A k \in 1..n : p[k].amount \in Nat
  BY <1>2 DEF PayRec
<1> HIDE DEF q, n
<1>4. \A k \in 1..n : f[k] \in Nat /\ g[k] = f[k]
  BY <1>1, <1>2, <1>3
<1>5. g[n + 1] = IF x \in S THEN x.amount ELSE 0
  BY <1>1
<1>6. g[n + 1] \in Int
  BY <1>3, <1>5
<1> HIDE DEF f, g
<1>7. SumFunctionOnSet(g, 1..(n + 1)) = SumFunctionOnSet(f, 1..n) + g[n + 1]
  <2>1. n \in Nat /\ \A k \in 1..n : f[k] \in Int /\ g[k] = f[k]
    BY <1>1, <1>4
  <2> QED
    BY <2>1, <1>6, SumGrows
<1>8. IsFiniteSet(1..n)
  <2>1. 1 \in Int /\ n \in Int
    BY <1>1
  <2> QED
    BY <2>1, FS_Interval
<1>9. SumFunctionOnSet(f, 1..n) \in Nat
  BY <1>4, <1>8, SumNat
<1>10. DOMAIN f = 1..n /\ DOMAIN g = 1..(n + 1)
  BY <1>1 DEF f, g
<1>11. Chosen(p, S) = SumFunctionOnSet(f, 1..n) /\ Chosen(q, S) = SumFunctionOnSet(g, 1..(n + 1))
  BY <1>10 DEF Chosen, Total, f, g
<1> QED
  BY <1>5, <1>7, <1>9, <1>11 DEF q

Credits(i) == {x \in PayRec : x.kind = "roi" /\ x.pkg = i}
Credited(b, i) ==
  Total([n \in DOMAIN b.payment |->
    IF b.payment[n].kind = "roi" /\ b.payment[n].pkg = i THEN b.payment[n].amount ELSE 0])
Uses(i) == {x \in PayRec : ConsumesCap(x.kind) /\ x.pkg = i}
Kept(b, i) ==
  Total([n \in DOMAIN b.payment |->
    IF ConsumesCap(b.payment[n].kind) /\ b.payment[n].pkg = i THEN b.payment[n].amount ELSE 0])
Earlier(kinds, day) == {x \in PayRec : x.kind \in kinds /\ x.day < day}

LEMMA AllChosen ==
  ASSUME NEW b, b.payment \in Seq(PayRec)
  PROVE  /\ \A i : Credited(b, i) = Chosen(b.payment, Credits(i))
         /\ \A i : Kept(b, i) = Chosen(b.payment, Uses(i))
         /\ \A kinds, day : PaidBefore(b, kinds, day) = Chosen(b.payment, Earlier(kinds, day))
<1> DEFINE p == b.payment
<1>1. \A n \in DOMAIN p : p[n] \in PayRec
  OBVIOUS
<1>2. ASSUME NEW i PROVE Credited(b, i) = Chosen(p, Credits(i))
  <2>1. \A n \in DOMAIN p : p[n] \in Credits(i) <=> p[n].kind = "roi" /\ p[n].pkg = i
    BY <1>1 DEF Credits
  <2>2. [n \in DOMAIN p |-> IF p[n] \in Credits(i) THEN p[n].amount ELSE 0]
          = [n \in DOMAIN p |-> IF p[n].kind = "roi" /\ p[n].pkg = i THEN p[n].amount ELSE 0]
    BY <2>1
  <2> QED
    BY <2>2 DEF Credited, Chosen
<1>3. ASSUME NEW i PROVE Kept(b, i) = Chosen(p, Uses(i))
  <2>1. \A n \in DOMAIN p : p[n] \in Uses(i) <=> ConsumesCap(p[n].kind) /\ p[n].pkg = i
    BY <1>1 DEF Uses
  <2>2. [n \in DOMAIN p |-> IF p[n] \in Uses(i) THEN p[n].amount ELSE 0]
          = [n \in DOMAIN p |-> IF ConsumesCap(p[n].kind) /\ p[n].pkg = i THEN p[n].amount ELSE 0]
    BY <2>1
  <2> QED
    BY <2>2 DEF Kept, Chosen
<1>4. ASSUME NEW kinds, NEW day PROVE PaidBefore(b, kinds, day) = Chosen(p, Earlier(kinds, day))
  <2>1. \A n \in DOMAIN p : p[n] \in Earlier(kinds, day) <=> p[n].kind \in kinds /\ p[n].day < day
    BY <1>1 DEF Earlier
  <2>2. [n \in DOMAIN p |-> IF p[n] \in Earlier(kinds, day) THEN p[n].amount ELSE 0]
          = [n \in DOMAIN p |-> IF p[n].kind \in kinds /\ p[n].day < day THEN p[n].amount ELSE 0]
    BY <2>1
  <2> QED
    BY <2>2 DEF PaidBefore, Chosen
<1> QED
  BY <1>2, <1>3, <1>4

\* c is b with one payment more, if it is of anything.
Posted(c, b, kind, pkg, amount, day) ==
  \/ amount = 0 /\ c = b
  \/ /\ amount > 0
     /\ DOMAIN c = Fields
     /\ c.roi = b.roi /\ c.rates = b.rates /\ c.owed = b.owed /\ c.closed = b.closed /\ c.claimed = b.claimed
     /\ c.payment = Append(b.payment, [kind |-> kind, pkg |-> pkg, amount |-> amount, day |-> day])
     /\ c.paid = IF ConsumesCap(kind) THEN [b.paid EXCEPT ![pkg] = @ + amount] ELSE b.paid

LEMMA PostMeaning ==
  ASSUME NEW b, Shape(b), NEW kind, NEW pkg \in Slots, NEW amount \in Nat, NEW day,
         ConsumesCap(kind) => amount <= Remaining(b, pkg)
  PROVE  Posted(Post(b, kind, pkg, amount, day), b, kind, pkg, amount, day)
<1> DEFINE a == IF ConsumesCap(kind) THEN Least(amount, Remaining(b, pkg)) ELSE amount
<1>1. a = amount
  BY DEF Least
<1>2. CASE amount = 0
  BY <1>1, <1>2 DEF Post, Posted
<1>3. CASE amount # 0
  <2> DEFINE x == [kind |-> kind, pkg |-> pkg, amount |-> amount, day |-> day]
             With(z) == [b EXCEPT !.payment = Append(@, [kind |-> kind, pkg |-> pkg, amount |-> z, day |-> day]),
                                  !.paid[pkg] = IF ConsumesCap(kind) THEN @ + z ELSE @,
                                  !.capClosed[pkg] = IF ConsumesCap(kind) THEN CapClosed(b, pkg, b.paid[pkg] + z) ELSE @]
             c == With(amount)
  <2>1. Post(b, kind, pkg, amount, day) = c
    <3>1. Post(b, kind, pkg, amount, day) = IF a <= 0 THEN b ELSE With(a)
      BY DEF Post
    <3>2. ~(a <= 0)
      BY <1>1, <1>3
    <3> HIDE DEF a, With
    <3> QED
      BY <3>1, <3>2, <1>1
  <2>2. DOMAIN b = Fields /\ b.paid \in [Slots -> Nat]
    BY DEF Shape
  <2>3. /\ DOMAIN c = Fields
        /\ c.roi = b.roi /\ c.rates = b.rates /\ c.owed = b.owed /\ c.closed = b.closed /\ c.claimed = b.claimed
        /\ c.payment = Append(b.payment, x)
        /\ c.paid = [b.paid EXCEPT ![pkg] = IF ConsumesCap(kind) THEN @ + amount ELSE @]
    BY <2>2 DEF Fields
  <2>4. c.paid = IF ConsumesCap(kind) THEN [b.paid EXCEPT ![pkg] = @ + amount] ELSE b.paid
    BY <2>2, <2>3
  <2> HIDE DEF c
  <2> QED
    BY <1>3, <2>1, <2>3, <2>4 DEF Posted
<1> QED
  BY <1>2, <1>3

LEMMA SumsAreNat ==
  ASSUME NEW b, Shape(b)
  PROVE  /\ \A i : Credited(b, i) \in Nat /\ Kept(b, i) \in Nat
         /\ \A kinds, day : PaidBefore(b, kinds, day) \in Nat
<1>1. b.payment \in Seq(PayRec)
  BY DEF Shape
<1>2. ASSUME NEW S PROVE Chosen(b.payment, S) \in Nat
  <2>1. CASE PayRec = {}
    <3>1. b.payment = <<>>
      BY <1>1, <2>1
    <3>2. DOMAIN b.payment = {}
      BY <3>1
    <3>3. Chosen(b.payment, S) = SumFunctionOnSet([n \in {} |-> IF b.payment[n] \in S THEN b.payment[n].amount ELSE 0], {})
      BY <3>2 DEF Chosen, Total
    <3> QED
      BY <3>3, SumEmpty
  <2>2. CASE PayRec # {}
    <3>1. PICK x \in PayRec : TRUE
      BY <2>2
    <3> QED
      BY <1>1, <3>1, ChosenGrows
  <2> QED
    BY <2>1, <2>2
<1> QED
  BY <1>1, <1>2, AllChosen

\* c has what b had, and the payment.
Grown(c, b, kind, pkg, amount, day) ==
  /\ Shape(c) /\ c.roi = b.roi /\ c.rates = b.rates /\ c.owed = b.owed /\ c.closed = b.closed
  /\ \A i : Credited(c, i) = Credited(b, i) + IF kind = "roi" /\ pkg = i THEN amount ELSE 0
  /\ \A i : Kept(c, i) = Kept(b, i) + IF ConsumesCap(kind) /\ pkg = i THEN amount ELSE 0
  /\ \A i \in Slots : c.paid[i] = b.paid[i] + IF ConsumesCap(kind) /\ pkg = i THEN amount ELSE 0
  /\ \A kinds, d : PaidBefore(c, kinds, d) = PaidBefore(b, kinds, d) + IF kind \in kinds /\ day < d THEN amount ELSE 0
  /\ \A n \in DOMAIN c.payment : \/ \E k \in DOMAIN b.payment : b.payment[k] = c.payment[n]
                                 \/ c.payment[n].kind = kind /\ c.payment[n].day = day /\ amount > 0

LEMMA PostedGrows ==
  ASSUME NEW b, Shape(b), NEW kind \in Commissions \cup {"roi"}, NEW pkg \in Sources, pkg \in Slots,
         NEW amount \in Nat, NEW day \in Nat, NEW c, Posted(c, b, kind, pkg, amount, day)
  PROVE  Grown(c, b, kind, pkg, amount, day)
<1>1. /\ \A i : Credited(b, i) \in Nat /\ Kept(b, i) \in Nat
      /\ \A kinds, d : PaidBefore(b, kinds, d) \in Nat
      /\ \A i \in Slots : b.paid[i] \in Nat
  BY SumsAreNat DEF Shape
<1>2. CASE amount = 0
  <2>1. c = b
    BY <1>2 DEF Posted
  <2>3. \A n \in DOMAIN c.payment : \E k \in DOMAIN b.payment : b.payment[k] = c.payment[n]
    BY <2>1
  <2> QED
    BY <1>1, <1>2, <2>1, <2>3 DEF Grown
<1>3. CASE amount # 0
  <2> DEFINE x == [kind |-> kind, pkg |-> pkg, amount |-> amount, day |-> day]
  <2>1. /\ DOMAIN c = Fields /\ amount > 0
        /\ c.roi = b.roi /\ c.rates = b.rates /\ c.owed = b.owed /\ c.closed = b.closed /\ c.claimed = b.claimed
        /\ c.payment = Append(b.payment, x)
        /\ c.paid = IF ConsumesCap(kind) THEN [b.paid EXCEPT ![pkg] = @ + amount] ELSE b.paid
    BY <1>3 DEF Posted
  <2>2. b.payment \in Seq(PayRec) /\ b.paid \in [Slots -> Nat] /\ x \in PayRec
    BY DEF Shape, PayRec
  <2>3. c.payment \in Seq(PayRec)
    BY <2>1, <2>2
  <2>4. c.paid \in [Slots -> Nat]
    BY <2>1, <2>2
  <2>5. Shape(c)
    BY <2>1, <2>3, <2>4 DEF Shape
  <2>6. \A S : Chosen(c.payment, S) = Chosen(b.payment, S) + IF x \in S THEN amount ELSE 0
    BY <2>1, <2>2, ChosenGrows
  <2>7. \A i : Credited(c, i) = Credited(b, i) + IF kind = "roi" /\ pkg = i THEN amount ELSE 0
    <3> SUFFICES ASSUME NEW i PROVE Credited(c, i) = Credited(b, i) + IF kind = "roi" /\ pkg = i THEN amount ELSE 0
      OBVIOUS
    <3>1. x \in Credits(i) <=> kind = "roi" /\ pkg = i
      BY <2>2 DEF Credits
    <3> QED
      BY <2>2, <2>3, <2>6, <3>1, AllChosen
  <2>8. \A i : Kept(c, i) = Kept(b, i) + IF ConsumesCap(kind) /\ pkg = i THEN amount ELSE 0
    <3> SUFFICES ASSUME NEW i PROVE Kept(c, i) = Kept(b, i) + IF ConsumesCap(kind) /\ pkg = i THEN amount ELSE 0
      OBVIOUS
    <3>1. x \in Uses(i) <=> ConsumesCap(kind) /\ pkg = i
      BY <2>2 DEF Uses
    <3> QED
      BY <2>2, <2>3, <2>6, <3>1, AllChosen
  <2>9. \A kinds, d : PaidBefore(c, kinds, d) = PaidBefore(b, kinds, d) + IF kind \in kinds /\ day < d THEN amount ELSE 0
    <3> SUFFICES ASSUME NEW kinds, NEW d
                 PROVE PaidBefore(c, kinds, d) = PaidBefore(b, kinds, d) + IF kind \in kinds /\ day < d THEN amount ELSE 0
      OBVIOUS
    <3>1. x \in Earlier(kinds, d) <=> kind \in kinds /\ day < d
      BY <2>2 DEF Earlier
    <3> QED
      BY <2>2, <2>3, <2>6, <3>1, AllChosen
  <2>10. \A i \in Slots : c.paid[i] = b.paid[i] + IF ConsumesCap(kind) /\ pkg = i THEN amount ELSE 0
    BY <1>1, <2>1, <2>2
  <2>11. \A n \in DOMAIN c.payment : \/ \E k \in DOMAIN b.payment : b.payment[k] = c.payment[n]
                                     \/ c.payment[n].kind = kind /\ c.payment[n].day = day /\ amount > 0
    BY <2>1, <2>2
  <2> QED
    BY <2>1, <2>5, <2>7, <2>8, <2>9, <2>10, <2>11 DEF Grown
<1> QED
  BY <1>2, <1>3

-----------------------------------------------------------------------------
(* What is true of the memberships and of a book.                          *)

SourceRec == [member : Nat, kind : {"nowpayments", "manual"}, gross : Nat, pv : Nat, tier : Nat, day : Nat]

SourcesTyped ==
  /\ clock \in Nat
  /\ source \in Seq(SourceRec) /\ Len(source) <= MaxSources
  /\ \A i \in Sources : source[i].day <= Today

\* Nothing is written where there is no membership yet.
SlotsEmpty(b) ==
  \A i \in Slots \ Sources :
    b.rates[i] = <<>> /\ b.paid[i] = 0 /\ b.roi[i] = [cut |-> 0, numerator |-> 0, claimed |-> 0, excluded |-> 0]

\* A certificate: its days, its rate-days, and where the money went.
RoiKept(b) ==
  \A i \in Sources :
    /\ b.roi[i].cut = source[i].day + Len(b.rates[i]) /\ b.roi[i].cut <= Matures(i)
    /\ b.roi[i].numerator = source[i].gross * Total(b.rates[i])
    /\ b.roi[i].claimed = b.roi[i].numerator \div (100 * Year)
    /\ b.roi[i].claimed = Credited(b, i) + b.roi[i].excluded

CapsKept(b) == \A i \in Sources : Kept(b, i) = b.paid[i] /\ b.paid[i] <= Cap(i)

OwedKept(b) == \A n \in DOMAIN b.owed : Open(b.owed[n]) >= 0

\* Every certificate has been accrued to the end of each week that closed, or to its own.
WeeksAccrued(b) ==
  /\ b.closed \subseteq 0..Today
  /\ \A i \in Sources : \A end \in b.closed : end <= b.roi[i].cut \/ Matures(i) <= b.roi[i].cut

\* Commissions are paid in weeks that close.
PaysIn(b, ends) ==
  \A n \in DOMAIN b.payment : b.payment[n].kind \in Commissions => b.payment[n].day \in ends

ShareKept(b, end) ==
  (\E n \in DOMAIN b.payment : b.payment[n].kind \in Commissions /\ b.payment[n].day = end)
    => PaidBefore(b, {"roi"}, end) + PaidBefore(b, Commissions, end + 1) <= Percent(Alpha, Inflows(end))

Good(b) ==
  /\ Shape(b) /\ SlotsEmpty(b) /\ RoiKept(b) /\ CapsKept(b) /\ OwedKept(b) /\ WeeksAccrued(b)
  /\ PaysIn(b, b.closed) /\ \A end \in b.closed : ShareKept(b, end)

LEMMA SourceFacts ==
  ASSUME SourcesTyped
  PROVE  /\ Today \in Nat /\ Len(source) \in Nat
         /\ Sources = 1..Len(source) /\ Sources \subseteq Slots /\ Sources \subseteq 0..Len(source)
         /\ \A i \in Sources : /\ source[i] \in SourceRec /\ source[i].gross \in Nat /\ source[i].day \in Nat
                               /\ source[i].day <= Today
                               /\ Cap(i) \in Nat /\ Matures(i) \in Nat /\ source[i].day <= Matures(i)
<1>1. clock \in Nat /\ source \in Seq(SourceRec) /\ Len(source) <= MaxSources /\ MaxSources \in Nat
  BY EngineAssumption DEF SourcesTyped
<1>2. Today \in Nat
  BY <1>1, QuotientOf DEF Today
<1>3. Len(source) \in Nat /\ Sources = 1..Len(source) /\ Sources \subseteq Slots
  BY <1>1 DEF Sources, Slots
<1>4. ASSUME NEW i \in Sources
      PROVE  /\ source[i] \in SourceRec /\ source[i].gross \in Nat /\ source[i].day \in Nat
             /\ source[i].day <= Today
             /\ Cap(i) \in Nat /\ Matures(i) \in Nat /\ source[i].day <= Matures(i)
  <2>1. source[i] \in SourceRec
    BY <1>1, <1>3, <1>4
  <2>2. source[i].gross \in Nat /\ source[i].day \in Nat
    BY <2>1 DEF SourceRec
  <2>3. CapFactor \in Nat /\ Term \in Nat
    BY EngineAssumption
  <2>4. CapFactor * source[i].gross \in Nat
    BY <2>2, <2>3, ProductOf
  <2>5. Cap(i) \in Nat
    BY <2>4, QuotientOf DEF Cap, Percent
  <2>6. Matures(i) \in Nat /\ source[i].day <= Matures(i)
    BY <2>2, <2>3 DEF Matures
  <2> QED
    BY <1>4, <2>1, <2>2, <2>5, <2>6 DEF SourcesTyped
<1> QED
  BY <1>2, <1>3, <1>4

LEMMA TotalGrows ==
  ASSUME NEW s \in Seq(Nat), NEW x \in Nat
  PROVE  Total(Append(s, x)) = Total(s) + x /\ Total(s) \in Nat
<1> DEFINE t == Append(s, x)
           n == Len(s)
<1>1. n \in Nat /\ DOMAIN s = 1..n /\ DOMAIN t = 1..(n + 1) /\ t[n + 1] = x
  OBVIOUS
<1>2. \A k \in 1..n : t[k] = s[k] /\ s[k] \in Nat
  OBVIOUS
<1> HIDE DEF t, n
<1>3. n \in Nat /\ t[n + 1] \in Int /\ \A k \in 1..n : s[k] \in Int /\ t[k] = s[k]
  BY <1>1, <1>2
<1>4. SumFunctionOnSet(t, 1..(n + 1)) = SumFunctionOnSet(s, 1..n) + t[n + 1]
  BY <1>3, SumGrows
<1>5. IsFiniteSet(1..n)
  <2>1. 1 \in Int /\ n \in Int
    BY <1>1
  <2> QED
    BY <2>1, FS_Interval
<1>6. SumFunctionOnSet(s, 1..n) \in Nat
  BY <1>2, <1>5, SumNat
<1> QED
  BY <1>1, <1>4, <1>6 DEF Total, t

\* The step of the books: a day of a certificate.
Accrues(c, b, posted, i, rate, target, excluded) ==
  /\ DOMAIN c = Fields
  /\ c.paid = posted.paid /\ c.owed = posted.owed /\ c.payment = posted.payment /\ c.closed = posted.closed
  /\ c.claimed = posted.claimed
  /\ c.roi = [b.roi EXCEPT ![i] = [cut |-> b.roi[i].cut + 1, numerator |-> b.roi[i].numerator + source[i].gross * rate,
                                   claimed |-> target, excluded |-> b.roi[i].excluded + excluded]]
  /\ c.rates = [b.rates EXCEPT ![i] = Append(b.rates[i], rate)]

LEMMA RoiArithmetic ==
  ASSUME NEW g \in Nat, NEW t \in Nat, NEW rate \in Nat, NEW y \in Nat \ {0}
  PROVE  /\ g * t \in Nat /\ g * rate \in Nat /\ g * t + g * rate = g * (t + rate)
         /\ (g * t + g * rate) \div (100 * y) \in Nat
         /\ (g * t) \div (100 * y) \in Nat
         /\ (g * t) \div (100 * y) <= (g * t + g * rate) \div (100 * y)
<1>1. g * t \in Nat /\ g * rate \in Nat
  BY ProductOf
<1>2. g * t + g * rate = g * (t + rate)
  BY TimesSum
<1>3. 100 * y \in Nat \ {0}
  OBVIOUS
<1>4. g * t + g * rate \in Nat /\ g * t <= g * t + g * rate
  BY <1>1
<1> QED
  BY <1>1, <1>2, <1>3, <1>4, DivMonotone, QuotientOf

\* An accrual takes a day of a certificate that is due, and no more than its package has left.
DayOf(b, i, rate, target, excluded, posted) ==
  /\ i \in Sources /\ rate \in Nat
  /\ b.roi[i].cut < Today /\ b.roi[i].cut < Matures(i)
  /\ target = (b.roi[i].numerator + source[i].gross * rate) \div (100 * Year)
  /\ target - b.roi[i].claimed \in Nat
  /\ excluded \in 0..(target - b.roi[i].claimed)
  /\ target - b.roi[i].claimed - excluded <= Remaining(b, i)
  /\ Posted(posted, b, "roi", i, target - b.roi[i].claimed - excluded, b.roi[i].cut + 1)

LEMMA DayMeaning ==
  ASSUME SourcesTyped, NEW b, Good(b), Due(b) # {}
  PROVE  \E i, rate, target, excluded, posted :
           DayOf(b, i, rate, target, excluded, posted) /\ Accrues(AccrueDay(b), b, posted, i, rate, target, excluded)
<1> DEFINE i == Min(Due(b))
           day == b.roi[i].cut + 1
           rate == IF Qualified(source[i].member, day, source[i].tier) THEN UpliftRate ELSE BaseRate
           target == Target(b.roi[i].numerator, source[i].gross, rate, b.roi[i].claimed)
           amount == target - b.roi[i].claimed
           excluded == Minus(amount, Remaining(b, i))
           posted == Post(b, "roi", i, amount - excluded, day)
           Row(r) == [cut |-> day, numerator |-> r.numerator + source[i].gross * rate,
                      claimed |-> target, excluded |-> r.excluded + excluded]
           c == [posted EXCEPT !.roi[i] = Row(@), !.rates[i] = Append(@, rate)]
<1>1. AccrueDay(b) = c
  BY DEF AccrueDay
<1>2. i \in Due(b)
  <2>1. Due(b) \subseteq 1..Len(source) /\ Len(source) \in Int /\ 1 \in Int
    BY SourceFacts DEF Due
  <2>2. PICK one \in Int : one = 1
    OBVIOUS
  <2>3. PICK n \in Int : n = Len(source)
    BY <2>1
  <2>4. IsFiniteSet(one..n) /\ Due(b) \subseteq one..n
    BY <2>1, <2>2, <2>3, FS_Interval
  <2>5. IsFiniteSet(Due(b))
    BY <2>4, FS_Subset
  <2>6. Due(b) \subseteq Int
    BY <2>4
  <2> QED
    BY <2>5, <2>6, Ends
<1> HIDE DEF i
<1>3. i \in Sources /\ i \in Slots
  BY <1>2, SourceFacts DEF Due
<1>4. /\ source[i].gross \in Nat /\ Cap(i) \in Nat /\ Matures(i) \in Nat /\ Today \in Nat
      /\ b.roi[i] \in RoiRec /\ b.rates[i] \in Seq(Nat) /\ b.paid[i] \in Nat /\ b.paid[i] <= Cap(i)
  BY <1>3, SourceFacts DEF Good, Shape, CapsKept
<1>5. b.roi[i].cut \in Nat /\ b.roi[i].numerator \in Nat /\ b.roi[i].claimed \in Nat /\ b.roi[i].excluded \in Nat
  BY <1>4 DEF RoiRec
<1>6. b.roi[i].cut < Today /\ b.roi[i].cut < Matures(i)
  BY <1>2, <1>4, <1>5 DEF Due, Cutoff, Least
<1>7. rate \in Nat
  BY EngineAssumption
<1> HIDE DEF rate
<1>8. target - b.roi[i].claimed \in Nat /\ target = (b.roi[i].numerator + source[i].gross * rate) \div (100 * Year)
  <2>1. b.roi[i].numerator = source[i].gross * Total(b.rates[i])
        /\ b.roi[i].claimed = b.roi[i].numerator \div (100 * Year)
    BY <1>3 DEF Good, RoiKept
  <2>2. Total(b.rates[i]) \in Nat /\ Year \in Nat \ {0}
    BY <1>4, <1>7, TotalGrows, EngineAssumption
  <2>3. target = (b.roi[i].numerator + source[i].gross * rate) \div (100 * Year)
    BY DEF Target
  <2>4. b.roi[i].claimed <= (b.roi[i].numerator + source[i].gross * rate) \div (100 * Year)
        /\ (b.roi[i].numerator + source[i].gross * rate) \div (100 * Year) \in Nat
    <3> DEFINE g == source[i].gross
               t == Total(b.rates[i])
    <3>1. g \in Nat /\ t \in Nat
      BY <1>4, <2>2
    <3>2. b.roi[i].numerator = g * t /\ b.roi[i].claimed = (g * t) \div (100 * Year)
      BY <2>1
    <3> HIDE DEF g, t
    <3>3. /\ (g * t) \div (100 * Year) <= (g * t + g * rate) \div (100 * Year)
          /\ (g * t + g * rate) \div (100 * Year) \in Nat
      BY <1>7, <2>2, <3>1, RoiArithmetic, ZenonT(60)
    <3>4. /\ b.roi[i].claimed <= (b.roi[i].numerator + g * rate) \div (100 * Year)
          /\ (b.roi[i].numerator + g * rate) \div (100 * Year) \in Nat
      BY <3>2, <3>3
    <3> QED
      BY <3>4 DEF g
  <2> HIDE DEF target
  <2> QED
    BY <1>5, <2>3, <2>4
<1> HIDE DEF target
<1>9. Remaining(b, i) \in Nat
  BY <1>4 DEF Remaining
<1>10. excluded \in 0..amount /\ amount - excluded \in Nat /\ amount - excluded <= Remaining(b, i)
  <2>1. amount \in Nat
    BY <1>8
  <2> HIDE DEF amount
  <2> QED
    BY <2>1, <1>9 DEF Minus
<1> HIDE DEF excluded
<1>11. Posted(posted, b, "roi", i, amount - excluded, day)
  <2>1. Shape(b)
    BY DEF Good
  <2> HIDE DEF amount, day
  <2> QED
    BY <1>3, <1>10, <2>1, PostMeaning
<1>12. Shape(posted) /\ posted.roi = b.roi /\ posted.rates = b.rates
  <2>1. Shape(b) /\ day \in Nat /\ "roi" \in Commissions \cup {"roi"}
    BY <1>5 DEF Good
  <2>2. Grown(posted, b, "roi", i, amount - excluded, day)
    <3> HIDE DEF amount, day, posted
    <3> QED
      BY <1>3, <1>10, <1>11, <2>1, PostedGrows
  <2> HIDE DEF posted
  <2> QED
    BY <2>2 DEF Grown
<1> HIDE DEF posted
<1>13. Accrues(c, b, posted, i, rate, target, excluded)
  <2>1. DOMAIN posted = Fields
    BY <1>12 DEF Shape
  <2>2. /\ DOMAIN c = Fields /\ c.paid = posted.paid /\ c.owed = posted.owed
        /\ c.payment = posted.payment /\ c.closed = posted.closed /\ c.claimed = posted.claimed
        /\ c.roi = [b.roi EXCEPT ![i] = Row(b.roi[i])]
        /\ c.rates = [b.rates EXCEPT ![i] = Append(b.rates[i], rate)]
    BY <1>12, <2>1 DEF Fields
  <2> HIDE DEF c
  <2> QED
    BY <2>2 DEF Accrues
<1>14. DayOf(b, i, rate, target, excluded, posted)
  BY <1>3, <1>6, <1>7, <1>8, <1>10, <1>11 DEF DayOf
<1> HIDE DEF c
<1> QED
  BY <1>1, <1>13, <1>14

LEMMA DayGood ==
  ASSUME SourcesTyped, NEW b, Good(b), NEW i, NEW rate, NEW target, NEW excluded, NEW posted,
         DayOf(b, i, rate, target, excluded, posted),
         NEW c, Accrues(c, b, posted, i, rate, target, excluded)
  PROVE  Good(c) /\ c.closed = b.closed
<1> DEFINE amount == target - b.roi[i].claimed - excluded
           day == b.roi[i].cut + 1
           row == [cut |-> day, numerator |-> b.roi[i].numerator + source[i].gross * rate,
                   claimed |-> target, excluded |-> b.roi[i].excluded + excluded]
<1>1. /\ i \in Sources /\ i \in Slots /\ rate \in Nat /\ Today \in Nat
      /\ source[i].gross \in Nat /\ source[i].day \in Nat /\ Cap(i) \in Nat /\ Matures(i) \in Nat
      /\ \A j \in Sources : j \in Slots
  BY SourceFacts DEF DayOf
<1>2. Shape(b) /\ SlotsEmpty(b) /\ RoiKept(b) /\ CapsKept(b) /\ OwedKept(b) /\ WeeksAccrued(b)
      /\ PaysIn(b, b.closed) /\ \A end \in b.closed : ShareKept(b, end)
  BY DEF Good
<1>3. /\ b.roi \in [Slots -> RoiRec] /\ b.rates \in [Slots -> Seq(Nat)] /\ b.paid \in [Slots -> Nat]
      /\ b.roi[i] \in RoiRec /\ b.rates[i] \in Seq(Nat)
  BY <1>1, <1>2 DEF Shape
<1>4. /\ b.roi[i].cut \in Nat /\ b.roi[i].numerator \in Nat /\ b.roi[i].claimed \in Nat /\ b.roi[i].excluded \in Nat
  BY <1>3 DEF RoiRec
<1>5. /\ target - b.roi[i].claimed \in Nat /\ excluded \in 0..(target - b.roi[i].claimed)
      /\ target = (b.roi[i].numerator + source[i].gross * rate) \div (100 * Year)
      /\ b.roi[i].cut < Today /\ b.roi[i].cut < Matures(i) /\ amount <= Remaining(b, i)
      /\ Posted(posted, b, "roi", i, amount, day)
  BY DEF DayOf
<1>6. b.roi[i].numerator = source[i].gross * Total(b.rates[i]) /\ Total(b.rates[i]) \in Nat
  BY <1>1, <1>2, <1>3, TotalGrows DEF RoiKept
<1>7. b.roi[i].numerator + source[i].gross * rate = source[i].gross * Total(Append(b.rates[i], rate))
  <2>1. Total(Append(b.rates[i], rate)) = Total(b.rates[i]) + rate
    BY <1>1, <1>3, TotalGrows
  <2> DEFINE g == source[i].gross
             t == Total(b.rates[i])
  <2>2. g \in Nat /\ t \in Nat /\ b.roi[i].numerator = g * t /\ Year \in Nat \ {0}
    BY <1>1, <1>6, EngineAssumption
  <2> HIDE DEF g, t
  <2>3. g * t + g * rate = g * (t + rate)
    BY <1>1, <2>2, RoiArithmetic
  <2>4. b.roi[i].numerator + g * rate = g * (t + rate)
    BY <2>2, <2>3
  <2> QED
    BY <2>1, <2>4 DEF g, t
<1>8. source[i].gross * rate \in Nat /\ target \in Nat /\ amount \in Nat
  <2>1. source[i].gross * rate \in Nat
    BY <1>1, ProductOf
  <2>2. target \in Int
    <3>1. 100 * Year \in Nat \ {0}
      BY EngineAssumption
    <3>2. b.roi[i].numerator + source[i].gross * rate \in Nat
      BY <1>4, <2>1
    <3> QED
      BY <1>5, <3>1, <3>2, QuotientOf
  <2> QED
    BY <1>4, <1>5, <2>1, <2>2
<1>9. row \in RoiRec
  BY <1>4, <1>5, <1>8 DEF RoiRec
<1>10. Grown(posted, b, "roi", i, amount, day)
  <2>1. day \in Nat /\ "roi" \in Commissions \cup {"roi"}
    BY <1>4
  <2> HIDE DEF amount, day
  <2> QED
    BY <1>1, <1>2, <1>5, <1>8, <2>1, PostedGrows
<1>11. /\ DOMAIN c = Fields
       /\ c.paid = posted.paid /\ c.owed = posted.owed /\ c.payment = posted.payment /\ c.closed = posted.closed
       /\ c.claimed = posted.claimed
       /\ c.roi = [b.roi EXCEPT ![i] = row] /\ c.rates = [b.rates EXCEPT ![i] = Append(b.rates[i], rate)]
  BY DEF Accrues
<1> HIDE DEF row
<1>12. c.roi[i] = row /\ c.rates[i] = Append(b.rates[i], rate)
       /\ \A j \in Slots \ {i} : c.roi[j] = b.roi[j] /\ c.rates[j] = b.rates[j]
  BY <1>1, <1>3, <1>11
<1>13. /\ Shape(posted) /\ posted.owed = b.owed /\ posted.closed = b.closed
       /\ \A j : Credited(posted, j) = Credited(b, j) + IF i = j THEN amount ELSE 0
       /\ \A j : Kept(posted, j) = Kept(b, j) + IF i = j THEN amount ELSE 0
       /\ \A j \in Slots : posted.paid[j] = b.paid[j] + IF i = j THEN amount ELSE 0
       /\ \A kinds, d : PaidBefore(posted, kinds, d) = PaidBefore(b, kinds, d) + IF "roi" \in kinds /\ day < d THEN amount ELSE 0
       /\ \A n \in DOMAIN posted.payment : \/ \E k \in DOMAIN b.payment : b.payment[k] = posted.payment[n]
                                           \/ posted.payment[n].kind = "roi"
  BY <1>10 DEF Grown, ConsumesCap
<1>14. /\ \A j : Credited(c, j) = Credited(posted, j) /\ Kept(c, j) = Kept(posted, j)
       /\ \A kinds, d : PaidBefore(c, kinds, d) = PaidBefore(posted, kinds, d)
  BY <1>11 DEF Credited, Kept, PaidBefore
<1>15. \A j : Credited(b, j) \in Nat /\ Kept(b, j) \in Nat
  BY <1>2, SumsAreNat
<1>16. Shape(c)
  <2>1. c.roi \in [Slots -> RoiRec]
    BY <1>1, <1>3, <1>9, <1>11
  <2>2. Append(b.rates[i], rate) \in Seq(Nat)
    BY <1>1, <1>3
  <2>3. c.rates \in [Slots -> Seq(Nat)]
    BY <1>1, <1>3, <1>11, <2>2
  <2> QED
    BY <1>11, <1>13, <2>1, <2>3 DEF Shape
<1>17. SlotsEmpty(c)
  <2>1. ASSUME NEW j \in Slots \ Sources
        PROVE  c.roi[j] = b.roi[j] /\ c.rates[j] = b.rates[j] /\ c.paid[j] = b.paid[j]
    BY <1>1, <1>3, <1>11, <1>12, <1>13
  <2> QED
    BY <1>2, <2>1 DEF SlotsEmpty
<1>18. RoiKept(c)
  <2>1. ASSUME NEW j \in Sources, j # i
        PROVE  c.roi[j] = b.roi[j] /\ c.rates[j] = b.rates[j] /\ Credited(c, j) = Credited(b, j)
    BY <1>1, <1>12, <1>13, <1>14, <1>15, <2>1
  <2>2. /\ c.roi[i].cut = source[i].day + Len(c.rates[i]) /\ c.roi[i].cut <= Matures(i)
        /\ c.roi[i].numerator = source[i].gross * Total(c.rates[i])
        /\ c.roi[i].claimed = c.roi[i].numerator \div (100 * Year)
        /\ c.roi[i].claimed = Credited(c, i) + c.roi[i].excluded
    <3>1. c.roi[i].cut = b.roi[i].cut + 1 /\ c.roi[i].claimed = target
          /\ c.roi[i].numerator = b.roi[i].numerator + source[i].gross * rate
          /\ c.roi[i].excluded = b.roi[i].excluded + excluded
      BY <1>12 DEF row
    <3>2. Len(c.rates[i]) = Len(b.rates[i]) + 1 /\ Len(b.rates[i]) \in Nat
      BY <1>1, <1>3, <1>12
    <3>3. b.roi[i].cut = source[i].day + Len(b.rates[i]) /\ b.roi[i].claimed = Credited(b, i) + b.roi[i].excluded
      BY <1>1, <1>2 DEF RoiKept
    <3>4. c.roi[i].cut = source[i].day + Len(c.rates[i]) /\ c.roi[i].cut <= Matures(i)
      <4>1. b.roi[i].cut < Matures(i)
        BY <1>5
      <4>2. b.roi[i].cut + 1 = source[i].day + (Len(b.rates[i]) + 1)
        <5>1. PICK d, k \in Nat : d = source[i].day /\ k = Len(b.rates[i]) /\ b.roi[i].cut = d + k
          BY <1>1, <3>2, <3>3
        <5>2. (d + k) + 1 = d + (k + 1)
          OBVIOUS
        <5> QED
          BY <5>1, <5>2
      <4> QED
        BY <1>1, <1>4, <3>1, <3>2, <4>1, <4>2
    <3>5. c.roi[i].numerator = source[i].gross * Total(c.rates[i])
      BY <1>7, <1>12, <3>1
    <3>6. c.roi[i].claimed = c.roi[i].numerator \div (100 * Year)
      BY <1>5, <3>1
    <3>7. Credited(c, i) = Credited(b, i) + amount
      BY <1>13, <1>14
    <3>8. c.roi[i].claimed = Credited(c, i) + c.roi[i].excluded
      <4>1. target = b.roi[i].claimed + amount + excluded /\ excluded \in Nat
        <5>1. target \in Int /\ b.roi[i].claimed \in Int /\ excluded \in Nat
          BY <1>4, <1>5, <1>8
        <5> QED
          BY <5>1
      <4>2. target = (Credited(b, i) + amount) + (b.roi[i].excluded + excluded)
        <5> HIDE DEF amount
        <5>1. Credited(b, i) \in Int /\ amount \in Int /\ b.roi[i].excluded \in Int /\ excluded \in Int
          BY <1>4, <1>8, <1>15, <4>1
        <5> QED
          BY <3>3, <4>1, <5>1
      <4> HIDE DEF amount
      <4> QED
        BY <3>1, <3>7, <4>2
    <3> QED
      BY <3>4, <3>5, <3>6, <3>8
  <2>3. ASSUME NEW j \in Sources
        PROVE  /\ c.roi[j].cut = source[j].day + Len(c.rates[j]) /\ c.roi[j].cut <= Matures(j)
               /\ c.roi[j].numerator = source[j].gross * Total(c.rates[j])
               /\ c.roi[j].claimed = c.roi[j].numerator \div (100 * Year)
               /\ c.roi[j].claimed = Credited(c, j) + c.roi[j].excluded
    <3>1. CASE j = i
      BY <2>2, <3>1
    <3>2. CASE j # i
      BY <1>2, <2>1, <3>2 DEF RoiKept
    <3> QED
      BY <3>1, <3>2
  <2> QED
    BY <2>3 DEF RoiKept
<1>19. CapsKept(c)
  <2>1. ASSUME NEW j \in Sources PROVE Kept(c, j) = c.paid[j] /\ c.paid[j] <= Cap(j)
    <3>1. Kept(b, j) = b.paid[j] /\ b.paid[j] <= Cap(j) /\ b.paid[j] \in Nat
      BY <1>1, <1>2, <1>3 DEF CapsKept
    <3>2. c.paid[j] = b.paid[j] + IF i = j THEN amount ELSE 0
      BY <1>1, <1>11, <1>13
    <3>3. Kept(c, j) = Kept(b, j) + IF i = j THEN amount ELSE 0
      BY <1>13, <1>14
    <3>4. i = j => b.paid[j] + amount <= Cap(j)
      BY <1>1, <1>5, <1>8, <3>1 DEF Remaining
    <3> HIDE DEF amount
    <3> QED
      BY <3>1, <3>2, <3>3, <3>4
  <2> QED
    BY <2>1 DEF CapsKept
<1>20. OwedKept(c)
  BY <1>2, <1>11, <1>13 DEF OwedKept
<1>21. WeeksAccrued(c)
  <2>1. ASSUME NEW j \in Sources, NEW end \in b.closed
        PROVE  end <= c.roi[j].cut \/ Matures(j) <= c.roi[j].cut
    <3>1. end <= b.roi[j].cut \/ Matures(j) <= b.roi[j].cut
      BY <1>2 DEF WeeksAccrued
    <3>2. CASE j = i
      <4>1. end \in Nat
        BY <1>1, <1>2 DEF WeeksAccrued
      <4>2. c.roi[j].cut = b.roi[j].cut + 1
        BY <1>12, <3>2 DEF row
      <4> QED
        BY <1>1, <1>4, <3>1, <3>2, <4>1, <4>2
    <3>3. CASE j # i
      BY <1>1, <1>12, <3>1, <3>3
    <3> QED
      BY <3>2, <3>3
  <2> QED
    BY <1>2, <1>11, <1>13, <2>1 DEF WeeksAccrued
<1>22. PaysIn(c, c.closed)
  <2>1. "roi" \notin Commissions
    BY DEF Commissions
  <2> QED
    BY <1>2, <1>11, <1>13, <2>1 DEF PaysIn
<1>23. ASSUME NEW end \in c.closed PROVE ShareKept(c, end)
  <2>1. end \in b.closed /\ end \in Nat
    BY <1>1, <1>2, <1>11, <1>13, <1>23 DEF WeeksAccrued
  <2>2. "roi" \notin Commissions
    BY DEF Commissions
  <2>3. ~(day < end)
    BY <1>1, <1>2, <1>4, <1>5, <2>1 DEF WeeksAccrued
  <2>4. PaidBefore(c, {"roi"}, end) = PaidBefore(b, {"roi"}, end)
        /\ PaidBefore(c, Commissions, end + 1) = PaidBefore(b, Commissions, end + 1)
    <3>1. PaidBefore(b, {"roi"}, end) \in Nat /\ PaidBefore(b, Commissions, end + 1) \in Nat
      BY <1>2, SumsAreNat
    <3> QED
      BY <1>13, <1>14, <2>2, <2>3, <3>1
  <2>5. (\E n \in DOMAIN c.payment : c.payment[n].kind \in Commissions /\ c.payment[n].day = end)
          => \E n \in DOMAIN b.payment : b.payment[n].kind \in Commissions /\ b.payment[n].day = end
    BY <1>11, <1>13, <2>2
  <2>6. ShareKept(b, end)
    BY <1>2, <2>1
  <2> QED
    BY <2>4, <2>5, <2>6 DEF ShareKept
<1> QED
  BY <1>11, <1>13, <1>16, <1>17, <1>18, <1>19, <1>20, <1>21, <1>22, <1>23 DEF Good

\* Accrued goes day by day.
Days(after, b, n) ==
  /\ after[0] = b
  /\ \A k \in 1..n : after[k] = IF Due(after[k - 1]) = {} THEN after[k - 1] ELSE AccrueDay(after[k - 1])

LEMMA AccruedMeaning ==
  ASSUME NEW b, NEW n \in Nat
  PROVE  \E after : Days(after, b, n) /\ Accrued(b, n) = after[n]
<1> DEFINE Step(c, k) == IF Due(c) = {} THEN c ELSE AccrueDay(c)
           Is(h, m) == h = [k \in 0..m |-> IF k = 0 THEN b ELSE Step(h[k - 1], k)]
           G == {m \in Nat : \E h : Is(h, m)}
           after == CHOOSE h : Is(h, n)
<1>1. Accrued(b, n) = after[n]
  BY DEF Accrued
<1>2. n \in Nat
  OBVIOUS
<1> HIDE DEF Step
<1>3. 0 \in G
  <2>1. Is([k \in 0..0 |-> b], 0)
    OBVIOUS
  <2> QED
    BY <2>1
<1>4. ASSUME NEW m \in 1..n, m - 1 \in G PROVE m \in G
  <2>1. PICK h : Is(h, m - 1)
    BY <1>4
  <2> DEFINE g == [k \in 0..m |-> IF k < m THEN h[k] ELSE Step(h[m - 1], m)]
  <2>2. m \in Nat /\ \A k \in 0..(m - 1) : h[k] = IF k = 0 THEN b ELSE Step(h[k - 1], k)
    BY <1>2, <2>1
  <2>3. ASSUME NEW k \in 0..m PROVE g[k] = IF k = 0 THEN b ELSE Step(g[k - 1], k)
    <3>1. CASE k < m
      <4>1. k \in 0..(m - 1) /\ g[k] = h[k]
        BY <2>2, <2>3, <3>1
      <4>2. k # 0 => k - 1 \in 0..m /\ k - 1 < m /\ g[k - 1] = h[k - 1]
        BY <2>2, <2>3, <3>1
      <4> HIDE DEF g
      <4> QED
        BY <2>2, <4>1, <4>2
    <3>2. CASE k = m
      <4>1. m # 0 /\ g[m] = Step(h[m - 1], m) /\ g[m - 1] = h[m - 1]
        BY <1>2, <2>2
      <4> HIDE DEF g
      <4> QED
        BY <3>2, <4>1
    <3> QED
      BY <2>2, <2>3, <3>1, <3>2
  <2>4. g = [k \in 0..m |-> IF k = 0 THEN b ELSE Step(g[k - 1], k)]
    <3>1. g = [k \in 0..m |-> g[k]]
      OBVIOUS
    <3> HIDE DEF g
    <3> QED
      BY <2>3, <3>1
  <2> HIDE DEF g
  <2> QED
    BY <2>2, <2>4
<1>5. n \in G
  <2> HIDE DEF G
  <2>1. \A k \in 0..n : k \in G
    BY <1>2, <1>3, <1>4, UpTo
  <2> QED
    BY <1>2, <2>1
<1>6. Is(after, n)
  BY <1>5
<1> HIDE DEF after
<1>7. after[0] = b /\ \A k \in 1..n : after[k] = Step(after[k - 1], k)
  <2>1. \A k \in 0..n : after[k] = IF k = 0 THEN b ELSE Step(after[k - 1], k)
    BY <1>6
  <2>2. 0 \in 0..n /\ \A k \in 1..n : k \in 0..n /\ k # 0
    BY <1>2
  <2> QED
    BY <2>1, <2>2
<1>8. Days(after, b, n)
  BY <1>7 DEF Step, Days
<1> QED
  BY <1>1, <1>8

LEMMA AccruedGood ==
  ASSUME SourcesTyped, NEW b, Good(b), NEW n \in Nat
  PROVE  Good(Accrued(b, n)) /\ Accrued(b, n).closed = b.closed
<1>0. PICK after : Days(after, b, n) /\ Accrued(b, n) = after[n]
  BY AccruedMeaning
<1>1. /\ after[0] = b /\ Accrued(b, n) = after[n]
      /\ \A k \in 1..n : after[k] = IF Due(after[k - 1]) = {} THEN after[k - 1] ELSE AccrueDay(after[k - 1])
  BY <1>0 DEF Days
<1> DEFINE G == {k \in Nat : Good(after[k]) /\ after[k].closed = b.closed}
<1>2. 0 \in G
  BY <1>1
<1>3. ASSUME NEW k \in 1..n, k - 1 \in G PROVE k \in G
  <2>1. Good(after[k - 1]) /\ after[k - 1].closed = b.closed
    BY <1>3
  <2>2. CASE Due(after[k - 1]) = {}
    BY <1>1, <2>1, <2>2
  <2>3. CASE Due(after[k - 1]) # {}
    <3>1. after[k] = AccrueDay(after[k - 1])
      BY <1>1, <2>3
    <3>2. \E i, rate, target, excluded, posted :
            /\ DayOf(after[k - 1], i, rate, target, excluded, posted)
            /\ Accrues(after[k], after[k - 1], posted, i, rate, target, excluded)
      BY <2>1, <2>3, <3>1, DayMeaning
    <3>3. Good(after[k]) /\ after[k].closed = after[k - 1].closed
      BY <2>1, <3>2, DayGood
    <3> QED
      BY <2>1, <3>3
  <2> QED
    BY <2>2, <2>3
<1>4. n \in G
  <2> HIDE DEF G
  <2>1. \A k \in 0..n : k \in G
    BY <1>2, <1>3, UpTo
  <2> QED
    BY <2>1
<1> QED
  BY <1>1, <1>4

LEMMA MembersBound == Max(Members) \in Nat /\ Members \subseteq 1..Max(Members)
<1>1. Members \subseteq Nat \ {0} /\ IsFiniteSet(Members) /\ Root \in Members
  BY EngineAssumption
<1>2. Max(Members) \in Members /\ \A m \in Members : m <= Max(Members)
  <2>1. Members \subseteq Int /\ Members # {}
    BY <1>1
  <2> QED
    BY <1>1, <2>1, Ends
<1>3. \A m \in Members : m \in Nat \ {0}
  BY <1>1
<1>4. Max(Members) \in Nat
  BY <1>2, <1>3
<1> QED
  BY <1>2, <1>3, <1>4

\* The referrals go sale by sale.
Sales(after, b, end) ==
  /\ after[0] = b
  /\ \A k \in 1..Len(source) : after[k] = IF SoldIn(k, end) THEN ReferralsOf(after[k - 1], k, end) ELSE after[k - 1]

LEMMA ReferralsMeaning ==
  ASSUME SourcesTyped, NEW b, NEW end
  PROVE  \E after : Sales(after, b, end) /\ Referrals(b, end) = after[Len(source)]
<1> DEFINE Step(c, k) == IF SoldIn(k, end) THEN ReferralsOf(c, k, end) ELSE c
           Is(h, m) == h = [k \in 0..m |-> IF k = 0 THEN b ELSE Step(h[k - 1], k)]
           G == {m \in Nat : \E h : Is(h, m)}
           after == CHOOSE h : Is(h, Len(source))
<1>1. Referrals(b, end) = after[Len(source)]
  BY DEF Referrals
<1>2. Len(source) \in Nat
  BY SourceFacts
<1> HIDE DEF Step
<1>3. 0 \in G
  <2>1. Is([k \in 0..0 |-> b], 0)
    OBVIOUS
  <2> QED
    BY <2>1
<1>4. ASSUME NEW m \in 1..Len(source), m - 1 \in G PROVE m \in G
  <2>1. PICK h : Is(h, m - 1)
    BY <1>4
  <2> DEFINE g == [k \in 0..m |-> IF k < m THEN h[k] ELSE Step(h[m - 1], m)]
  <2>2. m \in Nat /\ \A k \in 0..(m - 1) : h[k] = IF k = 0 THEN b ELSE Step(h[k - 1], k)
    BY <1>2, <2>1
  <2>3. ASSUME NEW k \in 0..m PROVE g[k] = IF k = 0 THEN b ELSE Step(g[k - 1], k)
    <3>1. CASE k < m
      <4>1. k \in 0..(m - 1) /\ g[k] = h[k]
        BY <2>2, <2>3, <3>1
      <4>2. k # 0 => k - 1 \in 0..m /\ k - 1 < m /\ g[k - 1] = h[k - 1]
        BY <2>2, <2>3, <3>1
      <4> HIDE DEF g
      <4> QED
        BY <2>2, <4>1, <4>2
    <3>2. CASE k = m
      <4>1. m # 0 /\ g[m] = Step(h[m - 1], m) /\ g[m - 1] = h[m - 1]
        BY <1>2, <2>2
      <4> HIDE DEF g
      <4> QED
        BY <3>2, <4>1
    <3> QED
      BY <2>2, <2>3, <3>1, <3>2
  <2>4. g = [k \in 0..m |-> IF k = 0 THEN b ELSE Step(g[k - 1], k)]
    <3>1. g = [k \in 0..m |-> g[k]]
      OBVIOUS
    <3> HIDE DEF g
    <3> QED
      BY <2>3, <3>1
  <2> HIDE DEF g
  <2> QED
    BY <2>2, <2>4
<1>5. Len(source) \in G
  <2> HIDE DEF G
  <2>1. \A k \in 0..Len(source) : k \in G
    BY <1>2, <1>3, <1>4, UpTo
  <2> QED
    BY <1>2, <2>1
<1>6. Is(after, Len(source))
  BY <1>5
<1> HIDE DEF after
<1>7. after[0] = b /\ \A k \in 1..Len(source) : after[k] = Step(after[k - 1], k)
  <2>1. \A k \in 0..Len(source) : after[k] = IF k = 0 THEN b ELSE Step(after[k - 1], k)
    BY <1>6
  <2>2. 0 \in 0..Len(source) /\ \A k \in 1..Len(source) : k \in 0..Len(source) /\ k # 0
    BY <1>2
  <2> QED
    BY <2>1, <2>2
<1>8. Sales(after, b, end)
  BY <1>7 DEF Step, Sales
<1> QED
  BY <1>1, <1>8

\* The binary bonuses go member by member.
Bonuses(after, b, end) ==
  /\ after[0] = b
  /\ \A k \in 1..Max(Members) : after[k] = IF k \in Members THEN BinaryOf(after[k - 1], k, end) ELSE after[k - 1]

LEMMA BinaryMeaning ==
  ASSUME NEW b, NEW end
  PROVE  \E after : Bonuses(after, b, end) /\ Binary(b, end) = after[Max(Members)]
<1> DEFINE Step(c, k) == IF k \in Members THEN BinaryOf(c, k, end) ELSE c
           Is(h, m) == h = [k \in 0..m |-> IF k = 0 THEN b ELSE Step(h[k - 1], k)]
           G == {m \in Nat : \E h : Is(h, m)}
           after == CHOOSE h : Is(h, Max(Members))
<1>1. Binary(b, end) = after[Max(Members)]
  BY DEF Binary
<1>2. Max(Members) \in Nat
  BY MembersBound
<1> HIDE DEF Step
<1>3. 0 \in G
  <2>1. Is([k \in 0..0 |-> b], 0)
    OBVIOUS
  <2> QED
    BY <2>1
<1>4. ASSUME NEW m \in 1..Max(Members), m - 1 \in G PROVE m \in G
  <2>1. PICK h : Is(h, m - 1)
    BY <1>4
  <2> DEFINE g == [k \in 0..m |-> IF k < m THEN h[k] ELSE Step(h[m - 1], m)]
  <2>2. m \in Nat /\ \A k \in 0..(m - 1) : h[k] = IF k = 0 THEN b ELSE Step(h[k - 1], k)
    BY <1>2, <2>1
  <2>3. ASSUME NEW k \in 0..m PROVE g[k] = IF k = 0 THEN b ELSE Step(g[k - 1], k)
    <3>1. CASE k < m
      <4>1. k \in 0..(m - 1) /\ g[k] = h[k]
        BY <2>2, <2>3, <3>1
      <4>2. k # 0 => k - 1 \in 0..m /\ k - 1 < m /\ g[k - 1] = h[k - 1]
        BY <2>2, <2>3, <3>1
      <4> HIDE DEF g
      <4> QED
        BY <2>2, <4>1, <4>2
    <3>2. CASE k = m
      <4>1. m # 0 /\ g[m] = Step(h[m - 1], m) /\ g[m - 1] = h[m - 1]
        BY <1>2, <2>2
      <4> HIDE DEF g
      <4> QED
        BY <3>2, <4>1
    <3> QED
      BY <2>2, <2>3, <3>1, <3>2
  <2>4. g = [k \in 0..m |-> IF k = 0 THEN b ELSE Step(g[k - 1], k)]
    <3>1. g = [k \in 0..m |-> g[k]]
      OBVIOUS
    <3> HIDE DEF g
    <3> QED
      BY <2>3, <3>1
  <2> HIDE DEF g
  <2> QED
    BY <2>2, <2>4
<1>5. Max(Members) \in G
  <2> HIDE DEF G
  <2>1. \A k \in 0..Max(Members) : k \in G
    BY <1>2, <1>3, <1>4, UpTo
  <2> QED
    BY <1>2, <2>1
<1>6. Is(after, Max(Members))
  BY <1>5
<1> HIDE DEF after
<1>7. after[0] = b /\ \A k \in 1..Max(Members) : after[k] = Step(after[k - 1], k)
  <2>1. \A k \in 0..Max(Members) : after[k] = IF k = 0 THEN b ELSE Step(after[k - 1], k)
    BY <1>6
  <2>2. 0 \in 0..Max(Members) /\ \A k \in 1..Max(Members) : k \in 0..Max(Members) /\ k # 0
    BY <1>2
  <2> QED
    BY <2>1, <2>2
<1>8. Bonuses(after, b, end)
  BY <1>7 DEF Step, Bonuses
<1> QED
  BY <1>1, <1>8

\* The payments go claim by claim, under one theta.
Claims(after, b, end, theta, n) ==
  /\ after[0] = b
  /\ \A k \in 1..n : after[k] = PayOne(after[k - 1], k, theta, end)

LEMMA PaidMeaning ==
  ASSUME NEW b, NEW n \in Nat, n = Len(b.owed), NEW end, NEW theta,
         theta = ComputeTheta(100, Budget(b, end), Projected(b), Scale)
  PROVE  \E after : Claims(after, b, end, theta, n) /\ Paid(b, end) = after[n]
<1> DEFINE Step(c, k) == PayOne(c, k, theta, end)
           Is(h, m) == h = [k \in 0..m |-> IF k = 0 THEN b ELSE Step(h[k - 1], k)]
           G == {m \in Nat : \E h : Is(h, m)}
           after == CHOOSE h : Is(h, n)
<1>1. Paid(b, end) = after[n]
  BY DEF Paid
<1>2. n \in Nat
  OBVIOUS
<1> HIDE DEF Step
<1>3. 0 \in G
  <2>1. Is([k \in 0..0 |-> b], 0)
    OBVIOUS
  <2> QED
    BY <2>1
<1>4. ASSUME NEW m \in 1..n, m - 1 \in G PROVE m \in G
  <2>1. PICK h : Is(h, m - 1)
    BY <1>4
  <2> DEFINE g == [k \in 0..m |-> IF k < m THEN h[k] ELSE Step(h[m - 1], m)]
  <2>2. m \in Nat /\ \A k \in 0..(m - 1) : h[k] = IF k = 0 THEN b ELSE Step(h[k - 1], k)
    BY <1>2, <2>1
  <2>3. ASSUME NEW k \in 0..m PROVE g[k] = IF k = 0 THEN b ELSE Step(g[k - 1], k)
    <3>1. CASE k < m
      <4>1. k \in 0..(m - 1) /\ g[k] = h[k]
        BY <2>2, <2>3, <3>1
      <4>2. k # 0 => k - 1 \in 0..m /\ k - 1 < m /\ g[k - 1] = h[k - 1]
        BY <2>2, <2>3, <3>1
      <4> HIDE DEF g
      <4> QED
        BY <2>2, <4>1, <4>2
    <3>2. CASE k = m
      <4>1. m # 0 /\ g[m] = Step(h[m - 1], m) /\ g[m - 1] = h[m - 1]
        BY <1>2, <2>2
      <4> HIDE DEF g
      <4> QED
        BY <3>2, <4>1
    <3> QED
      BY <2>2, <2>3, <3>1, <3>2
  <2>4. g = [k \in 0..m |-> IF k = 0 THEN b ELSE Step(g[k - 1], k)]
    <3>1. g = [k \in 0..m |-> g[k]]
      OBVIOUS
    <3> HIDE DEF g
    <3> QED
      BY <2>3, <3>1
  <2> HIDE DEF g
  <2> QED
    BY <2>2, <2>4
<1>5. n \in G
  <2> HIDE DEF G
  <2>1. \A k \in 0..n : k \in G
    BY <1>2, <1>3, <1>4, UpTo
  <2> QED
    BY <1>2, <2>1
<1>6. Is(after, n)
  BY <1>5
<1> HIDE DEF after
<1>7. after[0] = b /\ \A k \in 1..n : after[k] = Step(after[k - 1], k)
  <2>1. \A k \in 0..n : after[k] = IF k = 0 THEN b ELSE Step(after[k - 1], k)
    BY <1>6
  <2>2. 0 \in 0..n /\ \A k \in 1..n : k \in 0..n /\ k # 0
    BY <1>2
  <2> QED
    BY <2>1, <2>2
<1>8. Claims(after, b, end, theta, n)
  BY <1>7 DEF Step, Claims
<1> QED
  BY <1>1, <1>8

\* A run closes week by week.
Closings(after, b, n) ==
  /\ after[0] = b
  /\ \A k \in 1..n : after[k] = CloseWeek(after[k - 1])

LEMMA ClosedMeaning ==
  ASSUME NEW b, NEW n \in Nat
  PROVE  \E after : Closings(after, b, n) /\ Closed(b, n) = after[n]
<1> DEFINE Step(c, k) == CloseWeek(c)
           Is(h, m) == h = [k \in 0..m |-> IF k = 0 THEN b ELSE Step(h[k - 1], k)]
           G == {m \in Nat : \E h : Is(h, m)}
           after == CHOOSE h : Is(h, n)
<1>1. Closed(b, n) = after[n]
  BY DEF Closed
<1>2. n \in Nat
  OBVIOUS
<1> HIDE DEF Step
<1>3. 0 \in G
  <2>1. Is([k \in 0..0 |-> b], 0)
    OBVIOUS
  <2> QED
    BY <2>1
<1>4. ASSUME NEW m \in 1..n, m - 1 \in G PROVE m \in G
  <2>1. PICK h : Is(h, m - 1)
    BY <1>4
  <2> DEFINE g == [k \in 0..m |-> IF k < m THEN h[k] ELSE Step(h[m - 1], m)]
  <2>2. m \in Nat /\ \A k \in 0..(m - 1) : h[k] = IF k = 0 THEN b ELSE Step(h[k - 1], k)
    BY <1>2, <2>1
  <2>3. ASSUME NEW k \in 0..m PROVE g[k] = IF k = 0 THEN b ELSE Step(g[k - 1], k)
    <3>1. CASE k < m
      <4>1. k \in 0..(m - 1) /\ g[k] = h[k]
        BY <2>2, <2>3, <3>1
      <4>2. k # 0 => k - 1 \in 0..m /\ k - 1 < m /\ g[k - 1] = h[k - 1]
        BY <2>2, <2>3, <3>1
      <4> HIDE DEF g
      <4> QED
        BY <2>2, <4>1, <4>2
    <3>2. CASE k = m
      <4>1. m # 0 /\ g[m] = Step(h[m - 1], m) /\ g[m - 1] = h[m - 1]
        BY <1>2, <2>2
      <4> HIDE DEF g
      <4> QED
        BY <3>2, <4>1
    <3> QED
      BY <2>2, <2>3, <3>1, <3>2
  <2>4. g = [k \in 0..m |-> IF k = 0 THEN b ELSE Step(g[k - 1], k)]
    <3>1. g = [k \in 0..m |-> g[k]]
      OBVIOUS
    <3> HIDE DEF g
    <3> QED
      BY <2>3, <3>1
  <2> HIDE DEF g
  <2> QED
    BY <2>2, <2>4
<1>5. n \in G
  <2> HIDE DEF G
  <2>1. \A k \in 0..n : k \in G
    BY <1>2, <1>3, <1>4, UpTo
  <2> QED
    BY <1>2, <2>1
<1>6. Is(after, n)
  BY <1>5
<1> HIDE DEF after
<1>7. after[0] = b /\ \A k \in 1..n : after[k] = Step(after[k - 1], k)
  <2>1. \A k \in 0..n : after[k] = IF k = 0 THEN b ELSE Step(after[k - 1], k)
    BY <1>6
  <2>2. 0 \in 0..n /\ \A k \in 1..n : k \in 0..n /\ k # 0
    BY <1>2
  <2> QED
    BY <2>1, <2>2
<1>8. Closings(after, b, n)
  BY <1>7 DEF Step, Closings
<1> QED
  BY <1>1, <1>8

-----------------------------------------------------------------------------
(* What a week owes.                                                       *)

\* c differs from b in what is owed, and in the volume that is claimed.
Owes(c, b) ==
  /\ Shape(c) /\ OwedKept(c)
  /\ c.roi = b.roi /\ c.rates = b.rates /\ c.paid = b.paid /\ c.payment = b.payment /\ c.closed = b.closed

LEMMA OwesMore == \A b, c, d : Owes(c, b) /\ Owes(d, c) => Owes(d, b)
  BY DEF Owes

LEMMA OwesItself == \A b : Shape(b) /\ OwedKept(b) => Owes(b, b)
  BY DEF Owes

LEMMA OwedGrows ==
  ASSUME NEW b, Shape(b), OwedKept(b), NEW kind \in Commissions, NEW pkg \in Sources, NEW week \in Nat,
         NEW amount \in Nat, NEW excluded \in 0..amount
  PROVE  Owes(Owed(b, kind, pkg, week, amount, excluded), b)
<1> DEFINE o == [kind |-> kind, pkg |-> pkg, week |-> week, amount |-> amount, excluded |-> excluded, paid |-> 0]
           c == Owed(b, kind, pkg, week, amount, excluded)
<1>1. o \in OwedRec
  BY DEF OwedRec
<1>2. DOMAIN b = Fields /\ b.owed \in Seq(OwedRec)
  BY DEF Shape
<1>3. c = [b EXCEPT !.owed = Append(b.owed, o)]
  BY DEF Owed
<1>4. /\ DOMAIN c = Fields /\ c.owed = Append(b.owed, o) /\ c.claimed = b.claimed
      /\ c.roi = b.roi /\ c.rates = b.rates /\ c.paid = b.paid /\ c.payment = b.payment /\ c.closed = b.closed
  BY <1>2, <1>3 DEF Fields
<1>5. o.amount - o.paid - o.excluded >= 0
  OBVIOUS
<1> HIDE DEF c, o
<1>6. c.owed \in Seq(OwedRec)
  BY <1>1, <1>2, <1>4
<1>7. Shape(c)
  BY <1>4, <1>6 DEF Shape
<1>8. \A n \in DOMAIN c.owed : c.owed[n] = o \/ (n \in DOMAIN b.owed /\ c.owed[n] = b.owed[n])
  BY <1>1, <1>2, <1>4
<1>9. OwedKept(c)
  BY <1>5, <1>8 DEF OwedKept, Open
<1> QED
  BY <1>4, <1>7, <1>9 DEF Owes, c

LEMMA NewestIn ==
  ASSUME SourcesTyped, NEW S, S \subseteq Sources, NewestOf(S) > 0
  PROVE  NewestOf(S) \in S
<1>1. S # {}
  BY DEF NewestOf
<1>2. 1 \in Int /\ Len(source) \in Int /\ S \subseteq 1..Len(source)
  BY SourceFacts
<1>3. IsFiniteSet(S) /\ S \subseteq Int
  <2>1. IsFiniteSet(1..Len(source))
    BY <1>2, FS_Interval
  <2>2. S \subseteq Int
    BY <1>2
  <2> QED
    BY <1>2, <2>1, <2>2, FS_Subset
<1>4. Max(S) \in S
  BY <1>1, <1>3, Ends
<1> QED
  BY <1>1, <1>4 DEF NewestOf

LEMMA OwnIn ==
  ASSUME SourcesTyped, NEW m, NEW day
  PROVE  /\ Own(m, day) > 0 => Own(m, day) \in Sources
         /\ OwnOpen(m, day) > 0 => OwnOpen(m, day) \in Sources
<1>1. Own(m, day) > 0 => Own(m, day) \in Sources
  <2> DEFINE S == {i \in Sources : source[i].member = m /\ Before(i, day)}
  <2>1. Own(m, day) = NewestOf(S) /\ S \subseteq Sources
    BY DEF Own
  <2> HIDE DEF S
  <2> QED
    BY <2>1, NewestIn
<1>2. OwnOpen(m, day) > 0 => OwnOpen(m, day) \in Sources
  <2> DEFINE S == {i \in Sources : source[i].member = m /\ Before(i, day) /\ CapOpen(i, day)}
  <2>1. OwnOpen(m, day) = NewestOf(S) /\ S \subseteq Sources
    BY DEF OwnOpen
  <2> HIDE DEF S
  <2> QED
    BY <2>1, NewestIn
<1> QED
  BY <1>1, <1>2

LEMMA PercentNat == \A r, x \in Nat : Percent(r, x) \in Nat
  BY ProductOf, QuotientOf DEF Percent

LEMMA NetNat == SourcesTyped => \A i \in Sources : Net(source[i]) \in Nat
<1> SUFFICES ASSUME SourcesTyped, NEW i \in Sources PROVE Net(source[i]) \in Nat
  OBVIOUS
<1>1. source[i].gross \in Nat /\ (IF source[i].kind = "manual" THEN 97 ELSE 99) \in Nat
  BY SourceFacts
<1> QED
  BY <1>1, PercentNat DEF Net

LEMMA OwedIfKeeps ==
  ASSUME SourcesTyped, NEW b, Shape(b), OwedKept(b), NEW kind \in Commissions, NEW m, NEW end \in Nat,
         NEW amount \in Nat, amount > 0 => Own(m, end) > 0
  PROVE  Owes(OwedIf(b, kind, m, end, amount), b)
<1>1. CASE amount > 0
  <2>1. Own(m, end) \in Sources /\ 0 \in 0..amount
    BY <1>1, OwnIn
  <2>2. Owes(Owed(b, kind, Own(m, end), end, amount, 0), b)
    BY <2>1, OwedGrows
  <2> QED
    BY <1>1, <2>2 DEF OwedIf
<1>2. CASE ~(amount > 0)
  BY <1>2, OwesItself DEF OwedIf
<1> QED
  BY <1>1, <1>2

LEMMA ReferralsOfOwes ==
  ASSUME SourcesTyped, NEW b, Shape(b), OwedKept(b), NEW i \in Sources, NEW end \in Nat
  PROVE  Owes(ReferralsOf(b, i, end), b)
<1> DEFINE s == Sponsor[source[i].member]
           g == IF s \in Members THEN Sponsor[s] ELSE 0
           c == OwedIf(b, "direct", s, end, Direct(s, i, end))
           d == OwedIf(c, "royalty", g, end, Royalty(s, g, i, end))
<1>1. ReferralsOf(b, i, end) = d
  BY DEF ReferralsOf
<1> HIDE DEF s, g
<1>2. Net(source[i]) \in Nat /\ RateFor(s) \in Nat /\ RoyaltyRate \in Nat
  BY NetNat, EngineAssumption DEF RateFor
<1>3. Direct(s, i, end) \in Nat /\ (Direct(s, i, end) > 0 => Own(s, end) > 0)
  <2>1. Percent(RateFor(s), Net(source[i])) \in Nat
    BY <1>2, PercentNat
  <2> QED
    BY <2>1 DEF Direct
<1>4. Royalty(s, g, i, end) \in Nat /\ (Royalty(s, g, i, end) > 0 => Own(g, end) > 0)
  <2>1. Percent(RoyaltyRate, Net(source[i])) \in Nat
    BY <1>2, PercentNat
  <2> QED
    BY <2>1 DEF Royalty
<1>5. "direct" \in Commissions /\ "royalty" \in Commissions
  BY DEF Commissions
<1>6. Owes(c, b)
  BY <1>3, <1>5, OwedIfKeeps
<1>7. Owes(d, c)
  <2>1. Shape(c) /\ OwedKept(c)
    BY <1>6 DEF Owes
  <2> HIDE DEF c
  <2> QED
    BY <1>4, <1>5, <2>1, OwedIfKeeps
<1> HIDE DEF c, d
<1> QED
  BY <1>1, <1>6, <1>7, OwesMore

LEMMA ReferralsOwe ==
  ASSUME SourcesTyped, NEW b, Shape(b), OwedKept(b), NEW end \in Nat
  PROVE  Owes(Referrals(b, end), b)
<1>0. PICK after : Sales(after, b, end) /\ Referrals(b, end) = after[Len(source)]
  BY ReferralsMeaning
<1>1. PICK n \in Nat : n = Len(source) /\ Sources = 1..n
  BY SourceFacts
<1>2. Sales(after, b, end) /\ Referrals(b, end) = after[n]
  BY <1>0, <1>1
<1>3. after[0] = b /\ \A k \in 1..n : after[k] = IF SoldIn(k, end) THEN ReferralsOf(after[k - 1], k, end) ELSE after[k - 1]
  BY <1>1, <1>2 DEF Sales
<1> DEFINE G == {k \in Nat : Owes(after[k], b)}
<1>4. 0 \in G
  BY <1>3, OwesItself
<1>5. ASSUME NEW k \in 1..n, k - 1 \in G PROVE k \in G
  <2>1. Owes(after[k - 1], b) /\ Shape(after[k - 1]) /\ OwedKept(after[k - 1]) /\ k \in Sources /\ k \in Nat
    BY <1>1, <1>5 DEF Owes
  <2>2. Owes(ReferralsOf(after[k - 1], k, end), after[k - 1])
    BY <2>1, ReferralsOfOwes
  <2>3. Owes(ReferralsOf(after[k - 1], k, end), b)
    BY <2>1, <2>2, OwesMore
  <2> QED
    BY <1>3, <2>1, <2>3
<1>6. n \in G
  <2> HIDE DEF G
  <2>1. \A k \in 0..n : k \in G
    BY <1>1, <1>4, <1>5, UpTo
  <2> QED
    BY <1>1, <2>1
<1> QED
  BY <1>2, <1>6

\* What flattening has made of the first sequences.
Flats(h, s, S) ==
  h[0] = <<>> /\ \A k \in 1..Len(s) : h[k] \in Seq(S) /\ h[k] = h[k - 1] \o s[k]

LEMMA FlatMeaning ==
  ASSUME NEW S, NEW s \in Seq(Seq(S))
  PROVE  \E h : Flats(h, s, S) /\ FlattenSeq(s) = h[Len(s)]
<1>0. PICK n \in Nat : n = Len(s)
  OBVIOUS
<1>1. CASE n = 0
  <2>1. s = <<>>
    BY <1>0, <1>1, EmptySeq
  <2>2. FlattenSeq(s) = s
    BY <1>0, <1>1 DEF FlattenSeq
  <2> DEFINE h == [k \in 0..0 |-> <<>>]
  <2>3. h[0] = <<>> /\ 1..Len(s) = {}
    BY <1>0, <1>1
  <2> HIDE DEF h
  <2>4. Flats(h, s, S) /\ FlattenSeq(s) = h[Len(s)]
    BY <1>0, <1>1, <2>1, <2>2, <2>3 DEF Flats
  <2> QED
    BY <2>4
<1>2. CASE n # 0
  <2> DEFINE Step(x, k) == IF k = 1 THEN s[k] ELSE x \o s[k]
             Is(h, m) == h = [k \in 1..m |-> Step(h[k - 1], k)]
             G == {m \in Nat : \E h : Is(h, m)}
             flat == CHOOSE h : Is(h, n)
  <2>1. FlattenSeq(s) = flat[n]
    <3>1. FlattenSeq(s) = LET h[k \in 1..n] == IF k = 1 THEN s[k] ELSE h[k - 1] \o s[k] IN h[n]
      BY <1>0, <1>2 DEF FlattenSeq
    <3> QED
      BY <3>1
  <2>a. \A x, y : Step(x, 1) = Step(y, 1)
    OBVIOUS
  <2> HIDE DEF Step
  <2>2. 0 \in G
    <3>1. Is([k \in 1..0 |-> 0], 0)
      <4>1. 1..0 = {}
        OBVIOUS
      <4> QED
        BY <4>1
    <3> QED
      BY <3>1
  <2>3. ASSUME NEW m \in 1..n, m - 1 \in G PROVE m \in G
    <3>1. PICK h : Is(h, m - 1)
      BY <2>3
    <3> DEFINE g == [k \in 1..m |-> IF k < m THEN h[k] ELSE Step(h[m - 1], m)]
    <3>a. m \in Nat
      OBVIOUS
    <3>b. \A k \in 1..(m - 1) : h[k] = Step(h[k - 1], k)
      BY <3>1, Zenon
    <3>2. m \in Nat /\ \A k \in 1..(m - 1) : h[k] = Step(h[k - 1], k)
      BY <3>a, <3>b
    <3>3. ASSUME NEW k \in 1..m PROVE g[k] = Step(g[k - 1], k)
      <4>1. CASE k < m
        <5>1. k \in 1..(m - 1) /\ g[k] = h[k]
          BY <3>2, <4>1
        <5>2. k # 1 => g[k - 1] = h[k - 1]
          BY <3>2, <4>1
        <5> HIDE DEF g
        <5> QED
          BY <2>a, <3>2, <5>1, <5>2
      <4>2. CASE k = m
        <5>1. g[m] = Step(h[m - 1], m)
          BY <3>2
        <5>2. m # 1 => g[m - 1] = h[m - 1]
          BY <3>2
        <5> HIDE DEF g
        <5> QED
          BY <2>a, <4>2, <5>1, <5>2
      <4> QED
        BY <3>2, <3>3, <4>1, <4>2
    <3>4. g = [k \in 1..m |-> Step(g[k - 1], k)]
      <4>1. g = [k \in 1..m |-> g[k]]
        OBVIOUS
      <4> HIDE DEF g
      <4> QED
        BY <3>3, <4>1
    <3> HIDE DEF g
    <3> QED
      BY <3>2, <3>4
  <2>4. n \in G
    <3> HIDE DEF G
    <3>1. \A k \in 0..n : k \in G
      BY <2>2, <2>3, UpTo
    <3> QED
      BY <3>1
  <2>5. Is(flat, n)
    BY <2>4
  <2> HIDE DEF flat
  <2>6. \A k \in 1..n : flat[k] = IF k = 1 THEN s[k] ELSE flat[k - 1] \o s[k]
    <3>1. \A k \in 1..n : flat[k] = Step(flat[k - 1], k)
      BY <2>5
    <3> QED
      BY <3>1 DEF Step
  <2> DEFINE H == {k \in Nat : k = 0 \/ flat[k] \in Seq(S)}
  <2>7. 0 \in H
    OBVIOUS
  <2>8. ASSUME NEW k \in 1..n, k - 1 \in H PROVE k \in H
    <3>1. s[k] \in Seq(S)
      BY <1>0
    <3>2. CASE k = 1
      BY <2>6, <3>1, <3>2
    <3>3. CASE k # 1
      <4>1. flat[k - 1] \in Seq(S)
        BY <2>8, <3>3
      <4>2. flat[k] = flat[k - 1] \o s[k]
        BY <2>6, <3>3
      <4>3. \A x, y \in Seq(S) : x \o y \in Seq(S)
        BY ConcatProperties
      <4>4. (flat[k - 1] \o s[k]) \in Seq(S)
        BY <3>1, <4>1, <4>3, Zenon
      <4>5. flat[k] \in Seq(S)
        BY <4>2, <4>4, Zenon
      <4> QED
        BY <4>5
    <3> QED
      BY <3>2, <3>3
  <2>9. \A k \in 1..n : flat[k] \in Seq(S)
    <3> HIDE DEF H
    <3>1. \A k \in 0..n : k \in H
      BY <2>7, <2>8, UpTo
    <3>2. \A k \in 1..n : k \in 0..n /\ k # 0
      OBVIOUS
    <3> QED
      BY <3>1, <3>2 DEF H
  <2> DEFINE h == [k \in 0..n |-> IF k = 0 THEN <<>> ELSE flat[k]]
  <2>10. h[0] = <<>> /\ h[n] = flat[n] /\ \A k \in 1..n : h[k] = flat[k]
    BY <1>2
  <2>11. ASSUME NEW k \in 1..n PROVE h[k] \in Seq(S) /\ h[k] = h[k - 1] \o s[k]
    <3>1. flat[k] \in Seq(S)
      <4> HIDE DEF h
      <4> QED
        BY <2>9
    <3>2. CASE k = 1
      <4>1. s[1] \in Seq(S) /\ flat[1] = s[1]
        BY <1>0, <2>6, <3>2
      <4>2. <<>> \o s[1] = s[1]
        BY <4>1, ConcatEmptySeq
      <4>3. h[k] = flat[1] /\ h[k - 1] = <<>>
        BY <3>2, <2>10
      <4>4. s[k] = s[1]
        BY <3>2
      <4> HIDE DEF h
      <4>5. h[k] = s[1] /\ h[k - 1] \o s[k] = <<>> \o s[1]
        BY <4>1, <4>3, <4>4
      <4> QED
        BY <4>1, <4>2, <4>5
    <3>3. CASE k # 1
      <4>0. k - 1 \in 1..n
        BY <3>3
      <4>a. flat[k] = IF k = 1 THEN s[k] ELSE flat[k - 1] \o s[k]
        BY <2>6, Zenon
      <4>1. k - 1 \in 1..n /\ flat[k] = flat[k - 1] \o s[k]
        BY <3>3, <4>0, <4>a, Zenon
      <4> HIDE DEF h
      <4>2. h[k] = flat[k] /\ h[k - 1] = flat[k - 1]
        BY <2>10, <4>1
      <4> QED
        BY <3>1, <4>1, <4>2, Zenon
    <3> QED
      BY <3>2, <3>3
  <2> HIDE DEF h
  <2>12. Flats(h, s, S) /\ FlattenSeq(s) = h[Len(s)]
    BY <1>0, <2>1, <2>10, <2>11 DEF Flats
  <2> QED
    BY <2>12
<1> QED
  BY <1>1, <1>2

\* A flattened sequence of sequences over S is one over S.
LEMMA Flattened ==
  ASSUME NEW S, NEW s \in Seq(Seq(S))
  PROVE  FlattenSeq(s) \in Seq(S)
<1>1. PICK h : Flats(h, s, S) /\ FlattenSeq(s) = h[Len(s)]
  BY FlatMeaning
<1>2. Len(s) = 0 \/ Len(s) \in 1..Len(s)
  OBVIOUS
<1> QED
  BY <1>1, <1>2, EmptySeq DEF Flats

LEMMA VolumeTyped ==
  ASSUME SourcesTyped, NEW m, NEW leg, NEW end
  PROVE  Volume(m, leg, end) \in Seq(Sources)
<1> DEFINE one == [i \in Sources |-> IF Before(i, end) /\ Feeds(i, m, leg) THEN [u \in 1..source[i].pv |-> i] ELSE <<>>]
<1>1. Sources = 1..Len(source) /\ Len(source) \in Nat
  BY SourceFacts
<1>2. ASSUME NEW i \in Sources PROVE one[i] \in Seq(Sources)
  <2>1. source[i].pv \in Nat
    BY SourceFacts DEF SourceRec
  <2>2. [u \in 1..source[i].pv |-> i] \in Seq(Sources)
    BY <2>1
  <2> QED
    BY <2>2
<1>3. one \in Seq(Seq(Sources))
  <2>1. \A i \in 1..Len(source) : one[i] \in Seq(Sources)
    BY <1>1, <1>2
  <2>2. one \in [1..Len(source) -> Seq(Sources)]
    <3>1. DOMAIN one = 1..Len(source) /\ one = [i \in Sources |-> one[i]]
      BY <1>1
    <3> HIDE DEF one
    <3> QED
      BY <1>1, <2>1, <3>1
  <2> HIDE DEF one
  <2> QED
    BY <1>1, <2>2, SeqDef
<1>4. FlattenSeq(one) \in Seq(Sources)
  <2> HIDE DEF one
  <2> QED
    BY <1>3, Flattened
<1> QED
  BY <1>4 DEF Volume

LEMMA PairsNat ==
  ASSUME SourcesTyped, NEW m, NEW end
  PROVE  Pairs(m, end) \in Nat
<1>1. Len(Volume(m, "L", end)) \in Nat /\ Len(Volume(m, "R", end)) \in Nat
  BY VolumeTyped
<1>2. Block \in Nat \ {0}
  BY EngineAssumption
<1>3. Least(Len(Volume(m, "L", end)), Len(Volume(m, "R", end))) \in Nat
  BY <1>1 DEF Least
<1> QED
  BY <1>2, <1>3, QuotientOf DEF Pairs

LEMMA WeightNat ==
  ASSUME NEW v, NEW units, IsFiniteSet(units)
  PROVE  Weight(v, units) \in Nat
<1> DEFINE f == [n \in units |-> IF source[v[n]].kind = "manual" THEN 97 ELSE 99]
<1>1. \A n \in units : f[n] \in Nat
  OBVIOUS
<1> HIDE DEF f
<1>2. SumFunctionOnSet(f, units) \in Nat
  BY <1>1, SumNat
<1> QED
  BY <1>2 DEF Weight, f

LEMMA EntitlementNat ==
  ASSUME SourcesTyped, NEW b, Shape(b), NEW m \in Members, NEW end
  PROVE  Entitlement(b, m, end) \in Nat
<1> DEFINE new == NewUnits(b, m, end)
           left == Weight(Volume(m, "L", end), new)
           right == Weight(Volume(m, "R", end), new)
           times == IF m \in Founders THEN 5 ELSE 1
<1>1. IsFiniteSet(new)
  <2>1. b.claimed[m] \in Nat /\ Pairs(m, end) \in Nat /\ Block \in Nat
    BY PairsNat, EngineAssumption DEF Shape
  <2>2. b.claimed[m] * Block + 1 \in Int /\ Pairs(m, end) * Block \in Int
    BY <2>1, ProductOf
  <2> QED
    BY <2>2, FS_Interval DEF NewUnits
<1>2. left \in Nat /\ right \in Nat
  <2> HIDE DEF new
  <2> QED
    BY <1>1, WeightNat
<1>3. Unit \in Nat /\ 200 * Block \in Nat \ {0} /\ times \in Nat
  BY EngineAssumption
<1>4. Entitlement(b, m, end) = (times * Unit * (left + right)) \div (200 * Block)
  BY DEF Entitlement
<1> HIDE DEF left, right, times
<1>5. times * Unit \in Nat /\ left + right \in Nat
  BY <1>2, <1>3, ProductOf
<1>6. times * Unit * (left + right) \in Nat
  BY <1>5, ProductOf
<1> QED
  BY <1>3, <1>4, <1>6, QuotientOf

LEMMA BinaryOfOwes ==
  ASSUME SourcesTyped, NEW b, Shape(b), OwedKept(b), CapsKept(b), NEW m \in Members, NEW end \in Nat
  PROVE  Owes(BinaryOf(b, m, end), b)
<1>1. CASE ~Competes(m, end) \/ Pairs(m, end) <= b.claimed[m]
  BY <1>1, OwesItself DEF BinaryOf
<1>2. CASE ~(~Competes(m, end) \/ Pairs(m, end) <= b.claimed[m])
  <2> DEFINE pkg == OwnOpen(m, end)
             amount == Entitlement(b, m, end)
             allowed == Least(Least(amount, WeekCap), Remaining(b, pkg))
             one == Owed(b, "binary", pkg, end, amount, amount - allowed)
             c == [one EXCEPT !.claimed[m] = Pairs(m, end),
                              !.prefix[m] = Prefix(m, Pairs(m, end), end),
                              !.allocation = @ \cup Allocated(b, m, end)]
  <2>1. BinaryOf(b, m, end) = c
    BY <1>2 DEF BinaryOf
  <2>2. pkg \in Sources
    BY <1>2, OwnIn DEF Competes
  <2> HIDE DEF pkg
  <2>3. amount \in Nat
    BY EntitlementNat
  <2>4. Remaining(b, pkg) \in Nat
    <3>1. b.paid[pkg] \in Nat /\ b.paid[pkg] <= Cap(pkg) /\ Cap(pkg) \in Nat
      BY <2>2, SourceFacts DEF CapsKept, Shape
    <3> QED
      BY <3>1 DEF Remaining
  <2> HIDE DEF amount
  <2>5. allowed \in 0..amount /\ amount - allowed \in 0..amount
    <3>1. WeekCap \in Nat
      BY EngineAssumption
    <3> QED
      BY <2>3, <2>4, <3>1 DEF Least
  <2> HIDE DEF allowed
  <2>6. Owes(one, b)
    <3>1. "binary" \in Commissions
      BY DEF Commissions
    <3> QED
      BY <2>2, <2>3, <2>5, <3>1, OwedGrows
  <2> HIDE DEF one
  <2>7. Owes(c, one)
    <3>1. DOMAIN one = Fields /\ one.claimed \in [Members -> Nat] /\ Pairs(m, end) \in Nat
      BY <2>6, PairsNat DEF Owes, Shape
    <3>2. /\ DOMAIN c = Fields /\ c.owed = one.owed
          /\ c.roi = one.roi /\ c.rates = one.rates /\ c.paid = one.paid /\ c.payment = one.payment
          /\ c.closed = one.closed /\ c.claimed = [one.claimed EXCEPT ![m] = Pairs(m, end)]
      BY <3>1 DEF Fields
    <3>3. c.claimed \in [Members -> Nat]
      BY <3>1, <3>2
    <3> HIDE DEF c
    <3> QED
      BY <2>6, <3>2, <3>3 DEF Owes, Shape, OwedKept
  <2> HIDE DEF c
  <2> QED
    BY <2>1, <2>6, <2>7, OwesMore
<1> QED
  BY <1>1, <1>2

\* The caps speak of the payments, which owing more does not change.
LEMMA CapsAsBefore == \A b, c : Owes(c, b) /\ CapsKept(b) => CapsKept(c)
  BY DEF Owes, CapsKept, Kept

LEMMA BinaryOwes ==
  ASSUME SourcesTyped, NEW b, Shape(b), OwedKept(b), CapsKept(b), NEW end \in Nat
  PROVE  Owes(Binary(b, end), b)
<1>0. PICK after : Bonuses(after, b, end) /\ Binary(b, end) = after[Max(Members)]
  BY BinaryMeaning
<1>1. PICK n \in Nat : n = Max(Members)
  BY MembersBound
<1>2. Bonuses(after, b, end) /\ Binary(b, end) = after[n]
  BY <1>0, <1>1
<1>3. after[0] = b /\ \A k \in 1..n : after[k] = IF k \in Members THEN BinaryOf(after[k - 1], k, end) ELSE after[k - 1]
  BY <1>1, <1>2 DEF Bonuses
<1> DEFINE G == {k \in Nat : Owes(after[k], b)}
<1>4. 0 \in G
  BY <1>3, OwesItself
<1>5. ASSUME NEW k \in 1..n, k - 1 \in G PROVE k \in G
  <2>1. Owes(after[k - 1], b) /\ k \in Nat
    BY <1>5
  <2>2. Shape(after[k - 1]) /\ OwedKept(after[k - 1]) /\ CapsKept(after[k - 1])
    BY <2>1, CapsAsBefore DEF Owes
  <2>3. CASE k \in Members
    <3>1. Owes(BinaryOf(after[k - 1], k, end), after[k - 1])
      BY <2>2, <2>3, BinaryOfOwes
    <3>2. Owes(BinaryOf(after[k - 1], k, end), b)
      BY <2>1, <3>1, OwesMore
    <3> QED
      BY <1>3, <2>1, <2>3, <3>2
  <2>4. CASE k \notin Members
    BY <1>3, <2>1, <2>4
  <2> QED
    BY <2>3, <2>4
<1>6. n \in G
  <2> HIDE DEF G
  <2>1. \A k \in 0..n : k \in G
    BY <1>4, <1>5, UpTo
  <2> QED
    BY <2>1
<1> QED
  BY <1>2, <1>6

-----------------------------------------------------------------------------
(* What a week pays.                                                       *)

\* Theta takes no more of what is projected than the budget.
LEMMA ThetaFits ==
  ASSUME NEW budget \in Nat, NEW projected \in Nat, NEW scale \in Nat \ {0}, NEW theta,
         theta = ComputeTheta(100, budget, projected, scale)
  PROVE  theta \in Nat /\ theta <= scale /\ theta * projected <= budget * scale
<1>1. CASE projected = 0
  <2>1. theta = scale /\ scale * projected = 0 /\ budget * scale \in Nat
    BY <1>1, ProductOf DEF ComputeTheta
  <2> QED
    BY <2>1
<1>2. CASE projected # 0
  <2> DEFINE x == 100 * budget * scale
             y == 100 * projected
  <2>1. theta = Least(scale, x \div y)
    BY <1>2 DEF ComputeTheta
  <2>2. y \in Nat \ {0} /\ 100 * budget \in Nat
    BY <1>2
  <2>3. x \in Nat
    BY <2>2, ProductOf
  <2> HIDE DEF x, y
  <2>4. x \div y \in Nat /\ (x \div y) * y <= x
    BY <2>2, <2>3, QuotientOf
  <2>5. theta \in Nat /\ theta <= scale /\ theta <= x \div y
    BY <2>1, <2>4 DEF Least
  <2>6. theta * y <= (x \div y) * y /\ theta * y \in Nat
    BY <2>2, <2>4, <2>5, ProductMonotone
  <2>7. theta * y <= x
    BY <2>3, <2>4, <2>6, ProductOf, <2>2
  <2>8. theta * y = (theta * projected) * 100 /\ x = (budget * scale) * 100
    BY <2>5 DEF x, y
  <2>9. theta * projected \in Nat /\ budget * scale \in Nat
    BY <2>5, ProductOf
  <2> QED
    BY <2>5, <2>7, <2>8, <2>9, CancelScale
<1> QED
  BY <1>1, <1>2

\* A net amount is within the gross, and times the scale within theta times the gross.
LEMMA NetFits ==
  ASSUME NEW gross \in Nat, NEW scale \in Nat \ {0}, NEW theta \in Nat, theta <= scale
  PROVE  /\ NetOf(gross, theta, scale) \in Nat /\ NetOf(gross, theta, scale) <= gross
         /\ scale * NetOf(gross, theta, scale) <= theta * gross
<1> DEFINE net == (gross * theta) \div scale
<1>1. gross * theta \in Nat /\ gross * theta = theta * gross /\ gross * theta <= gross * scale
  BY ProductOf, ProductMonotone
<1>2. net \in Nat /\ scale * net <= gross * theta /\ net * scale <= gross * theta
  BY <1>1, QuotientOf
<1> HIDE DEF net
<1>3. net * scale \in Nat /\ gross * scale \in Nat
  BY <1>2, ProductOf
<1>4. net * scale <= gross * scale
  BY <1>1, <1>2, <1>3
<1>5. net <= gross
  BY <1>2, <1>4, CancelScale
<1>6. scale * net <= theta * gross
  BY <1>1, <1>2
<1> QED
  BY <1>2, <1>5, <1>6 DEF NetOf, net

\* A claim gets an amount, and left of it is excluded.
Settled(o, amount, left) == [o EXCEPT !.paid = @ + amount, !.excluded = @ + left]
Settles(d, c, k, amount, left, posted, end) ==
  /\ Posted(posted, c, c.owed[k].kind, c.owed[k].pkg, amount, end)
  /\ DOMAIN d = Fields
  /\ d.roi = posted.roi /\ d.rates = posted.rates /\ d.paid = posted.paid /\ d.payment = posted.payment
  /\ d.closed = posted.closed /\ d.claimed = posted.claimed
  /\ d.owed = [posted.owed EXCEPT ![k] = Settled(c.owed[k], amount, left)]

Fits(c, k, net, amount, left) ==
  /\ amount \in Nat /\ left \in Nat /\ amount <= net /\ amount + left <= Open(c.owed[k])
  /\ ConsumesCap(c.owed[k].kind) => amount <= Remaining(c, c.owed[k].pkg)

LEMMA OwedFacts ==
  ASSUME SourcesTyped, NEW c, Shape(c), OwedKept(c), NEW k \in DOMAIN c.owed
  PROVE  /\ c.owed[k] \in OwedRec /\ c.owed[k].kind \in Commissions
         /\ c.owed[k].pkg \in Sources /\ c.owed[k].pkg \in Slots
         /\ c.owed[k].amount \in Nat /\ c.owed[k].paid \in Nat /\ c.owed[k].excluded \in Nat
         /\ Open(c.owed[k]) \in Nat
<1>1. c.owed \in Seq(OwedRec)
  BY DEF Shape
<1>2. c.owed[k] \in OwedRec
  BY <1>1
<1>3. /\ c.owed[k].kind \in Commissions /\ c.owed[k].pkg \in Sources
      /\ c.owed[k].amount \in Nat /\ c.owed[k].paid \in Nat /\ c.owed[k].excluded \in Nat
  BY <1>2 DEF OwedRec
<1>4. Open(c.owed[k]) \in Nat
  BY <1>3 DEF OwedKept, Open
<1> QED
  BY <1>2, <1>3, <1>4, SourceFacts

LEMMA PayOneMeaning ==
  ASSUME SourcesTyped, NEW c, Shape(c), OwedKept(c), CapsKept(c), NEW k \in DOMAIN c.owed,
         NEW end \in Nat, NEW theta \in Nat, theta <= Scale
  PROVE  \E amount, left, posted :
           /\ Fits(c, k, NetOf(Open(c.owed[k]), theta, Scale), amount, left)
           /\ Settles(PayOne(c, k, theta, end), c, k, amount, left, posted, end)
<1> DEFINE o == c.owed[k]
           net == NetOf(Open(o), theta, Scale)
           room == IF ConsumesCap(o.kind) THEN Remaining(c, o.pkg) ELSE Open(o)
           amount == Least(net, room)
           left == Minus(Open(o), room)
           posted == Post(c, o.kind, o.pkg, amount, end)
           d == [posted EXCEPT !.owed[k] = Settled(o, amount, left)]
<1>1. PayOne(c, k, theta, end) = d
  BY DEF PayOne, Settled
<1>2. /\ o \in OwedRec /\ o.kind \in Commissions /\ o.pkg \in Sources /\ o.pkg \in Slots /\ Open(o) \in Nat
  BY OwedFacts
<1>3. Remaining(c, o.pkg) \in Nat
  <2>1. c.paid[o.pkg] \in Nat /\ c.paid[o.pkg] <= Cap(o.pkg) /\ Cap(o.pkg) \in Nat
    BY <1>2, SourceFacts DEF CapsKept, Shape
  <2> QED
    BY <2>1 DEF Remaining
<1>4. net \in Nat /\ net <= Open(o)
  <2>1. Scale \in Nat \ {0}
    BY EngineAssumption
  <2> QED
    BY <1>2, <2>1, NetFits
<1>5. room \in Nat /\ (ConsumesCap(o.kind) => room = Remaining(c, o.pkg))
  BY <1>2, <1>3
<1> HIDE DEF room, net, o
<1>6. /\ amount \in Nat /\ left \in Nat /\ amount <= net /\ amount <= room /\ amount + left <= Open(o)
  BY <1>2, <1>4, <1>5 DEF Least, Minus
<1>7. ConsumesCap(o.kind) => amount <= Remaining(c, o.pkg)
  BY <1>5, <1>6
<1>8. Fits(c, k, net, amount, left)
  <2> HIDE DEF amount, left
  <2> QED
    BY <1>6, <1>7 DEF Fits, o
<1>9. d = [posted EXCEPT !.owed[k] = Settled(o, amount, left)]
  OBVIOUS
<1> HIDE DEF amount, left, d
<1>10. Posted(posted, c, o.kind, o.pkg, amount, end)
  BY <1>2, <1>6, <1>7, PostMeaning
<1>11. Shape(posted)
  <2> HIDE DEF posted
  <2>1. o.kind \in Commissions \cup {"roi"}
    BY <1>2
  <2> QED
    BY <1>2, <1>6, <1>10, <2>1, PostedGrows DEF Grown
<1> HIDE DEF posted
<1>12. Settles(d, c, k, amount, left, posted, end)
  <2>1. DOMAIN posted = Fields
    BY <1>11 DEF Shape
  <2>2. /\ DOMAIN d = Fields
        /\ d.roi = posted.roi /\ d.rates = posted.rates /\ d.paid = posted.paid /\ d.payment = posted.payment
        /\ d.closed = posted.closed /\ d.claimed = posted.claimed
        /\ d.owed = [posted.owed EXCEPT ![k] = Settled(o, amount, left)]
    BY <1>9, <2>1 DEF Fields
  <2>3. Posted(posted, c, c.owed[k].kind, c.owed[k].pkg, amount, end)
    BY <1>10 DEF o
  <2>4. d.owed = [posted.owed EXCEPT ![k] = Settled(c.owed[k], amount, left)]
    BY <2>2 DEF o
  <2> QED
    BY <2>2, <2>3, <2>4 DEF Settles
<1> QED
  BY <1>1, <1>8, <1>12 DEF net, o

\* c is b after the payments of the first k claims, which took no more than spent.
Pays(c, b, end, spent, k) ==
  /\ Shape(c) /\ CapsKept(c) /\ OwedKept(c) /\ spent \in Nat
  /\ c.roi = b.roi /\ c.rates = b.rates /\ c.closed = b.closed
  /\ \A i : Credited(c, i) = Credited(b, i)
  /\ \A i \in Slots \ Sources : c.paid[i] = b.paid[i]
  /\ DOMAIN c.owed = DOMAIN b.owed
  /\ \A j \in DOMAIN b.owed : j > k => c.owed[j] = b.owed[j]
  /\ \A d : PaidBefore(c, {"roi"}, d) = PaidBefore(b, {"roi"}, d)
  /\ \A d \in Nat : d <= end => PaidBefore(c, Commissions, d) = PaidBefore(b, Commissions, d)
  /\ PaidBefore(c, Commissions, end + 1) <= PaidBefore(b, Commissions, end + 1) + spent
  /\ \A n \in DOMAIN c.payment : \/ \E j \in DOMAIN b.payment : b.payment[j] = c.payment[n]
                                 \/ c.payment[n].kind \in Commissions /\ c.payment[n].day = end /\ spent > 0

LEMMA PaysMore ==
  ASSUME SourcesTyped, NEW b, Shape(b), NEW end \in Nat, NEW spent, NEW k \in DOMAIN b.owed, k \in Nat, NEW c,
         Pays(c, b, end, spent, k - 1), NEW net \in Nat, NEW amount, NEW left,
         Fits(c, k, net, amount, left), NEW posted, NEW d, Settles(d, c, k, amount, left, posted, end)
  PROVE  Pays(d, b, end, spent + net, k)
<1>1. /\ Shape(c) /\ CapsKept(c) /\ OwedKept(c) /\ spent \in Nat
      /\ c.roi = b.roi /\ c.rates = b.rates /\ c.closed = b.closed
      /\ \A i : Credited(c, i) = Credited(b, i)
      /\ \A i \in Slots \ Sources : c.paid[i] = b.paid[i]
      /\ DOMAIN c.owed = DOMAIN b.owed
      /\ \A j \in DOMAIN b.owed : j > k - 1 => c.owed[j] = b.owed[j]
      /\ \A e : PaidBefore(c, {"roi"}, e) = PaidBefore(b, {"roi"}, e)
      /\ \A e \in Nat : e <= end => PaidBefore(c, Commissions, e) = PaidBefore(b, Commissions, e)
      /\ PaidBefore(c, Commissions, end + 1) <= PaidBefore(b, Commissions, end + 1) + spent
      /\ \A n \in DOMAIN c.payment : \/ \E j \in DOMAIN b.payment : b.payment[j] = c.payment[n]
                                     \/ c.payment[n].kind \in Commissions /\ c.payment[n].day = end /\ spent > 0
  BY DEF Pays
<1>2. PICK o : o = c.owed[k]
  OBVIOUS
<1>3. /\ k \in DOMAIN c.owed /\ o \in OwedRec /\ o.kind \in Commissions /\ o.pkg \in Sources /\ o.pkg \in Slots
      /\ o.paid \in Nat /\ o.excluded \in Nat /\ o.amount \in Nat /\ Open(o) \in Nat
  BY <1>1, <1>2, OwedFacts
<1>4. /\ amount \in Nat /\ left \in Nat /\ amount <= net /\ amount + left <= Open(o)
      /\ ConsumesCap(o.kind) => amount <= Remaining(c, o.pkg)
  BY <1>2 DEF Fits
<1>5. /\ Posted(posted, c, o.kind, o.pkg, amount, end)
      /\ DOMAIN d = Fields
      /\ d.roi = posted.roi /\ d.rates = posted.rates /\ d.paid = posted.paid /\ d.payment = posted.payment
      /\ d.closed = posted.closed /\ d.claimed = posted.claimed
      /\ d.owed = [posted.owed EXCEPT ![k] = Settled(o, amount, left)]
  BY <1>2 DEF Settles
<1>6. Grown(posted, c, o.kind, o.pkg, amount, end)
  <2>1. o.kind \in Commissions \cup {"roi"}
    BY <1>3
  <2> QED
    BY <1>1, <1>3, <1>4, <1>5, <2>1, PostedGrows
<1>7. /\ Shape(posted) /\ posted.roi = c.roi /\ posted.rates = c.rates /\ posted.owed = c.owed /\ posted.closed = c.closed
      /\ \A i : Credited(posted, i) = Credited(c, i) + IF o.kind = "roi" /\ o.pkg = i THEN amount ELSE 0
      /\ \A i : Kept(posted, i) = Kept(c, i) + IF ConsumesCap(o.kind) /\ o.pkg = i THEN amount ELSE 0
      /\ \A i \in Slots : posted.paid[i] = c.paid[i] + IF ConsumesCap(o.kind) /\ o.pkg = i THEN amount ELSE 0
      /\ \A kinds, e : PaidBefore(posted, kinds, e) = PaidBefore(c, kinds, e) + IF o.kind \in kinds /\ end < e THEN amount ELSE 0
      /\ \A n \in DOMAIN posted.payment :
           \/ \E j \in DOMAIN c.payment : c.payment[j] = posted.payment[n]
           \/ posted.payment[n].kind = o.kind /\ posted.payment[n].day = end /\ amount > 0
  BY <1>6 DEF Grown
<1>8. /\ \A i : Credited(d, i) = Credited(posted, i) /\ Kept(d, i) = Kept(posted, i)
      /\ \A kinds, e : PaidBefore(d, kinds, e) = PaidBefore(posted, kinds, e)
  BY <1>5 DEF Credited, Kept, PaidBefore
<1>9. /\ \A i : Credited(c, i) \in Nat /\ Kept(c, i) \in Nat /\ Credited(b, i) \in Nat
      /\ \A kinds, e : PaidBefore(c, kinds, e) \in Nat /\ PaidBefore(b, kinds, e) \in Nat
  BY <1>1, SumsAreNat
<1>10. o.kind # "roi"
  BY <1>3 DEF Commissions
<1>11. PICK w : w = Settled(o, amount, left)
  OBVIOUS
<1>12. w \in OwedRec /\ Open(w) >= 0
  <2>1. /\ w = [o EXCEPT !.paid = o.paid + amount, !.excluded = o.excluded + left]
    BY <1>11 DEF Settled
  <2>2. /\ o = [kind |-> o.kind, pkg |-> o.pkg, week |-> o.week, amount |-> o.amount, excluded |-> o.excluded, paid |-> o.paid]
        /\ o.week \in Nat
    BY <1>3 DEF OwedRec
  <2>3. w = [kind |-> o.kind, pkg |-> o.pkg, week |-> o.week, amount |-> o.amount,
             excluded |-> o.excluded + left, paid |-> o.paid + amount]
    BY <2>1, <2>2
  <2>4. o.excluded + left \in Nat /\ o.paid + amount \in Nat
    BY <1>3, <1>4
  <2>5. w \in OwedRec
    BY <1>3, <2>2, <2>3, <2>4 DEF OwedRec
  <2>6. w.amount - w.paid - w.excluded >= 0
    <3>1. amount + left <= o.amount - o.paid - o.excluded
      BY <1>4 DEF Open
    <3>2. w.amount = o.amount /\ w.paid = o.paid + amount /\ w.excluded = o.excluded + left
      BY <2>3
    <3> QED
      BY <1>3, <1>4, <3>1, <3>2
  <2> QED
    BY <2>5, <2>6 DEF Open
<1>13. d.owed = [c.owed EXCEPT ![k] = w]
  BY <1>5, <1>7, <1>11
<1>14. c.owed \in Seq(OwedRec)
  BY <1>1 DEF Shape
<1>15. d.owed \in Seq(OwedRec) /\ DOMAIN d.owed = DOMAIN c.owed
       /\ d.owed[k] = w /\ \A j \in DOMAIN c.owed : j # k => d.owed[j] = c.owed[j]
  BY <1>3, <1>12, <1>13, <1>14
<1>16. Shape(d)
  BY <1>5, <1>7, <1>15 DEF Shape
<1>17. OwedKept(d)
  BY <1>1, <1>12, <1>15 DEF OwedKept
<1>18. CapsKept(d)
  <2>1. ASSUME NEW j \in Sources PROVE Kept(d, j) = d.paid[j] /\ d.paid[j] <= Cap(j)
    <3>1. Kept(c, j) = c.paid[j] /\ c.paid[j] <= Cap(j) /\ c.paid[j] \in Nat /\ j \in Slots /\ Cap(j) \in Nat
      BY <1>1, SourceFacts DEF CapsKept, Shape
    <3>2. Kept(d, j) = Kept(c, j) + IF ConsumesCap(o.kind) /\ o.pkg = j THEN amount ELSE 0
      BY <1>7, <1>8
    <3>3. d.paid[j] = c.paid[j] + IF ConsumesCap(o.kind) /\ o.pkg = j THEN amount ELSE 0
      BY <1>5, <1>7, <3>1
    <3>4. ConsumesCap(o.kind) /\ o.pkg = j => c.paid[j] + amount <= Cap(j)
      BY <1>4, <3>1 DEF Remaining
    <3> QED
      BY <3>1, <3>2, <3>3, <3>4
  <2> QED
    BY <2>1 DEF CapsKept
<1>19. \A i : Credited(d, i) = Credited(b, i)
  BY <1>1, <1>7, <1>8, <1>9, <1>10
<1>20. \A i \in Slots \ Sources : d.paid[i] = b.paid[i]
  <2>1. ASSUME NEW i \in Slots \ Sources PROVE d.paid[i] = b.paid[i]
    <3>1. o.pkg # i /\ c.paid[i] \in Nat
      BY <1>1, <1>3 DEF Shape
    <3>2. posted.paid[i] = c.paid[i]
      BY <1>7, <3>1
    <3> QED
      BY <1>1, <1>5, <3>2
  <2> QED
    BY <2>1
<1>21. \A j \in DOMAIN b.owed : j > k => d.owed[j] = b.owed[j]
  <2>1. DOMAIN b.owed \subseteq Nat
    BY DEF Shape
  <2> QED
    BY <1>1, <1>15, <2>1
<1>22. \A e : PaidBefore(d, {"roi"}, e) = PaidBefore(b, {"roi"}, e)
  BY <1>1, <1>7, <1>8, <1>9, <1>10
<1>23. \A e \in Nat : e <= end => PaidBefore(d, Commissions, e) = PaidBefore(b, Commissions, e)
  <2>1. ASSUME NEW e \in Nat, e <= end PROVE PaidBefore(d, Commissions, e) = PaidBefore(b, Commissions, e)
    <3>1. ~(end < e)
      BY <2>1
    <3> QED
      BY <1>1, <1>7, <1>8, <1>9, <2>1, <3>1
  <2> QED
    BY <2>1
<1>24. PaidBefore(d, Commissions, end + 1) <= PaidBefore(b, Commissions, end + 1) + (spent + net)
  <2>1. PaidBefore(d, Commissions, end + 1) = PaidBefore(c, Commissions, end + 1) + amount
    BY <1>3, <1>7, <1>8
  <2>2. PaidBefore(c, Commissions, end + 1) \in Nat /\ PaidBefore(b, Commissions, end + 1) \in Nat
    BY <1>9
  <2> QED
    BY <1>1, <1>4, <2>1, <2>2
<1>25. spent + net \in Nat /\ (spent > 0 => spent + net > 0) /\ (amount > 0 => spent + net > 0)
  BY <1>1, <1>4
<1>26. \A n \in DOMAIN d.payment : \/ \E j \in DOMAIN b.payment : b.payment[j] = d.payment[n]
                                   \/ d.payment[n].kind \in Commissions /\ d.payment[n].day = end /\ spent + net > 0
  <2>1. ASSUME NEW n \in DOMAIN d.payment
        PROVE  \/ \E j \in DOMAIN b.payment : b.payment[j] = d.payment[n]
               \/ d.payment[n].kind \in Commissions /\ d.payment[n].day = end /\ spent + net > 0
    <3>1. d.payment[n] = posted.payment[n] /\ n \in DOMAIN posted.payment
      BY <1>5, <2>1
    <3>2. CASE \E j \in DOMAIN c.payment : c.payment[j] = posted.payment[n]
      BY <1>1, <1>25, <3>1, <3>2
    <3>3. CASE posted.payment[n].kind = o.kind /\ posted.payment[n].day = end /\ amount > 0
      BY <1>3, <1>25, <3>1, <3>3
    <3> QED
      BY <1>7, <3>1, <3>2, <3>3
  <2> QED
    BY <2>1
<1> QED
  BY <1>1, <1>5, <1>7, <1>15, <1>16, <1>17, <1>18, <1>19, <1>20, <1>21, <1>22, <1>23, <1>24, <1>25, <1>26 DEF Pays

LEMMA InflowsNat == SourcesTyped => \A end : Inflows(end) \in Nat
<1> SUFFICES ASSUME SourcesTyped, NEW end PROVE Inflows(end) \in Nat
  OBVIOUS
<1> DEFINE f == [i \in Sources |-> IF Before(i, end) THEN Net(source[i]) ELSE 0]
<1>1. \A i \in Sources : f[i] \in Nat
  BY NetNat
<1>2. IsFiniteSet(Sources)
  <2>1. 1 \in Int /\ Len(source) \in Int /\ Sources = 1..Len(source)
    BY SourceFacts
  <2> QED
    BY <2>1, FS_Interval
<1>3. DOMAIN f = Sources /\ Inflows(end) = Total(f)
  BY DEF Inflows
<1> HIDE DEF f
<1>4. SumFunctionOnSet(f, Sources) \in Nat
  BY <1>1, <1>2, SumNat
<1> QED
  BY <1>3, <1>4 DEF Total

LEMMA BudgetFacts ==
  ASSUME SourcesTyped, NEW b, Shape(b), NEW end
  PROVE  /\ Budget(b, end) \in Nat
         /\ Budget(b, end) > 0 =>
              PaidBefore(b, {"roi"}, end) + PaidBefore(b, Commissions, end) + Budget(b, end) = Percent(Alpha, Inflows(end))
<1>1. PICK p \in Nat : p = Percent(Alpha, Inflows(end))
  BY InflowsNat, PercentNat, EngineAssumption
<1>2. PICK r \in Nat : r = PaidBefore(b, {"roi"}, end)
  BY SumsAreNat
<1>3. PICK q \in Nat : q = PaidBefore(b, Commissions, end)
  BY SumsAreNat
<1>4. Budget(b, end) = Minus(p, r + q)
  BY <1>1, <1>2, <1>3 DEF Budget
<1>5. Minus(p, r + q) \in Nat /\ (Minus(p, r + q) > 0 => r + q + Minus(p, r + q) = p)
  BY DEF Minus
<1> QED
  BY <1>1, <1>2, <1>3, <1>4, <1>5

\* Paid stays within the budget of the week.
LEMMA PaidPays ==
  ASSUME SourcesTyped, NEW b, Shape(b), CapsKept(b), OwedKept(b), NEW end \in Nat
  PROVE  \E spent, n : spent <= Budget(b, end) /\ Pays(Paid(b, end), b, end, spent, n)
<1>1. PICK n \in Nat : n = Len(b.owed) /\ DOMAIN b.owed = 1..n
  BY DEF Shape
<1>2. PICK theta : theta = ComputeTheta(100, Budget(b, end), Projected(b), Scale)
  OBVIOUS
<1>3. PICK after : Claims(after, b, end, theta, n) /\ Paid(b, end) = after[n]
  BY <1>1, <1>2, PaidMeaning
<1>4. PICK open : open = [j \in DOMAIN b.owed |-> Open(b.owed[j])]
  OBVIOUS
<1>5. \A j \in 1..n : open[j] \in Nat /\ open[j] = Open(b.owed[j])
  BY <1>1, <1>4, OwedFacts
<1>6. IsFiniteSet(1..n)
  <2>1. 1 \in Int /\ n \in Int
    OBVIOUS
  <2> QED
    BY <2>1, FS_Interval
<1>7. PICK projected \in Nat : projected = SumFunctionOnSet(open, 1..n) /\ projected = Projected(b)
  <2>1. SumFunctionOnSet(open, 1..n) \in Nat
    BY <1>5, <1>6, SumNat
  <2>2. DOMAIN open = 1..n
    BY <1>1, <1>4
  <2>3. Projected(b) = SumFunctionOnSet(open, 1..n)
    BY <1>4, <2>2 DEF Projected, Total
  <2> QED
    BY <2>1, <2>3
<1>8. PICK budget \in Nat : budget = Budget(b, end)
  BY BudgetFacts
<1>9. Scale \in Nat \ {0}
  BY EngineAssumption
<1>10. theta \in Nat /\ theta <= Scale /\ theta * projected <= budget * Scale
  BY <1>2, <1>7, <1>8, <1>9, ThetaFits
<1>11. PICK net : net = [j \in 1..n |-> NetOf(open[j], theta, Scale)]
  OBVIOUS
<1>12. \A j \in 1..n : net[j] \in Nat /\ net[j] = NetOf(open[j], theta, Scale) /\ Scale * net[j] <= theta * open[j]
  BY <1>5, <1>9, <1>10, <1>11, NetFits
<1> DEFINE spent(k) == SumFunctionOnSet(net, 1..k)
<1>13. \A k \in 0..n : spent(k) \in Nat
  <2>1. ASSUME NEW k \in 0..n PROVE spent(k) \in Nat
    <3>1. 1 \in Int /\ k \in Int /\ 1..k \subseteq 1..n
      OBVIOUS
    <3>2. IsFiniteSet(1..k)
      BY <3>1, FS_Interval
    <3>3. \A j \in 1..k : net[j] \in Nat
      BY <1>12, <3>1
    <3> QED
      BY <3>2, <3>3, SumNat
  <2> QED
    BY <2>1
<1>14. \A k \in 1..n : spent(k) = spent(k - 1) + net[k]
  <2>1. ASSUME NEW k \in 1..n PROVE spent(k) = spent(k - 1) + net[k]
    <3>1. PICK j \in Nat : j = k - 1 /\ j + 1 = k
      OBVIOUS
    <3>2. \A i \in 1..j : net[i] \in Int /\ net[i] = net[i]
      BY <1>12, <3>1
    <3>3. net[j + 1] \in Int
      BY <1>12, <3>1
    <3>4. SumFunctionOnSet(net, 1..(j + 1)) = SumFunctionOnSet(net, 1..j) + net[j + 1]
      BY <3>2, <3>3, SumGrows
    <3> QED
      BY <3>1, <3>4
  <2> QED
    BY <2>1
<1>15. spent(0) = 0
  <2>1. 1..0 = {}
    OBVIOUS
  <2> QED
    BY <2>1, SumEmpty
<1>16. spent(n) <= budget
  <2>1. PICK f : f = [j \in 1..n |-> Scale * net[j]]
    OBVIOUS
  <2>2. PICK g : g = [j \in 1..n |-> theta * open[j]]
    OBVIOUS
  <2>3. SumFunctionOnSet(f, 1..n) = Scale * SumFunctionOnSet(net, 1..n)
    <3>1. \A j \in 1..n : net[j] \in Int /\ f[j] = Scale * net[j]
      BY <1>12, <2>1
    <3> QED
      <4>1. Scale \in Int
        BY <1>9
      <4> QED
        BY <1>6, <3>1, <4>1, SumScaled, Zenon
  <2>4. SumFunctionOnSet(g, 1..n) = theta * projected
    <3>1. \A j \in 1..n : open[j] \in Int /\ g[j] = theta * open[j]
      BY <1>5, <2>2
    <3> QED
      <4>1. theta \in Int
        BY <1>10
      <4>2. SumFunctionOnSet(g, 1..n) = theta * SumFunctionOnSet(open, 1..n)
        BY <1>6, <3>1, <4>1, SumScaled, Zenon
      <4> QED
        BY <1>7, <4>2
  <2>5. SumFunctionOnSet(f, 1..n) <= SumFunctionOnSet(g, 1..n)
    <3>1. ASSUME NEW j \in 1..n PROVE f[j] \in Int /\ g[j] \in Int /\ f[j] <= g[j]
      <4>1. f[j] = Scale * net[j] /\ g[j] = theta * open[j] /\ Scale * net[j] <= theta * open[j]
        BY <1>12, <2>1, <2>2
      <4>2. Scale * net[j] \in Nat /\ theta * open[j] \in Nat
        BY <1>5, <1>9, <1>10, <1>12, ProductOf
      <4> QED
        BY <4>1, <4>2
    <3> QED
      BY <1>6, <3>1, SumWithin
  <2>6. PICK s \in Nat : s = spent(n)
    BY <1>13
  <2>7. s * Scale <= budget * Scale
    <3>1. s * Scale = Scale * s /\ s * Scale \in Nat
      BY <1>9, ProductOf
    <3>2. Scale * s <= theta * projected
      BY <2>3, <2>4, <2>5, <2>6
    <3>3. theta * projected \in Nat /\ budget * Scale \in Nat
      BY <1>9, <1>10, ProductOf
    <3> QED
      BY <1>10, <3>1, <3>2, <3>3
  <2>8. s <= budget
    BY <1>9, <2>7, CancelScale
  <2> QED
    BY <2>6, <2>8
<1> HIDE DEF spent
<1> DEFINE G == {k \in Nat : Pays(after[k], b, end, spent(k), k)}
<1>17. after[0] = b /\ \A k \in 1..n : after[k] = PayOne(after[k - 1], k, theta, end)
  BY <1>3 DEF Claims
<1>18. 0 \in G
  <2>1. PaidBefore(b, Commissions, end + 1) \in Nat
    BY SumsAreNat
  <2>2. PaidBefore(b, Commissions, end + 1) <= PaidBefore(b, Commissions, end + 1) + 0
    BY <2>1
  <2>3. \A j \in DOMAIN b.payment : \E i \in DOMAIN b.payment : b.payment[i] = b.payment[j]
    OBVIOUS
  <2>4. Pays(b, b, end, 0, 0)
    BY <2>2, <2>3 DEF Pays
  <2> QED
    BY <1>15, <1>17, <2>4
<1>19. ASSUME NEW k \in 1..n, k - 1 \in G PROVE k \in G
  <2>1. PICK c : c = after[k - 1]
    OBVIOUS
  <2>2. Pays(c, b, end, spent(k - 1), k - 1)
    BY <1>19, <2>1
  <2>3. Shape(c) /\ OwedKept(c) /\ CapsKept(c) /\ DOMAIN c.owed = DOMAIN b.owed
        /\ \A j \in DOMAIN b.owed : j > k - 1 => c.owed[j] = b.owed[j]
    BY <2>2 DEF Pays
  <2>4. k \in DOMAIN c.owed /\ k \in DOMAIN b.owed /\ k \in Nat /\ c.owed[k] = b.owed[k]
    BY <1>1, <2>3
  <2>5. NetOf(Open(c.owed[k]), theta, Scale) = net[k] /\ net[k] \in Nat
    BY <1>5, <1>12, <2>4
  <2>6. \E amount, left, posted : /\ Fits(c, k, net[k], amount, left)
                                  /\ Settles(after[k], c, k, amount, left, posted, end)
    <3>1. after[k] = PayOne(c, k, theta, end)
      BY <1>17, <2>1
    <3> QED
      BY <1>10, <2>3, <2>4, <2>5, <3>1, PayOneMeaning
  <2>7. Pays(after[k], b, end, spent(k - 1) + net[k], k)
    BY <2>2, <2>4, <2>5, <2>6, PaysMore
  <2>8. spent(k) = spent(k - 1) + net[k]
    BY <1>14
  <2> QED
    BY <2>4, <2>7, <2>8
<1>20. n \in G
  <2> HIDE DEF G
  <2>1. \A k \in 0..n : k \in G
    BY <1>18, <1>19, UpTo
  <2> QED
    BY <2>1
<1> QED
  BY <1>3, <1>8, <1>16, <1>20

-----------------------------------------------------------------------------
(* A week closes.                                                          *)

LEMMA RemainderOf ==
  ASSUME NEW x \in Nat, NEW y \in Nat \ {0}
  PROVE  x % y \in Nat /\ x % y <= x
  OBVIOUS

\* The next week to close begins after every week closed, and is over by today.
LEMMA NextWeek ==
  ASSUME SourcesTyped, source # <<>>, NEW b, WeeksAccrued(b), Over(WeekEnd(b))
  PROVE  WeekEnd(b) \in 0..Today /\ \A e \in b.closed : e < WeekEnd(b)
<1>1. Today \in Nat /\ b.closed \subseteq 0..Today /\ Week \in Nat \ {0}
  BY SourceFacts, EngineAssumption DEF WeeksAccrued
<1>2. NextStart(b) \in Nat /\ \A e \in b.closed : e <= NextStart(b)
  <2>1. CASE b.closed = {}
    <3>1. 1 \in Sources
      <4>1. Len(source) # 0
        <5>1. source \in Seq(SourceRec)
          BY DEF SourcesTyped
        <5> QED
          BY <5>1, EmptySeq
      <4> QED
        BY <4>1, SourceFacts
    <3>2. PICK day \in Nat : day = source[1].day
      BY <3>1, SourceFacts
    <3>3. day % Week \in Nat /\ day % Week <= day
      BY <1>1, RemainderOf
    <3>4. NextStart(b) = day - (day % Week)
      BY <2>1, <3>2 DEF NextStart, Monday
    <3>5. PICK r \in Nat : r = day % Week /\ r <= day
      BY <3>3
    <3>6. NextStart(b) = day - r
      BY <3>4, <3>5
    <3> QED
      BY <2>1, <3>5, <3>6
  <2>2. CASE b.closed # {}
    <3>1. IsFiniteSet(b.closed) /\ b.closed \subseteq Int
      <4>1. 0 \in Int /\ Today \in Int
        BY <1>1
      <4>2. IsFiniteSet(0..Today)
        BY <4>1, FS_Interval
      <4> QED
        BY <1>1, <4>2, FS_Subset
    <3>2. Max(b.closed) \in b.closed /\ \A e \in b.closed : e <= Max(b.closed)
      BY <2>2, <3>1, Ends
    <3>3. NextStart(b) = Max(b.closed)
      BY <2>2 DEF NextStart
    <3> QED
      BY <1>1, <3>2, <3>3
  <2> QED
    BY <2>1, <2>2
<1>3. WeekEnd(b) = NextStart(b) + Week
  BY DEF WeekEnd
<1>4. WeekEnd(b) <= Today
  BY <1>1, <1>2, <1>3 DEF Over
<1> QED
  BY <1>1, <1>2, <1>3, <1>4

\* Nothing was paid in a week that has not closed.
LEMMA NotYetPaid ==
  ASSUME NEW b, Shape(b), NEW ends, PaysIn(b, ends), NEW end \in Nat, end \notin ends
  PROVE  PaidBefore(b, Commissions, end + 1) = PaidBefore(b, Commissions, end)
<1>1. \A n \in DOMAIN b.payment : b.payment[n].day \in Nat
  <2>1. b.payment \in Seq(PayRec)
    BY DEF Shape
  <2>2. \A n \in DOMAIN b.payment : b.payment[n] \in PayRec
    BY <2>1
  <2> QED
    BY <2>2 DEF PayRec
<1>2. ASSUME NEW n \in DOMAIN b.payment
      PROVE  b.payment[n].kind \in Commissions /\ b.payment[n].day < end + 1
               <=> b.payment[n].kind \in Commissions /\ b.payment[n].day < end
  BY <1>1 DEF PaysIn
<1>3. [n \in DOMAIN b.payment |-> IF b.payment[n].kind \in Commissions /\ b.payment[n].day < end + 1 THEN b.payment[n].amount ELSE 0]
        = [n \in DOMAIN b.payment |-> IF b.payment[n].kind \in Commissions /\ b.payment[n].day < end THEN b.payment[n].amount ELSE 0]
  BY <1>2
<1> QED
  BY <1>3 DEF PaidBefore

LEMMA CloseWeekGood ==
  ASSUME SourcesTyped, source # <<>>, NEW b, Good(b), Due(b) = {}, Over(WeekEnd(b))
  PROVE  Good(CloseWeek(b)) /\ Due(CloseWeek(b)) = {}
<1>1. /\ Shape(b) /\ SlotsEmpty(b) /\ RoiKept(b) /\ CapsKept(b) /\ OwedKept(b) /\ WeeksAccrued(b)
      /\ PaysIn(b, b.closed) /\ \A e \in b.closed : ShareKept(b, e)
  BY DEF Good
<1>2. PICK end \in Nat : end = WeekEnd(b) /\ end <= Today /\ Today \in Nat /\ \A e \in b.closed : e < end
  BY <1>1, NextWeek, SourceFacts
<1>3. b.closed \subseteq 0..Today
  BY <1>1 DEF WeeksAccrued
<1>4. PICK c : c = Binary(Referrals(b, end), end)
  OBVIOUS
<1>5. Owes(c, b) /\ CapsKept(c)
  <2>1. Owes(Referrals(b, end), b)
    BY <1>1, ReferralsOwe
  <2>2. Shape(Referrals(b, end)) /\ OwedKept(Referrals(b, end)) /\ CapsKept(Referrals(b, end))
    BY <1>1, <2>1, CapsAsBefore DEF Owes
  <2>3. Owes(c, Referrals(b, end))
    BY <1>4, <2>2, BinaryOwes
  <2>4. Owes(c, b)
    BY <2>1, <2>3, OwesMore
  <2> QED
    BY <1>1, <2>4, CapsAsBefore
<1>6. Shape(c) /\ OwedKept(c) /\ c.roi = b.roi /\ c.rates = b.rates /\ c.paid = b.paid /\ c.payment = b.payment
      /\ c.closed = b.closed
  BY <1>5 DEF Owes
<1>7. /\ \A i : Credited(c, i) = Credited(b, i)
      /\ \A kinds, e : PaidBefore(c, kinds, e) = PaidBefore(b, kinds, e)
  BY <1>6 DEF Credited, PaidBefore
<1>8. PICK f : f = Paid(c, end)
  OBVIOUS
<1>9. PICK spent, n : spent <= Budget(c, end) /\ Pays(f, c, end, spent, n)
  BY <1>5, <1>6, <1>8, PaidPays
<1>10. /\ Shape(f) /\ CapsKept(f) /\ OwedKept(f) /\ spent \in Nat
       /\ f.roi = b.roi /\ f.rates = b.rates /\ f.closed = b.closed
       /\ \A i : Credited(f, i) = Credited(b, i)
       /\ \A i \in Slots \ Sources : f.paid[i] = b.paid[i]
       /\ \A d : PaidBefore(f, {"roi"}, d) = PaidBefore(b, {"roi"}, d)
       /\ \A d \in Nat : d <= end => PaidBefore(f, Commissions, d) = PaidBefore(b, Commissions, d)
       /\ PaidBefore(f, Commissions, end + 1) <= PaidBefore(b, Commissions, end + 1) + spent
       /\ \A k \in DOMAIN f.payment : \/ \E j \in DOMAIN b.payment : b.payment[j] = f.payment[k]
                                      \/ f.payment[k].kind \in Commissions /\ f.payment[k].day = end /\ spent > 0
  BY <1>6, <1>7, <1>9 DEF Pays
<1>11. PICK d : d = [f EXCEPT !.closed = @ \cup {end}]
  OBVIOUS
<1>12. d = CloseWeek(b)
  <2>1. f = Paid(Binary(Referrals(b, WeekEnd(b)), WeekEnd(b)), WeekEnd(b))
    BY <1>2, <1>4, <1>8
  <2> DEFINE g == Paid(Binary(Referrals(b, WeekEnd(b)), WeekEnd(b)), WeekEnd(b))
  <2>2. CloseWeek(b) = [g EXCEPT !.closed = @ \cup {WeekEnd(b)}]
    BY DEF CloseWeek
  <2>3. f = g
    BY <2>1
  <2> HIDE DEF g
  <2> QED
    BY <1>2, <1>11, <2>2, <2>3
<1>13. DOMAIN d = Fields /\ d.closed = b.closed \cup {end} /\ d.roi = f.roi /\ d.rates = f.rates /\ d.paid = f.paid
       /\ d.owed = f.owed /\ d.payment = f.payment /\ d.claimed = f.claimed
  <2>1. DOMAIN f = Fields
    BY <1>10 DEF Shape
  <2> QED
    BY <1>10, <1>11, <2>1 DEF Fields
<1>14. /\ \A i : Credited(d, i) = Credited(b, i) /\ Kept(d, i) = Kept(f, i)
       /\ \A kinds, e : PaidBefore(d, kinds, e) = PaidBefore(f, kinds, e)
  <2>1. d.payment = f.payment /\ \A i : Credited(f, i) = Credited(b, i)
    BY <1>10, <1>13
  <2>2. /\ \A i : Credited(d, i) = Credited(f, i) /\ Kept(d, i) = Kept(f, i)
        /\ \A kinds, e : PaidBefore(d, kinds, e) = PaidBefore(f, kinds, e)
    <3>1. d.payment = f.payment
      BY <2>1
    <3> QED
      BY <3>1 DEF Credited, Kept, PaidBefore
  <2> QED
    BY <2>1, <2>2
<1>15. Shape(d)
  BY <1>10, <1>13 DEF Shape
<1>16. SlotsEmpty(d)
  BY <1>1, <1>10, <1>13 DEF SlotsEmpty
<1>17. RoiKept(d)
  <2>1. d.roi = b.roi /\ d.rates = b.rates
    BY <1>10, <1>13
  <2> QED
    BY <1>1, <1>14, <2>1 DEF RoiKept
<1>18. CapsKept(d)
  BY <1>10, <1>13, <1>14 DEF CapsKept
<1>19. OwedKept(d)
  BY <1>10, <1>13 DEF OwedKept
<1>20. \A i \in Sources : b.roi[i].cut \in Nat /\ (Today <= b.roi[i].cut \/ Matures(i) <= b.roi[i].cut)
  <2>1. ASSUME NEW i \in Sources PROVE b.roi[i].cut \in Nat /\ (Today <= b.roi[i].cut \/ Matures(i) <= b.roi[i].cut)
    <3>1. i \in Slots /\ Matures(i) \in Nat
      BY SourceFacts
    <3>2. b.roi[i].cut \in Nat
      BY <1>1, <3>1 DEF Shape, RoiRec
    <3>3. ~(b.roi[i].cut < Least(Today, Matures(i)))
      BY DEF Due, Cutoff
    <3> QED
      BY <1>2, <3>1, <3>2, <3>3 DEF Least
  <2> QED
    BY <2>1
<1>21. WeeksAccrued(d)
  <2>1. d.closed \subseteq 0..Today
    BY <1>2, <1>3, <1>13
  <2>2. ASSUME NEW i \in Sources, NEW e \in d.closed PROVE e <= d.roi[i].cut \/ Matures(i) <= d.roi[i].cut
    <3>1. d.roi[i].cut = b.roi[i].cut
      BY <1>10, <1>13
    <3>2. e \in Nat /\ e <= Today
      BY <1>2, <2>1
    <3> QED
      BY <1>2, <1>20, <3>1, <3>2
  <2> QED
    BY <2>1, <2>2 DEF WeeksAccrued
<1>22. PaysIn(d, d.closed)
  BY <1>1, <1>10, <1>13 DEF PaysIn
<1>23. ASSUME NEW e \in b.closed PROVE ShareKept(d, e)
  <2>1. e \in Nat /\ e + 1 \in Nat /\ e + 1 <= end /\ e # end
    BY <1>2, <1>3, <1>23
  <2>2. PaidBefore(d, {"roi"}, e) = PaidBefore(b, {"roi"}, e)
        /\ PaidBefore(d, Commissions, e + 1) = PaidBefore(b, Commissions, e + 1)
    BY <1>10, <1>14, <2>1
  <2>3. (\E k \in DOMAIN d.payment : d.payment[k].kind \in Commissions /\ d.payment[k].day = e)
          => \E j \in DOMAIN b.payment : b.payment[j].kind \in Commissions /\ b.payment[j].day = e
    BY <1>10, <1>13, <2>1
  <2> QED
    BY <1>1, <2>2, <2>3 DEF ShareKept
<1>24. ShareKept(d, end)
  <2>1. SUFFICES ASSUME NEW k \in DOMAIN d.payment, d.payment[k].kind \in Commissions, d.payment[k].day = end
                 PROVE  PaidBefore(d, {"roi"}, end) + PaidBefore(d, Commissions, end + 1) <= Percent(Alpha, Inflows(end))
    BY DEF ShareKept
  <2>2. end \notin b.closed
    BY <1>2, <1>3
  <2>3. spent > 0
    <3>1. k \in DOMAIN f.payment /\ f.payment[k] = d.payment[k]
      BY <1>13
    <3>2. CASE \E j \in DOMAIN b.payment : b.payment[j] = f.payment[k]
      BY <1>1, <2>1, <2>2, <3>1, <3>2 DEF PaysIn
    <3> QED
      BY <1>10, <3>1, <3>2
  <2>4. PICK r \in Nat : r = PaidBefore(b, {"roi"}, end)
    BY <1>1, SumsAreNat
  <2>5. PICK q \in Nat : q = PaidBefore(b, Commissions, end)
    BY <1>1, SumsAreNat
  <2>6. PICK budget \in Nat : budget = Budget(c, end)
    BY <1>6, BudgetFacts
  <2>7. budget > 0 => r + q + budget = Percent(Alpha, Inflows(end))
    BY <1>6, <1>7, <2>4, <2>5, <2>6, BudgetFacts
  <2>8. PaidBefore(b, Commissions, end + 1) = q
    BY <1>1, <2>2, <2>5, NotYetPaid
  <2>9. PaidBefore(d, {"roi"}, end) = r /\ PaidBefore(d, Commissions, end + 1) <= q + spent
    BY <1>10, <1>14, <2>4, <2>8
  <2>10. PICK s \in Nat : s = PaidBefore(d, Commissions, end + 1)
    BY <1>15, SumsAreNat
  <2>11. r + s <= r + q + budget /\ budget > 0
    BY <1>9, <1>10, <2>3, <2>6, <2>9, <2>10
  <2> QED
    BY <2>7, <2>9, <2>10, <2>11
<1>25. Good(d)
  BY <1>1, <1>13, <1>15, <1>16, <1>17, <1>18, <1>19, <1>21, <1>22, <1>23, <1>24 DEF Good
<1>26. Due(d) = {}
  <2>1. d.roi = b.roi
    BY <1>10, <1>13
  <2> QED
    BY <2>1 DEF Due
<1> QED
  BY <1>12, <1>25, <1>26

\* The books of a run are the books it would have closed with in fewer weeks.
LEMMA ClosedEach ==
  ASSUME NEW b, NEW n \in Nat
  PROVE  \E after : Closings(after, b, n) /\ \A k \in 0..n : Closed(b, k) = after[k]
<1>1. PICK after : Closings(after, b, n) /\ Closed(b, n) = after[n]
  BY ClosedMeaning
<1>2. after[0] = b /\ \A k \in 1..n : after[k] = CloseWeek(after[k - 1])
  BY <1>1 DEF Closings
<1>4. \A k \in 0..n : Closed(b, k) = after[k]
  <2>1. ASSUME NEW k \in 0..n PROVE Closed(b, k) = after[k]
    <3>1. k \in Nat
      OBVIOUS
    <3>2. PICK before : Closings(before, b, k) /\ Closed(b, k) = before[k]
      BY <3>1, ClosedMeaning
    <3>3. before[0] = b /\ \A j \in 1..k : before[j] = CloseWeek(before[j - 1])
      BY <3>2 DEF Closings
    <3> DEFINE G == {j \in Nat : before[j] = after[j]}
    <3>4. 0 \in G
      BY <1>2, <3>3
    <3>5. ASSUME NEW j \in 1..k, j - 1 \in G PROVE j \in G
      <4>1. j \in 1..n /\ j \in Nat
        OBVIOUS
      <4>2. before[j - 1] = after[j - 1]
        BY <3>5
      <4> QED
        BY <1>2, <3>3, <4>1, <4>2
    <3>6. k \in G
      <4> HIDE DEF G
      <4>1. \A j \in 0..k : j \in G
        BY <3>1, <3>4, <3>5, UpTo
      <4> QED
        BY <3>1, <4>1
    <3> QED
      BY <3>2, <3>6
  <2> QED
    BY <2>1
<1> QED
  BY <1>1, <1>4

\* A run closes its weeks one after the other, each over when its turn comes.
LEMMA ClosedGood ==
  ASSUME SourcesTyped, source # <<>>, NEW b, Good(b), NEW n \in Nat, MayClose(b, n)
  PROVE  Good(Closed(b, n))
<1>1. PICK after : Closings(after, b, n) /\ \A k \in 0..n : Closed(b, k) = after[k]
  BY ClosedEach
<1>2. after[0] = b /\ \A k \in 1..n : after[k] = CloseWeek(after[k - 1])
  BY <1>1 DEF Closings
<1>3. /\ n > 0 => Due(b) = {}
      /\ \A k \in 0..(n - 1) : Over(WeekEnd(Closed(b, k)))
  BY DEF MayClose
<1>4. (\A k \in 0..n : Closed(b, k) = after[k]) /\ Closed(b, n) = after[n]
  <2>1. n \in 0..n
    OBVIOUS
  <2> QED
    BY <1>1, <2>1
<1> DEFINE H == {k \in Nat : Good(after[k]) /\ (n > 0 => Due(after[k]) = {})}
<1>5. 0 \in H
  BY <1>2, <1>3
<1>6. ASSUME NEW k \in 1..n, k - 1 \in H PROVE k \in H
  <2>1. k - 1 \in 0..(n - 1) /\ k - 1 \in 0..n /\ k \in Nat /\ n > 0
    OBVIOUS
  <2>2. Good(after[k - 1]) /\ Due(after[k - 1]) = {}
    BY <1>6, <2>1
  <2>3. Over(WeekEnd(after[k - 1]))
    <3>1. after[k - 1] = Closed(b, k - 1)
      BY <1>4, <2>1
    <3> QED
      BY <1>3, <2>1, <3>1
  <2>4. after[k] = CloseWeek(after[k - 1])
    BY <1>2
  <2> QED
    BY <2>1, <2>2, <2>3, <2>4, CloseWeekGood
<1>7. n \in H
  <2> HIDE DEF H
  <2>1. \A k \in 0..n : k \in H
    BY <1>5, <1>6, UpTo
  <2> QED
    BY <2>1
<1> QED
  BY <1>4, <1>7

-----------------------------------------------------------------------------
(* The steps of the engine.                                                *)

ManualTyped ==
  /\ DOMAIN manual = Operations
  /\ \A k \in Operations : DOMAIN manual[k] = {"member", "seen", "source"} /\ manual[k].member \in Nat

EngineInv == SourcesTyped /\ ManualTyped /\ Good(book)

\* A book stays good while nobody enters and the days pass.
LEMMA GoodStays ==
  ASSUME NEW c, Good(c), book' = c, source' = source, Today \in Nat, Today' \in Nat, Today <= Today'
  PROVE  Good(book)'
<1>1. /\ Shape(c) /\ SlotsEmpty(c) /\ RoiKept(c) /\ CapsKept(c) /\ OwedKept(c) /\ WeeksAccrued(c)
      /\ PaysIn(c, c.closed) /\ \A end \in c.closed : ShareKept(c, end)
  BY DEF Good
<1>2. Sources' = Sources
  BY DEF Sources
<1>3. Shape(book)'
  <2>1. OwedRec' = OwedRec /\ PayRec' = PayRec
    BY <1>2 DEF OwedRec, PayRec
  <2> QED
    BY <1>1, <2>1 DEF Shape
<1>4. SlotsEmpty(book)'
  BY <1>1, <1>2 DEF SlotsEmpty
<1>5. \A i : Credited(book, i)' = Credited(c, i) /\ Kept(book, i)' = Kept(c, i)
  BY DEF Credited, Kept
<1>6. \A i : Matures(i)' = Matures(i) /\ Cap(i)' = Cap(i)
  BY DEF Matures, Cap
<1>7. RoiKept(book)'
  BY <1>1, <1>2, <1>5, <1>6 DEF RoiKept
<1>8. CapsKept(book)'
  BY <1>1, <1>2, <1>5, <1>6 DEF CapsKept
<1>9. OwedKept(book)'
  BY <1>1 DEF OwedKept
<1>10. WeeksAccrued(book)'
  <2>1. c.closed \subseteq 0..Today'
    BY <1>1 DEF WeeksAccrued
  <2> QED
    BY <1>1, <1>2, <1>6, <2>1 DEF WeeksAccrued
<1>11. PaysIn(book, book.closed)'
  BY <1>1 DEF PaysIn
<1>12. ASSUME NEW end \in c.closed PROVE ShareKept(book, end)'
  <2>1. \A kinds, d : PaidBefore(book, kinds, d)' = PaidBefore(c, kinds, d)
    BY DEF PaidBefore
  <2>2. Inflows(end)' = Inflows(end)
    BY <1>2 DEF Inflows, Before
  <2>3. ShareKept(c, end)
    BY <1>1, <1>12
  <2> QED
    BY <2>1, <2>2, <2>3 DEF ShareKept
<1> QED
  BY <1>3, <1>4, <1>7, <1>8, <1>9, <1>10, <1>11, <1>12 DEF Good

\* Nothing was paid for a membership that is not there.
LEMMA NothingPaid ==
  ASSUME NEW b, Shape(b), NEW i, i \notin Sources
  PROVE  Credited(b, i) = 0 /\ Kept(b, i) = 0
<1>1. b.payment \in Seq(PayRec)
  BY DEF Shape
<1>2. \A n \in DOMAIN b.payment : b.payment[n].pkg # i
  <2>1. \A n \in DOMAIN b.payment : b.payment[n] \in PayRec
    BY <1>1
  <2> QED
    BY <2>1 DEF PayRec
<1>3. IsFiniteSet(DOMAIN b.payment)
  <2>1. PICK n \in Nat : DOMAIN b.payment = 1..n
    BY <1>1
  <2>2. 1 \in Int /\ n \in Int
    OBVIOUS
  <2> QED
    BY <2>1, <2>2, FS_Interval
<1>4. Credited(b, i) = 0
  <2> DEFINE f == [n \in DOMAIN b.payment |->
                    IF b.payment[n].kind = "roi" /\ b.payment[n].pkg = i THEN b.payment[n].amount ELSE 0]
  <2>1. DOMAIN f = DOMAIN b.payment /\ \A n \in DOMAIN b.payment : f[n] = 0
    BY <1>2
  <2>2. Credited(b, i) = SumFunctionOnSet(f, DOMAIN b.payment)
    BY <2>1 DEF Credited, Total
  <2> HIDE DEF f
  <2> QED
    BY <1>3, <2>1, <2>2, SumZero
<1>5. Kept(b, i) = 0
  <2> DEFINE f == [n \in DOMAIN b.payment |->
                    IF ConsumesCap(b.payment[n].kind) /\ b.payment[n].pkg = i THEN b.payment[n].amount ELSE 0]
  <2>1. DOMAIN f = DOMAIN b.payment /\ \A n \in DOMAIN b.payment : f[n] = 0
    BY <1>2
  <2>2. Kept(b, i) = SumFunctionOnSet(f, DOMAIN b.payment)
    BY <2>1 DEF Kept, Total
  <2> HIDE DEF f
  <2> QED
    BY <1>3, <2>1, <2>2, SumZero
<1> QED
  BY <1>4, <1>5

LEMMA SeqWider ==
  ASSUME NEW S, NEW T, S \subseteq T, NEW s \in Seq(S)
  PROVE  s \in Seq(T)
<1>1. PICK n \in Nat : s \in [1..n -> S]
  BY SeqDef
<1>2. s \in [1..n -> T]
  BY <1>1
<1> QED
  BY <1>2, SeqDef

\* A membership enters with nothing accrued, on a day no week closed has reached.
LEMMA EntersGood ==
  ASSUME SourcesTyped, Good(book), NEW s \in SourceRec, s.day = Today, Enters(s), clock' = clock
  PROVE  SourcesTyped' /\ Good(book)'
<1>1. PICK n \in Nat : n = Len(source) /\ Sources = 1..n /\ Sources \subseteq Slots
  BY SourceFacts
<1>2. /\ n < MaxSources /\ source' = Append(source, s)
      /\ book' = [book EXCEPT !.roi[n + 1].cut = s.day]
  BY <1>1 DEF Enters
<1>3. PICK b : b = book
  OBVIOUS
<1>4. /\ Shape(b) /\ SlotsEmpty(b) /\ RoiKept(b) /\ CapsKept(b) /\ OwedKept(b) /\ WeeksAccrued(b)
      /\ PaysIn(b, b.closed) /\ \A end \in b.closed : ShareKept(b, end)
  BY <1>3 DEF Good
<1>5. source \in Seq(SourceRec) /\ MaxSources \in Nat /\ Today \in Nat
  BY SourceFacts, EngineAssumption DEF SourcesTyped
<1>6. Sources' = 1..(n + 1)
  BY <1>1, <1>2, <1>5 DEF Sources
<1>7. /\ n + 1 \in Sources' /\ n + 1 \notin Sources /\ n + 1 \in Slots /\ source'[n + 1] = s
      /\ \A i \in Sources : i \in Sources' /\ i # n + 1 /\ source'[i] = source[i]
      /\ \A i \in Sources' : i \in Sources \/ i = n + 1
  BY <1>1, <1>2, <1>5, <1>6 DEF Slots
<1>8. Today' = Today
  BY DEF Today
<1>9. SourcesTyped'
  <2>1. source' \in Seq(SourceRec) /\ Len(source') <= MaxSources
    BY <1>1, <1>2, <1>5
  <2>2. SourceRec' = SourceRec
    BY DEF SourceRec
  <2>3. \A i \in Sources' : source'[i].day <= Today
    BY <1>5, <1>7 DEF SourcesTyped
  <2>4. clock' \in Nat
    BY DEF SourcesTyped
  <2> QED
    BY <1>8, <2>1, <2>2, <2>3, <2>4 DEF SourcesTyped
<1>10. s.day \in Nat /\ s.gross \in Nat
  BY DEF SourceRec
<1>11. PICK c : c = book'
  OBVIOUS
<1>12. DOMAIN b = Fields /\ b.roi \in [Slots -> RoiRec]
  BY <1>4 DEF Shape
<1>13. PICK row : row = [b.roi[n + 1] EXCEPT !.cut = s.day]
  OBVIOUS
<1>14. /\ DOMAIN c = Fields /\ c.roi = [b.roi EXCEPT ![n + 1] = row] /\ c.rates = b.rates /\ c.paid = b.paid
       /\ c.owed = b.owed /\ c.payment = b.payment /\ c.claimed = b.claimed /\ c.closed = b.closed
  BY <1>2, <1>3, <1>11, <1>12, <1>13 DEF Fields
<1>15. /\ b.roi[n + 1] = [cut |-> 0, numerator |-> 0, claimed |-> 0, excluded |-> 0]
       /\ b.rates[n + 1] = <<>> /\ b.paid[n + 1] = 0
  BY <1>4, <1>7 DEF SlotsEmpty
<1>16. row = [cut |-> s.day, numerator |-> 0, claimed |-> 0, excluded |-> 0]
  BY <1>13, <1>15
<1>17. c.roi[n + 1] = row /\ \A i \in Slots : i # n + 1 => c.roi[i] = b.roi[i]
  BY <1>7, <1>12, <1>14
<1>18. Shape(book)'
  <2>1. row \in RoiRec
    BY <1>10, <1>16 DEF RoiRec
  <2>2. c.roi \in [Slots -> RoiRec]
    BY <1>7, <1>12, <1>14, <2>1
  <2>3. OwedRec \subseteq OwedRec' /\ PayRec \subseteq PayRec'
    BY <1>7 DEF OwedRec, PayRec
  <2>4. b.owed \in Seq(OwedRec) /\ b.payment \in Seq(PayRec)
    BY <1>4 DEF Shape
  <2>5. b.owed \in Seq(OwedRec') /\ b.payment \in Seq(PayRec')
    BY <2>3, <2>4, SeqWider
  <2>6. b.rates \in [Slots -> Seq(Nat)] /\ b.paid \in [Slots -> Nat] /\ b.claimed \in [Members -> Nat]
    BY <1>4 DEF Shape
  <2> QED
    BY <1>11, <1>14, <2>2, <2>5, <2>6 DEF Shape
<1>19. SlotsEmpty(book)'
  <2>1. ASSUME NEW i \in Slots, i \notin Sources'
        PROVE  /\ c.rates[i] = <<>> /\ c.paid[i] = 0
               /\ c.roi[i] = [cut |-> 0, numerator |-> 0, claimed |-> 0, excluded |-> 0]
    <3>1. i \in Slots \ Sources /\ i # n + 1
      BY <1>7, <2>1
    <3> QED
      BY <1>4, <1>14, <1>17, <3>1 DEF SlotsEmpty
  <2> QED
    BY <1>11, <2>1 DEF SlotsEmpty
<1>20. \A i : Credited(book, i)' = Credited(b, i) /\ Kept(book, i)' = Kept(b, i)
  <2>1. book'.payment = b.payment
    BY <1>11, <1>14
  <2> QED
    BY <2>1 DEF Credited, Kept
<1>21. Credited(b, n + 1) = 0 /\ Kept(b, n + 1) = 0
  BY <1>4, <1>7, NothingPaid
<1>22. \A i \in Sources : Matures(i)' = Matures(i) /\ Cap(i)' = Cap(i)
  BY <1>7 DEF Matures, Cap
<1>23. Matures(n + 1)' = s.day + Term /\ Cap(n + 1)' = Percent(CapFactor, s.gross) /\ Term \in Nat
  BY <1>7, EngineAssumption DEF Matures, Cap
<1>24. RoiKept(book)'
  <2>1. ASSUME NEW i \in Sources
        PROVE  /\ c.roi[i].cut = source'[i].day + Len(c.rates[i]) /\ c.roi[i].cut <= Matures(i)
               /\ c.roi[i].numerator = source'[i].gross * Total(c.rates[i])
               /\ c.roi[i].claimed = c.roi[i].numerator \div (100 * Year)
               /\ c.roi[i].claimed = Credited(b, i) + c.roi[i].excluded
    <3>1. c.roi[i] = b.roi[i] /\ c.rates[i] = b.rates[i] /\ source'[i] = source[i]
      BY <1>1, <1>7, <1>14, <1>17
    <3> QED
      BY <1>4, <3>1 DEF RoiKept
  <2>2. /\ c.roi[n + 1].cut = s.day + Len(c.rates[n + 1]) /\ c.roi[n + 1].cut <= s.day + Term
        /\ c.roi[n + 1].numerator = s.gross * Total(c.rates[n + 1])
        /\ c.roi[n + 1].claimed = c.roi[n + 1].numerator \div (100 * Year)
        /\ c.roi[n + 1].claimed = Credited(b, n + 1) + c.roi[n + 1].excluded
    <3>1. c.roi[n + 1].cut = s.day /\ c.roi[n + 1].numerator = 0 /\ c.roi[n + 1].claimed = 0 /\ c.roi[n + 1].excluded = 0
      BY <1>16, <1>17
    <3>2. c.rates[n + 1] = <<>> /\ Len(<<>>) = 0
      BY <1>14, <1>15
    <3>3. Total(<<>>) = 0
      <4>1. DOMAIN <<>> = {}
        OBVIOUS
      <4> QED
        BY <4>1, SumEmpty DEF Total
    <3>4. 0 \div (100 * Year) = 0
      <4>1. Year \in Nat \ {0}
        BY EngineAssumption
      <4> QED
        BY <4>1
    <3>5. s.gross * 0 = 0
      BY <1>10
    <3> QED
      BY <1>10, <1>21, <1>23, <3>1, <3>2, <3>3, <3>4, <3>5
  <2>3. ASSUME NEW i \in Sources'
        PROVE  /\ c.roi[i].cut = source'[i].day + Len(c.rates[i]) /\ c.roi[i].cut <= Matures(i)'
               /\ c.roi[i].numerator = source'[i].gross * Total(c.rates[i])
               /\ c.roi[i].claimed = c.roi[i].numerator \div (100 * Year)
               /\ c.roi[i].claimed = Credited(b, i) + c.roi[i].excluded
    <3>1. CASE i \in Sources
      BY <1>22, <2>1, <3>1
    <3>2. CASE i = n + 1
      BY <1>7, <1>23, <2>2, <3>2
    <3> QED
      BY <1>7, <2>3, <3>1, <3>2
  <2> QED
    BY <1>11, <1>20, <2>3 DEF RoiKept
<1>25. CapsKept(book)'
  <2>1. ASSUME NEW i \in Sources' PROVE Kept(b, i) = c.paid[i] /\ c.paid[i] <= Cap(i)'
    <3>1. CASE i \in Sources
      BY <1>4, <1>14, <1>22, <3>1 DEF CapsKept
    <3>2. CASE i = n + 1
      <4>1. Percent(CapFactor, s.gross) \in Nat
        BY <1>10, PercentNat, EngineAssumption
      <4>2. Kept(b, n + 1) = 0 /\ c.paid[n + 1] = 0
        BY <1>14, <1>15, <1>21
      <4> QED
        BY <1>23, <3>2, <4>1, <4>2
    <3> QED
      BY <1>7, <2>1, <3>1, <3>2
  <2> QED
    BY <1>11, <1>20, <2>1 DEF CapsKept
<1>26. OwedKept(book)'
  BY <1>4, <1>11, <1>14 DEF OwedKept
<1>27. WeeksAccrued(book)'
  <2>1. c.closed \subseteq 0..Today /\ c.closed = b.closed
    BY <1>4, <1>14 DEF WeeksAccrued
  <2>2. ASSUME NEW i \in Sources', NEW end \in b.closed PROVE end <= c.roi[i].cut \/ Matures(i)' <= c.roi[i].cut
    <3>1. CASE i \in Sources
      BY <1>1, <1>4, <1>7, <1>17, <1>22, <3>1 DEF WeeksAccrued
    <3>2. CASE i = n + 1
      <4>1. end <= Today
        BY <1>5, <2>1
      <4>2. c.roi[n + 1].cut = s.day
        BY <1>16, <1>17
      <4> QED
        BY <3>2, <4>1, <4>2
    <3> QED
      BY <1>7, <2>2, <3>1, <3>2
  <2> QED
    BY <1>8, <1>11, <2>1, <2>2 DEF WeeksAccrued
<1>28. PaysIn(book, book.closed)'
  BY <1>4, <1>11, <1>14 DEF PaysIn
<1>29. ASSUME NEW end \in b.closed PROVE ShareKept(book, end)'
  <2>1. \A kinds, d : PaidBefore(book, kinds, d)' = PaidBefore(b, kinds, d)
    <3>1. book'.payment = b.payment
      BY <1>11, <1>14
    <3> QED
      BY <3>1 DEF PaidBefore
  <2>2. Inflows(end)' = Inflows(end)
    <3>1. PICK f : f = [i \in Sources |-> IF Before(i, end) THEN Net(source[i]) ELSE 0]
      OBVIOUS
    <3>2. PICK g : g = [i \in Sources' |-> IF Before(i, end)' THEN Net(source'[i]) ELSE 0]
      OBVIOUS
    <3>3. \A i \in 1..n : f[i] \in Int /\ g[i] = f[i]
      <4>1. ASSUME NEW i \in Sources PROVE f[i] \in Int /\ g[i] = f[i]
        <5>1. Net(source[i]) \in Nat
          BY NetNat
        <5>2. f[i] = IF source[i].day < end THEN Net(source[i]) ELSE 0
          BY <3>1 DEF Before
        <5>3. g[i] = IF source[i].day < end THEN Net(source[i]) ELSE 0
          BY <1>7, <3>2 DEF Before
        <5> QED
          BY <5>1, <5>2, <5>3
      <4> QED
        BY <1>1, <4>1
    <3>4. g[n + 1] = 0
      <4>1. ~(s.day < end)
        BY <1>4, <1>5, <1>29 DEF WeeksAccrued
      <4> QED
        BY <1>7, <3>2, <4>1 DEF Before
    <3>5. SumFunctionOnSet(g, 1..(n + 1)) = SumFunctionOnSet(f, 1..n) + g[n + 1] /\ SumFunctionOnSet(f, 1..n) \in Int
      <4>1. g[n + 1] \in Int
        BY <3>4
      <4> QED
        BY <3>3, <4>1, SumGrows
    <3>6. Inflows(end) = SumFunctionOnSet(f, 1..n)
      <4>1. DOMAIN f = 1..n
        BY <1>1, <3>1
      <4> QED
        BY <3>1, <4>1 DEF Inflows, Total
    <3>7. Inflows(end)' = SumFunctionOnSet(g, 1..(n + 1))
      <4>1. DOMAIN g = 1..(n + 1)
        BY <1>6, <3>2
      <4> QED
        BY <3>2, <4>1 DEF Inflows, Total
    <3> QED
      BY <3>4, <3>5, <3>6, <3>7
  <2>3. ShareKept(b, end)
    BY <1>4, <1>29
  <2>4. book'.payment = b.payment
    BY <1>11, <1>14
  <2> QED
    BY <2>1, <2>2, <2>3, <2>4 DEF ShareKept
<1>30. book'.closed = b.closed
  BY <1>11, <1>14
<1> QED
  BY <1>9, <1>18, <1>19, <1>24, <1>25, <1>26, <1>27, <1>28, <1>29, <1>30 DEF Good

LEMMA EngineStart == EngineInit => EngineInv
<1> SUFFICES ASSUME EngineInit PROVE EngineInv
  OBVIOUS
<1>1. source = <<>> /\ clock = 0 /\ manual = [k \in Operations |-> NoInstruction]
  BY DEF EngineInit
<1>2. Sources = {} /\ Len(source) = 0
  BY <1>1 DEF Sources
<1>3. Today = 0
  BY <1>1 DEF Today
<1>4. SourcesTyped
  <2>1. source \in Seq(SourceRec) /\ MaxSources \in Nat
    BY <1>1, EmptySeq, EngineAssumption
  <2> QED
    BY <1>1, <1>2, <2>1 DEF SourcesTyped
<1>5. ManualTyped
  <2>1. DOMAIN NoInstruction = {"member", "seen", "source"} /\ NoInstruction.member \in Nat
    BY DEF NoInstruction
  <2> QED
    BY <1>1, <2>1 DEF ManualTyped
<1>6. Good(book)
  <2>1. book = [roi |-> [i \in Slots |-> [cut |-> 0, numerator |-> 0, claimed |-> 0, excluded |-> 0]],
                rates |-> [i \in Slots |-> <<>>],
                paid |-> [i \in Slots |-> 0], capClosed |-> [i \in Slots |-> Never],
                owed |-> <<>>, payment |-> <<>>,
                claimed |-> [m \in Members |-> 0],
                prefix |-> [m \in Members |-> [L |-> <<>>, R |-> <<>>]],
                allocation |-> {}, closed |-> {}]
    BY DEF EngineInit
  <2>2. /\ DOMAIN book = Fields
        /\ book.roi = [i \in Slots |-> [cut |-> 0, numerator |-> 0, claimed |-> 0, excluded |-> 0]]
        /\ book.rates = [i \in Slots |-> <<>>] /\ book.paid = [i \in Slots |-> 0]
        /\ book.owed = <<>> /\ book.payment = <<>> /\ book.claimed = [m \in Members |-> 0] /\ book.closed = {}
    BY <2>1 DEF Fields
  <2>3. DOMAIN book.owed = {} /\ DOMAIN book.payment = {}
    BY <2>2
  <2>4. Shape(book)
    <3>1. book.owed \in Seq(OwedRec) /\ book.payment \in Seq(PayRec) /\ <<>> \in Seq(Nat)
      BY <2>2, EmptySeq
    <3>2. [cut |-> 0, numerator |-> 0, claimed |-> 0, excluded |-> 0] \in RoiRec
      BY DEF RoiRec
    <3>3. book.roi \in [Slots -> RoiRec] /\ book.rates \in [Slots -> Seq(Nat)]
      BY <2>2, <3>1, <3>2
    <3>4. book.paid \in [Slots -> Nat] /\ book.claimed \in [Members -> Nat]
      BY <2>2
    <3> QED
      BY <2>2, <3>1, <3>3, <3>4 DEF Shape
  <2>5. SlotsEmpty(book)
    BY <2>2 DEF SlotsEmpty
  <2>6. RoiKept(book) /\ CapsKept(book)
    BY <1>2 DEF RoiKept, CapsKept
  <2>7. OwedKept(book)
    BY <2>3 DEF OwedKept
  <2>8. WeeksAccrued(book)
    BY <1>2, <2>2 DEF WeeksAccrued
  <2>9. PaysIn(book, book.closed) /\ \A end \in book.closed : ShareKept(book, end)
    BY <2>2, <2>3 DEF PaysIn
  <2> QED
    BY <2>4, <2>5, <2>6, <2>7, <2>8, <2>9 DEF Good
<1> QED
  BY <1>4, <1>5, <1>6 DEF EngineInv

\* A step in which nobody enters, and which leaves the book as it was or closes it well.
LEMMA KeepsInv ==
  ASSUME EngineInv, NEW c, Good(c), book' = c, source' = source, clock' \in Nat, Today <= Today', ManualTyped'
  PROVE  EngineInv'
<1>1. SourcesTyped /\ Today \in Nat
  BY SourceFacts DEF EngineInv
<1>2. Today' \in Nat
  <2>1. PICK t \in Nat : t = clock'
    OBVIOUS
  <2>2. t \div 2 \in Nat
    BY QuotientOf
  <2>3. Today' = t \div 2
    BY <2>1 DEF Today
  <2> QED
    BY <2>2, <2>3
<1>3. Good(book)'
  BY <1>1, <1>2, GoodStays
<1>4. SourcesTyped'
  <2>1. SourceRec' = SourceRec /\ Sources' = Sources
    BY DEF SourceRec, Sources
  <2>2. \A i \in Sources : source[i].day \in Nat /\ source[i].day <= Today
    BY <1>1, SourceFacts
  <2>3. \A i \in Sources : source[i].day <= Today'
    BY <1>1, <1>2, <2>2
  <2> QED
    BY <1>1, <2>1, <2>3 DEF SourcesTyped
<1> QED
  BY <1>3, <1>4 DEF EngineInv

LEMMA ActivationTyped ==
  ASSUME SourcesTyped, NEW m \in Nat, NEW kind \in {"nowpayments", "manual"}, NEW item \in DOMAIN Catalog
  PROVE  Activation(m, kind, item) \in SourceRec /\ Activation(m, kind, item).day = Today
<1>1. Catalog[item].gross \in Nat /\ Catalog[item].pv \in Nat /\ Catalog[item].tier \in Nat
  BY EngineAssumption
<1>2. Today \in Nat
  BY SourceFacts
<1> QED
  BY <1>1, <1>2 DEF Activation, SourceRec

LEMMA EngineStep == EngineInv /\ [EngineNext]_engineVars => EngineInv'
<1> SUFFICES ASSUME EngineInv, [EngineNext]_engineVars PROVE EngineInv'
  OBVIOUS
<1>1. SourcesTyped /\ ManualTyped /\ Good(book) /\ clock \in Nat /\ Today \in Nat
  BY SourceFacts DEF EngineInv, SourcesTyped
<1>2. Members \subseteq Nat
  BY EngineAssumption
<1>3. ASSUME clock' = clock PROVE Today' = Today /\ clock' \in Nat /\ Today <= Today'
  BY <1>1, <1>3 DEF Today
<1>4. ASSUME manual' = manual PROVE ManualTyped'
  BY <1>1, <1>4 DEF ManualTyped
<1>5. ASSUME UNCHANGED <<source, manual, book, clock>> PROVE EngineInv'
  <2>1. PICK c : c = book
    OBVIOUS
  <2>2. Good(c) /\ book' = c
    BY <1>1, <1>5, <2>1
  <2> QED
    BY <1>3, <1>4, <1>5, <2>2, KeepsInv
<1>6. ASSUME NEW n \in 0..MaxAccruals, NEW w \in 0..MaxWeeks, Run(n, w) PROVE EngineInv'
  <2>1. n \in Nat /\ w \in Nat
    BY EngineAssumption
  <2>2. PICK b : b = Accrued(book, n)
    OBVIOUS
  <2>3. PICK c : c = Closed(b, w)
    OBVIOUS
  <2>4. source # <<>> /\ MayClose(b, w) /\ book' = c /\ UNCHANGED <<source, manual, clock>>
    BY <1>6, <2>2, <2>3 DEF Run
  <2>5. Good(b)
    BY <1>1, <2>1, <2>2, AccruedGood
  <2>6. Good(c)
    BY <1>1, <2>1, <2>3, <2>4, <2>5, ClosedGood
  <2> QED
    BY <1>3, <1>4, <2>4, <2>6, KeepsInv
<1>7. ASSUME NEW m \in Members, NEW item \in DOMAIN Catalog, ActivateNow(m, item) PROVE EngineInv'
  <2>1. PICK s : s = Activation(m, "nowpayments", item)
    OBVIOUS
  <2>2. s \in SourceRec /\ s.day = Today
    BY <1>1, <1>2, <2>1, ActivationTyped
  <2>3. Enters(s) /\ clock' = clock /\ manual' = manual
    BY <1>7, <2>1 DEF ActivateNow
  <2>4. SourcesTyped' /\ Good(book)'
    BY <1>1, <2>2, <2>3, EntersGood
  <2> QED
    BY <1>4, <2>3, <2>4 DEF EngineInv
<1>8. ASSUME NEW k \in Operations, Apply(k) PROVE EngineInv'
  <2>1. manual[k].member \in Nat /\ DOMAIN manual[k] = {"member", "seen", "source"}
    BY <1>1 DEF ManualTyped
  <2>2. PICK s : s = Activation(manual[k].member, "manual", "small")
    OBVIOUS
  <2>3. s \in SourceRec /\ s.day = Today
    <3>1. "small" \in DOMAIN Catalog
      BY EngineAssumption
    <3> QED
      BY <1>1, <2>1, <2>2, <3>1, ActivationTyped
  <2>4. Enters(s) /\ clock' = clock /\ manual' = [manual EXCEPT ![k].source = Len(source) + 1]
    BY <1>8, <2>2 DEF Apply
  <2>5. SourcesTyped' /\ Good(book)'
    BY <1>1, <2>3, <2>4, EntersGood
  <2>6. ManualTyped'
    BY <1>1, <2>1, <2>4 DEF ManualTyped
  <2> QED
    BY <2>5, <2>6 DEF EngineInv
<1>9. ASSUME NEW k \in Operations, NEW m \in Members, Preflight(k, m) PROVE EngineInv'
  <2>1. manual' = [manual EXCEPT ![k] = [member |-> m, seen |-> node[m], source |-> 0]]
        /\ UNCHANGED <<source, book, clock>>
    BY <1>9 DEF Preflight
  <2>2. ManualTyped'
    BY <1>1, <1>2, <2>1 DEF ManualTyped
  <2>3. PICK c : c = book
    OBVIOUS
  <2>4. Good(c) /\ book' = c
    BY <1>1, <2>1, <2>3
  <2> QED
    BY <1>3, <2>1, <2>2, <2>4, KeepsInv
<1>10. ASSUME Tick PROVE EngineInv'
  <2>1. clock' = clock + 1 /\ UNCHANGED <<source, manual, book>>
    BY <1>10 DEF Tick
  <2>2. clock' \in Nat /\ clock <= clock' /\ Today <= Today'
    <3>1. clock' \in Nat /\ clock <= clock'
      BY <1>1, <2>1
    <3>2. PICK t \in Nat : t = clock
      BY <1>1
    <3>3. t \div 2 <= (t + 1) \div 2
      <4>1. t + 1 \in Nat /\ t <= t + 1 /\ 2 \in Nat \ {0}
        OBVIOUS
      <4> QED
        BY <4>1, DivMonotone
    <3>4. Today = t \div 2 /\ Today' = (t + 1) \div 2
      BY <2>1, <3>2 DEF Today
    <3> QED
      BY <3>1, <3>3, <3>4
  <2>3. PICK c : c = book
    OBVIOUS
  <2>4. Good(c) /\ book' = c
    BY <1>1, <2>1, <2>3
  <2> QED
    BY <1>4, <2>1, <2>2, <2>4, KeepsInv
<1>11. CASE UNCHANGED engineVars
  BY <1>5, <1>11 DEF engineVars
<1>12. CASE EngineNext
  <2>1. ASSUME NEW m \in Members, Suspend(m) PROVE EngineInv'
    BY <1>5, <2>1 DEF Suspend
  <2>2. ASSUME NEW m \in Members, NEW p \in Members, NEW leg \in {"L", "R"}, Move(m, p, leg) PROVE EngineInv'
    BY <1>5, <2>2 DEF Move
  <2>3. ASSUME Risk PROVE EngineInv'
    BY <1>5, <2>3 DEF Risk
  <2> QED
    BY <1>6, <1>7, <1>8, <1>9, <1>10, <1>12, <2>1, <2>2, <2>3 DEF EngineNext
<1> QED
  BY <1>11, <1>12

\* RoiExact: a certificate earns each of its days once, and to date exactly its rate-days
\* rounded down once, for every schedule of runs, rates and lengths of year and certificate.
THEOREM CertificatesExact == EngineSpec => []RoiExact
<1>1. EngineInv => RoiExact
  <2> SUFFICES ASSUME EngineInv PROVE RoiExact
    OBVIOUS
  <2>1. RoiKept(book)
    BY DEF EngineInv, Good
  <2>2. ASSUME NEW i \in Sources
        PROVE  /\ book.roi[i].cut = source[i].day + Len(book.rates[i])
               /\ book.roi[i].cut <= Matures(i)
               /\ (source[i].gross * Total(book.rates[i])) \div (100 * Year) = Credited(book, i) + book.roi[i].excluded
    <3>1. /\ book.roi[i].cut = source[i].day + Len(book.rates[i]) /\ book.roi[i].cut <= Matures(i)
          /\ book.roi[i].numerator = source[i].gross * Total(book.rates[i])
          /\ book.roi[i].claimed = book.roi[i].numerator \div (100 * Year)
          /\ book.roi[i].claimed = Credited(book, i) + book.roi[i].excluded
      BY <2>1 DEF RoiKept
    <3>2. book.roi[i].claimed = (source[i].gross * Total(book.rates[i])) \div (100 * Year)
      BY <3>1
    <3> QED
      BY <3>1, <3>2
  <2> QED
    BY <2>2 DEF RoiExact, Credited
<1> QED
  BY EngineStart, EngineStep, <1>1, PTL DEF EngineSpec

\* PaidWithinLimits: no package earns more than its cap, no obligation is paid beyond its
\* worth, and a week that paid commissions is within the treasury's share of the inflows,
\* for every tree, catalogue and order of the runs.
THEOREM EngineStaysWithinLimits == EngineSpec => []PaidWithinLimits
<1>1. EngineInv => PaidWithinLimits
  <2> SUFFICES ASSUME EngineInv PROVE PaidWithinLimits
    OBVIOUS
  <2>1. CapsKept(book) /\ OwedKept(book) /\ \A end \in book.closed : ShareKept(book, end)
    BY DEF EngineInv, Good
  <2>2. \A i \in Sources : Kept(book, i) = book.paid[i] /\ Kept(book, i) <= Cap(i)
    BY <2>1 DEF CapsKept
  <2>3. \A n \in DOMAIN book.owed : Open(book.owed[n]) >= 0
    BY <2>1 DEF OwedKept
  <2>4. \A end \in book.closed :
          (\E n \in DOMAIN book.payment : book.payment[n].kind \in Commissions /\ book.payment[n].day = end)
            => PaidBefore(book, {"roi"}, end) + PaidBefore(book, Commissions, end + 1) <= Percent(Alpha, Inflows(end))
    BY <2>1 DEF ShareKept
  <2> QED
    BY <2>2, <2>3, <2>4 DEF PaidWithinLimits, Kept
<1> QED
  BY EngineStart, EngineStep, <1>1, PTL DEF EngineSpec

-----------------------------------------------------------------------------
(* Who is above a member.                                                  *)

\* The first K affiliates above m.
Climbs(h, m, K) ==
  h[0] = m /\ \A k \in 1..K : h[k] = IF h[k - 1] = Root THEN Root ELSE node[h[k - 1]].parent

LEMMA AboveMeaning ==
  ASSUME NEW m, NEW n \in Nat
  PROVE  \E h : Climbs(h, m, n) /\ Above(m, n) = h[n]
<1> DEFINE Step(x, k) == IF k = 0 \/ x = Root THEN IF k = 0 THEN m ELSE Root ELSE node[x].parent
           Is(h, K) == h = [k \in 0..K |-> Step(h[k - 1], k)]
           G == {K \in Nat : \E h : Is(h, K)}
           up == CHOOSE h : Is(h, n)
<1>1. Above(m, n) = up[n]
  BY DEF Above
<1>a. \A x, y : Step(x, 0) = Step(y, 0)
  OBVIOUS
<1>b. n \in Nat
  OBVIOUS
<1> HIDE DEF Step
<1>2. 0 \in G
  <2>1. Is([k \in 0..0 |-> Step(0, 0)], 0)
    BY <1>a
  <2> QED
    BY <2>1
<1>3. ASSUME NEW K \in 1..n, K - 1 \in G PROVE K \in G
  <2>1. PICK h : Is(h, K - 1)
    BY <1>3
  <2> DEFINE g == [k \in 0..K |-> IF k < K THEN h[k] ELSE Step(h[K - 1], K)]
  <2>2. K \in Nat /\ \A k \in 0..(K - 1) : h[k] = Step(h[k - 1], k)
    BY <1>b, <2>1
  <2>3. ASSUME NEW k \in 0..K PROVE g[k] = Step(g[k - 1], k)
    <3>1. CASE k < K
      <4>1. k \in 0..(K - 1) /\ g[k] = h[k]
        BY <2>2, <3>1
      <4>2. k # 0 => g[k - 1] = h[k - 1]
        BY <2>2, <3>1
      <4> HIDE DEF g
      <4> QED
        BY <1>a, <2>2, <4>1, <4>2
    <3>2. CASE k = K
      <4>1. g[K] = Step(h[K - 1], K) /\ g[K - 1] = h[K - 1]
        BY <1>b, <2>2
      <4> HIDE DEF g
      <4> QED
        BY <3>2, <4>1
    <3> QED
      BY <2>2, <2>3, <3>1, <3>2
  <2>4. g = [k \in 0..K |-> Step(g[k - 1], k)]
    <3>1. g = [k \in 0..K |-> g[k]]
      OBVIOUS
    <3> HIDE DEF g
    <3> QED
      BY <2>3, <3>1
  <2> HIDE DEF g
  <2> QED
    BY <2>2, <2>4
<1>4. n \in G
  <2> HIDE DEF G
  <2>1. \A k \in 0..n : k \in G
    BY <1>2, <1>3, UpTo
  <2> QED
    BY <2>1
<1>5. Is(up, n)
  BY <1>4
<1> HIDE DEF up
<1>6. \A k \in 0..n : up[k] = Step(up[k - 1], k)
  BY <1>5
<1>7. up[0] = m /\ \A k \in 1..n : up[k] = IF up[k - 1] = Root THEN Root ELSE node[up[k - 1]].parent
  <2>1. 0 \in 0..n /\ \A k \in 1..n : k \in 0..n /\ k # 0
    OBVIOUS
  <2> QED
    BY <1>6, <2>1 DEF Step
<1> QED
  BY <1>1, <1>7 DEF Climbs

\* One step up.
LEMMA AboveStep ==
  ASSUME NEW m
  PROVE  /\ Above(m, 0) = m
         /\ \A k \in Nat : Above(m, k + 1) = IF Above(m, k) = Root THEN Root ELSE node[Above(m, k)].parent
<1>1. Above(m, 0) = m
  BY AboveMeaning DEF Climbs
<1>2. ASSUME NEW k \in Nat
      PROVE  Above(m, k + 1) = IF Above(m, k) = Root THEN Root ELSE node[Above(m, k)].parent
  <2>1. PICK g : Climbs(g, m, k) /\ Above(m, k) = g[k]
    BY AboveMeaning
  <2>2. PICK h : Climbs(h, m, k + 1) /\ Above(m, k + 1) = h[k + 1]
    BY AboveMeaning
  <2>3. /\ g[0] = m /\ h[0] = m
        /\ \A j \in 1..k : g[j] = IF g[j - 1] = Root THEN Root ELSE node[g[j - 1]].parent
        /\ \A j \in 1..(k + 1) : h[j] = IF h[j - 1] = Root THEN Root ELSE node[h[j - 1]].parent
    BY <2>1, <2>2 DEF Climbs
  <2> DEFINE G == {j \in Nat : g[j] = h[j]}
  <2>4. 0 \in G
    BY <2>3
  <2>5. ASSUME NEW j \in 1..k, j - 1 \in G PROVE j \in G
    <3>1. j \in Nat /\ j \in 1..(k + 1) /\ g[j - 1] = h[j - 1]
      BY <2>5
    <3> QED
      BY <2>3, <3>1
  <2>6. k \in G
    <3> HIDE DEF G
    <3>1. \A j \in 0..k : j \in G
      BY <2>4, <2>5, UpTo
    <3> QED
      BY <3>1
  <2>7. h[k + 1] = IF h[k] = Root THEN Root ELSE node[h[k]].parent
    <3>1. k + 1 \in 1..(k + 1) /\ (k + 1) - 1 = k
      OBVIOUS
    <3> QED
      BY <2>3, <3>1
  <2> QED
    BY <2>1, <2>2, <2>6, <2>7
<1> QED
  BY <1>1, <1>2

\* Beyond the root there is the root.
LEMMA RootStays ==
  ASSUME NEW m, NEW j \in Nat, Above(m, j) = Root
  PROVE  \A k \in Nat : j <= k => Above(m, k) = Root
<1> DEFINE G == {i \in Nat : Above(m, j + i) = Root}
<1>1. 0 \in G
  <2>1. j + 0 = j
    OBVIOUS
  <2> QED
    BY <2>1
<1>2. ASSUME NEW k \in Nat, j <= k PROVE Above(m, k) = Root
  <2>1. PICK n \in Nat : n = k - j
    BY <1>2
  <2>2. ASSUME NEW i \in 1..n, i - 1 \in G PROVE i \in G
    <3>1. PICK k1 \in Nat : k1 = j + (i - 1) /\ k1 + 1 = j + i /\ i \in Nat
      <4>1. j + (i - 1) \in Nat /\ (j + (i - 1)) + 1 = j + i /\ i \in Nat
        OBVIOUS
      <4> QED
        BY <4>1
    <3>2. Above(m, k1) = Root
      BY <2>2, <3>1
    <3>3. Above(m, k1 + 1) = Root
      BY <3>2, AboveStep
    <3>4. Above(m, j + i) = Root
      BY <3>1, <3>3, Zenon
    <3> QED
      BY <3>1, <3>4
  <2>3. n \in G
    <3> HIDE DEF G
    <3>1. \A i \in 0..n : i \in G
      BY <1>1, <2>2, UpTo
    <3> QED
      BY <3>1
  <2>4. j + n = k
    BY <2>1
  <2> QED
    BY <2>3, <2>4
<1> QED
  BY <1>2

\* The affiliates hang from the root.
Grows(up) ==
  /\ \A m \in Members \ {Root} : up[m].parent \in Members
  /\ \A S \in SUBSET (Members \ {Root}) : S # {} => \E m \in S : up[m].parent \notin S

\* Between two places on the way up nobody is met twice.
LEMMA NoWayBack ==
  ASSUME Grows(node), NEW d, NEW j \in Nat, NEW k \in Nat, j < k, Above(d, j) \in Members,
         Above(d, k) = Above(d, j)
  PROVE  Above(d, j) = Root
<1> SUFFICES ASSUME Above(d, j) # Root PROVE FALSE
  OBVIOUS
<1>1. PICK n \in Nat : k = j + n /\ n > 0
  <2>1. k - j \in Nat /\ k = j + (k - j) /\ k - j > 0
    OBVIOUS
  <2> QED
    BY <2>1
<1>2. \A i \in 0..n : Above(d, j + i) # Root
  <2>1. Above(d, k) # Root
    OBVIOUS
  <2>2. \A i \in 0..n : j + i \in Nat /\ j + i <= k
    BY <1>1
  <2> QED
    BY <2>1, <2>2, RootStays
<1> DEFINE G == {i \in Nat : Above(d, j + i) \in Members}
<1>3. 0 \in G
  <2>1. j + 0 = j
    OBVIOUS
  <2> QED
    BY <2>1
<1>4. ASSUME NEW i \in 1..n
      PROVE  Above(d, j + i) = node[Above(d, j + (i - 1))].parent
  <2>1. PICK k1 \in Nat : k1 = j + (i - 1) /\ k1 + 1 = j + i /\ i - 1 \in 0..n
    <3>1. j + (i - 1) \in Nat /\ (j + (i - 1)) + 1 = j + i /\ i - 1 \in 0..n
      OBVIOUS
    <3> QED
      BY <3>1
  <2>2. Above(d, k1) # Root
    BY <1>2, <2>1
  <2>3. Above(d, k1 + 1) = node[Above(d, k1)].parent
    BY <2>2, AboveStep
  <2> QED
    BY <2>1, <2>3, Zenon
<1>5. ASSUME NEW i \in 1..n, i - 1 \in G PROVE i \in G
  <2>1. i - 1 \in 0..n /\ i \in Nat
    OBVIOUS
  <2>2. Above(d, j + (i - 1)) \in Members \ {Root}
    BY <1>2, <1>5, <2>1
  <2> QED
    BY <1>4, <2>1, <2>2 DEF Grows
<1>6. \A i \in 0..n : Above(d, j + i) \in Members
  <2> HIDE DEF G
  <2>1. \A i \in 0..n : i \in G
    BY <1>3, <1>5, UpTo
  <2> QED
    BY <2>1 DEF G
<1> DEFINE S == {Above(d, j + i) : i \in 1..n}
<1>7. S \in SUBSET (Members \ {Root}) /\ S # {}
  <2>1. \A i \in 1..n : i \in 0..n
    OBVIOUS
  <2>2. n \in 1..n
    BY <1>1
  <2> QED
    BY <1>2, <1>6, <2>1, <2>2
<1>8. ASSUME NEW i \in 1..n PROVE node[Above(d, j + i)].parent \in S
  <2>1. CASE i < n
    <3>1. i + 1 \in 1..n /\ (i + 1) - 1 = i
      BY <2>1
    <3>2. node[Above(d, j + i)].parent = Above(d, j + (i + 1))
      BY <1>4, <3>1
    <3> QED
      BY <3>1, <3>2
  <2>2. CASE i = n
    <3>1. Above(d, j + n) = Above(d, j + 0)
      <4>1. j + n = k /\ j + 0 = j
        BY <1>1
      <4> QED
        BY <4>1
    <3>2. 1 \in 1..n /\ 1 - 1 = 0
      BY <1>1
    <3>3. node[Above(d, j + 0)].parent = Above(d, j + 1)
      BY <1>4, <3>2
    <3> QED
      BY <2>2, <3>1, <3>2, <3>3
  <2> QED
    BY <2>1, <2>2
<1>9. \A m \in S : node[m].parent \in S
  BY <1>8
<1> HIDE DEF S
<1> QED
  BY <1>7, <1>9 DEF Grows

\* What a member brings comes down one leg.
LEMMA OneLeg ==
  ASSUME Grows(node), NEW i, NEW m \in Members, Feeds(i, m, "L"), Feeds(i, m, "R")
  PROVE  FALSE
<1>1. PICK d : d = source[i].member
  OBVIOUS
<1>0. Depth \in Nat
  BY EngineAssumption
<1>2. PICK j \in 0..(Depth - 1) : LET n == Above(d, j) IN n # Root /\ node[n].parent = m /\ node[n].leg = "L"
  BY <1>1 DEF Feeds
<1>3. PICK k \in 0..(Depth - 1) : LET n == Above(d, k) IN n # Root /\ node[n].parent = m /\ node[n].leg = "R"
  BY <1>1 DEF Feeds
<1>4. j \in Nat /\ k \in Nat /\ j + 1 \in Nat /\ k + 1 \in Nat
  BY <1>0
<1>5. Above(d, j + 1) = m /\ Above(d, k + 1) = m
  BY <1>2, <1>3, <1>4, AboveStep
<1>6. CASE j = k
  BY <1>2, <1>3, <1>6
<1>7. CASE j < k
  <2>1. m = Root
    BY <1>4, <1>5, <1>7, NoWayBack
  <2>2. Above(d, k) = Root
    BY <1>4, <1>5, <1>7, <2>1, RootStays
  <2> QED
    BY <1>3, <2>2
<1>8. CASE k < j
  <2>1. m = Root
    BY <1>4, <1>5, <1>8, NoWayBack
  <2>2. Above(d, j) = Root
    BY <1>4, <1>5, <1>8, <2>1, RootStays
  <2> QED
    BY <1>2, <2>2
<1> QED
  BY <1>4, <1>6, <1>7, <1>8

\* A member that is moved below somebody who is not below it leaves a tree.
LEMMA MoveGrows ==
  ASSUME Grows(node), NEW m \in Members, NEW p \in Members, NEW leg, Move(m, p, leg),
         DOMAIN node = Members, DOMAIN node[m] = {"parent", "leg", "status"}
  PROVE  Grows(node')
<1>1. /\ m # Root /\ \A k \in 0..Cardinality(Members) : Above(p, k) # m
      /\ \A x \in Members \ {m} : node'[x].parent = node[x].parent
  BY DEF Move
<1>a. node'[m].parent = p
  <2>1. node' = [node EXCEPT ![m].parent = p, ![m].leg = leg]
    BY DEF Move
  <2> QED
    BY <2>1
<1>2. PICK c \in Nat : c = Cardinality(Members) /\ IsFiniteSet(Members)
  BY EngineAssumption, FS_CardinalityType
<1>3. \A x \in Members \ {Root} : node'[x].parent \in Members
  BY <1>1, <1>a DEF Grows
<1>4. ASSUME NEW S \in SUBSET (Members \ {Root}), S # {}, \A x \in S : node'[x].parent \in S
      PROVE  FALSE
  <2>1. m \in S
    <3>1. m \notin S => \A x \in S : node[x].parent \in S
      BY <1>1, <1>4
    <3> QED
      BY <1>4, <3>1 DEF Grows
  <2> DEFINE G == {k \in Nat : Above(p, k) \in S \ {m}}
  <2>2. 0 \in G
    <3>1. p \in S /\ Above(p, 0) = p /\ 0 \in 0..c
      BY <1>a, <1>4, <2>1, AboveStep
    <3> QED
      BY <1>1, <1>2, <3>1
  <2>3. ASSUME NEW k \in 1..c, k - 1 \in G PROVE k \in G
    <3>1. k \in Nat /\ k - 1 \in Nat /\ (k - 1) + 1 = k /\ k \in 0..c
      BY <1>2
    <3>2. Above(p, k - 1) \in S \ {m} /\ Above(p, k - 1) # Root
      BY <2>3
    <3>3. Above(p, k) = node[Above(p, k - 1)].parent
      BY <3>1, <3>2, AboveStep
    <3>4. node[Above(p, k - 1)].parent \in S
      BY <1>1, <1>4, <3>2
    <3> QED
      BY <1>1, <1>2, <3>1, <3>3, <3>4
  <2>4. \A k \in 0..c : Above(p, k) \in Members \ {Root}
    <3> HIDE DEF G
    <3>1. \A k \in 0..c : k \in G
      BY <2>2, <2>3, UpTo
    <3> QED
      BY <3>1 DEF G
  <2> DEFINE f == [k \in 0..c |-> Above(p, k)]
  <2>5. f \in [0..c -> Members]
    BY <2>4
  <2>6. IsFiniteSet(0..c) /\ Cardinality(0..c) = c + 1
    <3>1. 0 \in Int /\ c \in Int /\ ~(0 > c) /\ c - 0 + 1 = c + 1
      OBVIOUS
    <3> QED
      BY <3>1, FS_Interval
  <2> HIDE DEF f
  <2>7. PICK x \in 0..c, y \in 0..c : x # y /\ f[x] = f[y]
    BY <1>2, <2>5, <2>6, FS_PigeonHole
  <2>8. Above(p, x) = Above(p, y)
    BY <2>7 DEF f
  <2>9. x \in Nat /\ y \in Nat
    OBVIOUS
  <2>10. CASE x < y
    BY <2>4, <2>8, <2>9, <2>10, NoWayBack
  <2>11. CASE y < x
    BY <2>4, <2>8, <2>9, <2>11, NoWayBack
  <2> QED
    BY <2>7, <2>9, <2>10, <2>11
<1> QED
  BY <1>3, <1>4 DEF Grows

-----------------------------------------------------------------------------
(* What flattened sequences have in common.                                *)

\* The sequence t begins as s.
Extends(t, s) == Len(s) <= Len(t) /\ \A n \in 1..Len(s) : t[n] = s[n]

LEMMA ConcatExtends ==
  ASSUME NEW S, NEW x \in Seq(S), NEW y \in Seq(S)
  PROVE  Extends(x \o y, x)
<1>1. Len(x) \in Nat /\ Len(y) \in Nat
  OBVIOUS
<1>2. Len(x \o y) = Len(x) + Len(y)
  BY ConcatProperties
<1>3. ASSUME NEW n \in 1..Len(x) PROVE (x \o y)[n] = x[n]
  <2>1. n \in 1..(Len(x) + Len(y)) /\ n <= Len(x)
    BY <1>1
  <2> QED
    BY <2>1, ConcatProperties
<1> QED
  BY <1>1, <1>2, <1>3 DEF Extends

LEMMA ExtendsTwice ==
  ASSUME NEW S, NEW x \in Seq(S), NEW y \in Seq(S), NEW z \in Seq(S), Extends(y, x), Extends(z, y)
  PROVE  Extends(z, x)
<1>1. Len(x) \in Nat /\ Len(y) \in Nat /\ Len(z) \in Nat
  OBVIOUS
<1> QED
  BY <1>1 DEF Extends

\* All the values of a flattening are sequences.
LEMMA FlatsSeq ==
  ASSUME NEW S, NEW s, NEW h, Flats(h, s, S), Len(s) \in Nat, NEW k \in 0..Len(s)
  PROVE  h[k] \in Seq(S)
<1>1. k = 0 \/ k \in 1..Len(s)
  OBVIOUS
<1> QED
  BY <1>1, EmptySeq DEF Flats

\* Two sequences that agree until one has nothing more: the flattening of the other begins
\* with its flattening.
Agree(t, s) ==
  /\ Len(s) <= Len(t)
  /\ \A j \in 1..Len(s) : s[j] = t[j] \/ \A i \in j..Len(s) : s[i] = <<>>

LEMMA FlatExtends ==
  ASSUME NEW S, NEW s \in Seq(Seq(S)), NEW t \in Seq(Seq(S)), Agree(t, s)
  PROVE  Extends(FlattenSeq(t), FlattenSeq(s))
<1>0. Len(s) <= Len(t) /\ \A j \in 1..Len(s) : s[j] = t[j] \/ \A i \in j..Len(s) : s[i] = <<>>
  BY DEF Agree
<1>1. PICK a, b \in Nat : a = Len(s) /\ b = Len(t)
  OBVIOUS
<1>2. PICK g : Flats(g, s, S) /\ FlattenSeq(s) = g[a]
  BY <1>1, FlatMeaning
<1>3. PICK h : Flats(h, t, S) /\ FlattenSeq(t) = h[b]
  BY <1>1, FlatMeaning
<1>4. \A k \in 1..a : g[k] = g[k - 1] \o s[k]
  BY <1>1, <1>2 DEF Flats
<1>5. \A k \in 1..b : h[k] = h[k - 1] \o t[k]
  BY <1>1, <1>3 DEF Flats
<1>6. (\A k \in 0..a : g[k] \in Seq(S)) /\ (\A k \in 0..b : h[k] \in Seq(S))
  BY <1>1, <1>2, <1>3, FlatsSeq
<1>7. (\A k \in 1..a : s[k] \in Seq(S)) /\ (\A k \in 1..b : t[k] \in Seq(S)) /\ a <= b
  BY <1>0, <1>1
<1>8. g[0] = <<>> /\ h[0] = <<>>
  BY <1>2, <1>3 DEF Flats
<1> DEFINE Done(k) == \A i \in k..a : s[i] = <<>>
           G == {k \in Nat : Extends(h[k], g[k]) /\ (g[k] = h[k] \/ Done(k))}
<1>9. 0 \in G
  BY <1>8, EmptySeq DEF Extends
<1>10. ASSUME NEW k \in 1..a, k - 1 \in G PROVE k \in G
  <2>1. /\ k \in Nat /\ k - 1 \in 0..a /\ k - 1 \in 0..b /\ k \in 1..b /\ k \in 0..a /\ k \in 0..b
        /\ k \in k..a /\ k \in (k - 1)..a
    BY <1>7
  <2>2. Extends(h[k - 1], g[k - 1]) /\ (g[k - 1] = h[k - 1] \/ Done(k - 1))
    BY <1>10
  <2>3. /\ g[k - 1] \in Seq(S) /\ h[k - 1] \in Seq(S) /\ s[k] \in Seq(S) /\ t[k] \in Seq(S)
        /\ h[k] \in Seq(S) /\ g[k] \in Seq(S)
    BY <1>6, <1>7, <2>1
  <2>4. g[k] = g[k - 1] \o s[k] /\ h[k] = h[k - 1] \o t[k]
    BY <1>4, <1>5, <2>1
  <2>5. Extends(h[k], h[k - 1])
    BY <2>3, <2>4, ConcatExtends
  <2>6. \A x \in Seq(S) : Extends(x, x)
    BY DEF Extends
  <2>7. CASE s[k] = t[k] /\ g[k - 1] = h[k - 1]
    <3>1. g[k] = h[k]
      BY <2>4, <2>7
    <3> QED
      BY <2>1, <2>3, <2>6, <3>1
  <2>8. CASE Done(k - 1) \/ (g[k - 1] = h[k - 1] /\ Done(k))
    <3>1. s[k] = <<>> /\ Done(k)
      <4>1. \A i \in k..a : i \in (k - 1)..a
        BY <2>1
      <4> QED
        BY <2>1, <2>8, <4>1
    <3>2. g[k] = g[k - 1]
      <4>1. g[k - 1] \o <<>> = g[k - 1]
        BY <2>3, ConcatEmptySeq
      <4> QED
        BY <2>4, <3>1, <4>1
    <3>3. Extends(h[k], g[k - 1])
      BY <2>2, <2>3, <2>5, ExtendsTwice
    <3> QED
      BY <2>1, <3>1, <3>2, <3>3
  <2>9. s[k] = t[k] \/ Done(k)
    BY <1>0, <1>1
  <2> QED
    BY <2>2, <2>7, <2>8, <2>9
<1>11. Extends(h[a], g[a])
  <2> HIDE DEF G
  <2>1. \A k \in 0..a : k \in G
    BY <1>9, <1>10, UpTo
  <2>2. a \in 0..a
    OBVIOUS
  <2> QED
    BY <2>1, <2>2 DEF G
<1> DEFINE H == {k \in Nat : k < a \/ Extends(h[k], g[a])}
<1>12. 0 \in H
  BY <1>11
<1>13. ASSUME NEW k \in 1..b, k - 1 \in H PROVE k \in H
  <2>1. k \in Nat /\ k - 1 \in 0..b /\ k \in 0..b /\ a \in 0..a
    OBVIOUS
  <2>2. CASE k - 1 < a
    <3>1. k < a \/ k = a
      BY <2>1, <2>2
    <3> QED
      BY <1>11, <2>1, <3>1
  <2>3. CASE ~(k - 1 < a)
    <3>1. Extends(h[k - 1], g[a])
      BY <1>13, <2>3
    <3>2. /\ h[k - 1] \in Seq(S) /\ t[k] \in Seq(S) /\ h[k] \in Seq(S) /\ g[a] \in Seq(S)
      BY <1>6, <1>7, <2>1
    <3>3. h[k] = h[k - 1] \o t[k]
      BY <1>5
    <3>4. Extends(h[k], h[k - 1])
      BY <3>2, <3>3, ConcatExtends
    <3>5. Extends(h[k], g[a])
      BY <3>1, <3>2, <3>4, ExtendsTwice
    <3> QED
      BY <2>1, <3>5
  <2> QED
    BY <2>2, <2>3
<1>14. Extends(h[b], g[a])
  <2> HIDE DEF H
  <2>1. \A k \in 0..b : k \in H
    BY <1>12, <1>13, UpTo
  <2>2. b \in 0..b
    OBVIOUS
  <2> QED
    BY <1>7, <2>1, <2>2 DEF H
<1> QED
  BY <1>2, <1>3, <1>14

\* Where an entry of a flattened sequence comes from.
From(h, s, i, n) == n \in (Len(h[i - 1]) + 1)..Len(h[i])

\* Each sequence holds nothing but its own number; each entry of v comes from its place.
Stamped(s) == \A i \in 1..Len(s) : \A u \in 1..Len(s[i]) : s[i][u] = i
Placed(h, s, v) == \A n \in 1..Len(v) : v[n] \in 1..Len(s) /\ From(h, s, v[n], n)

LEMMA FlatPlaces ==
  ASSUME NEW S, NEW s \in Seq(Seq(S)), NEW h, Flats(h, s, S), Stamped(s)
  PROVE  Placed(h, s, h[Len(s)])
<1>0. \A i \in 1..Len(s) : \A u \in 1..Len(s[i]) : s[i][u] = i
  BY DEF Stamped
<1>1. PICK a \in Nat : a = Len(s)
  OBVIOUS
<1>2. \A k \in 1..a : h[k] = h[k - 1] \o s[k]
  BY <1>1 DEF Flats
<1>3. (\A k \in 0..a : h[k] \in Seq(S)) /\ (\A k \in 1..a : s[k] \in Seq(S)) /\ h[0] = <<>>
  <2>1. \A k \in 0..a : h[k] \in Seq(S)
    BY <1>1, FlatsSeq
  <2>2. \A k \in 1..a : s[k] \in Seq(S)
    BY <1>1
  <2>3. h[0] = <<>>
    BY DEF Flats
  <2> QED
    BY <2>1, <2>2, <2>3
<1> DEFINE G == {k \in Nat : \A n \in 1..Len(h[k]) : h[k][n] \in 1..k /\ From(h, s, h[k][n], n)}
<1>4. 0 \in G
  <2>1. Len(h[0]) = 0
    BY <1>3, EmptySeq
  <2>2. \A n \in 1..Len(h[0]) : FALSE
    BY <2>1
  <2> QED
    BY <2>2
<1>5. ASSUME NEW k \in 1..a, k - 1 \in G PROVE k \in G
  <2>1. k \in Nat /\ k - 1 \in Nat /\ k - 1 \in 0..a /\ k \in 0..a
    OBVIOUS
  <2>a. PICK x, y : x = h[k - 1] /\ y = s[k]
    OBVIOUS
  <2>2. x \in Seq(S) /\ y \in Seq(S) /\ h[k] = x \o y /\ \A u \in 1..Len(y) : y[u] = k
    <3>1. h[k] = h[k - 1] \o s[k]
      BY <1>2, Zenon
    <3>2. h[k - 1] \in Seq(S) /\ s[k] \in Seq(S) /\ \A u \in 1..Len(s[k]) : s[k][u] = k
      BY <1>0, <1>1, <1>3, <2>1
    <3> QED
      BY <2>a, <3>1, <3>2, Zenon
  <2>3. Len(x) \in Nat /\ Len(y) \in Nat /\ Len(h[k]) = Len(x) + Len(y)
    BY <2>2, ConcatProperties
  <2>4. \A n \in 1..Len(x) : x[n] \in 1..(k - 1) /\ From(h, s, x[n], n)
    BY <1>5, <2>a
  <2>5. ASSUME NEW n \in 1..Len(h[k]) PROVE h[k][n] \in 1..k /\ From(h, s, h[k][n], n)
    <3>1. n \in 1..(Len(x) + Len(y)) /\ n \in Nat
      BY <2>3
    <3>2. h[k][n] = IF n <= Len(x) THEN x[n] ELSE y[n - Len(x)]
      BY <2>2, <3>1, ConcatProperties
    <3>3. CASE n <= Len(x)
      <4>1. n \in 1..Len(x) /\ h[k][n] = x[n]
        BY <2>3, <3>1, <3>2, <3>3
      <4>2. x[n] \in 1..(k - 1) /\ From(h, s, x[n], n)
        BY <2>4, <4>1
      <4>3. x[n] \in 1..k
        BY <2>1, <4>2
      <4> QED
        BY <4>1, <4>2, <4>3
    <3>4. CASE ~(n <= Len(x))
      <4>1. n - Len(x) \in 1..Len(y) /\ n \in (Len(x) + 1)..Len(h[k])
        BY <2>3, <3>1, <3>4
      <4>2. h[k][n] = k
        BY <2>2, <3>2, <3>4, <4>1
      <4>3. From(h, s, k, n)
        BY <2>a, <4>1 DEF From
      <4> QED
        BY <2>1, <4>2, <4>3
    <3> QED
      BY <3>3, <3>4
  <2> QED
    BY <2>1, <2>5
<1>6. a \in G
  <2> HIDE DEF G
  <2>1. \A k \in 0..a : k \in G
    BY <1>4, <1>5, UpTo
  <2>2. a \in 0..a
    OBVIOUS
  <2> QED
    BY <2>1, <2>2
<1>7. \A n \in 1..Len(h[a]) : h[a][n] \in 1..a /\ From(h, s, h[a][n], n)
  BY <1>6
<1> QED
  BY <1>1, <1>7, Zenon DEF Placed

-----------------------------------------------------------------------------
(* The volume of a member.                                                 *)

AboveIs == \A m : /\ Above(m, 0) = m
                  /\ \A k \in Nat : Above(m, k + 1) = IF Above(m, k) = Root THEN Root ELSE node[Above(m, k)].parent

LEMMA AboveAlways == AboveIs
  BY AboveStep DEF AboveIs

LEMMA AboveNext == AboveIs'
  BY AboveAlways, PTL

\* Who is above a member is in the tree.
LEMMA AboveIn ==
  ASSUME Grows(node), NEW d \in Members
  PROVE  \A k \in Nat : Above(d, k) \in Members
<1> DEFINE G == {k \in Nat : Above(d, k) \in Members}
<1>1. 0 \in G
  BY AboveStep
<1>2. ASSUME NEW n \in Nat PROVE Above(d, n) \in Members
  <2>1. ASSUME NEW k \in 1..n, k - 1 \in G PROVE k \in G
    <3>1. PICK j \in Nat : j = k - 1 /\ j + 1 = k
      BY <2>1
    <3>2. Above(d, j) \in Members
      BY <2>1, <3>1
    <3>3. Above(d, j + 1) \in Members
      <4>1. Above(d, j + 1) = IF Above(d, j) = Root THEN Root ELSE node[Above(d, j)].parent
        BY AboveStep
      <4>2. PICK x, y : x = Above(d, j) /\ y = Above(d, j + 1)
        OBVIOUS
      <4>3. x \in Members /\ y = IF x = Root THEN Root ELSE node[x].parent
        BY <3>2, <4>1, <4>2
      <4>4. Root \in Members /\ \A z \in Members \ {Root} : node[z].parent \in Members
        BY EngineAssumption DEF Grows
      <4> QED
        BY <4>2, <4>3, <4>4
    <3>4. k \in Nat
      OBVIOUS
    <3> QED
      BY <3>1, <3>3, <3>4, Zenon
  <2>2. n \in G
    <3> HIDE DEF G
    <3>1. \A k \in 0..n : k \in G
      BY <1>1, <2>1, UpTo
    <3> QED
      BY <3>1
  <2> QED
    BY <2>2
<1> QED
  BY <1>2

\* The same slots, the same way up.
SameSlots == \A m \in Members : node'[m].parent = node[m].parent /\ node'[m].leg = node[m].leg

LEMMA AboveSame ==
  ASSUME Grows(node), SameSlots, NEW d \in Members
  PROVE  \A k \in Nat : Above(d, k)' = Above(d, k)
<1> DEFINE G == {k \in Nat : Above(d, k)' = Above(d, k)}
<1>1. 0 \in G
  BY AboveStep, AboveNext DEF AboveIs
<1>2. ASSUME NEW n \in Nat PROVE Above(d, n)' = Above(d, n)
  <2>1. ASSUME NEW k \in 1..n, k - 1 \in G PROVE k \in G
    <3>1. PICK j \in Nat : j = k - 1 /\ j + 1 = k
      BY <2>1
    <3>2. Above(d, j)' = Above(d, j) /\ Above(d, j) \in Members
      BY <2>1, <3>1, AboveIn
    <3>3. Above(d, j + 1) = IF Above(d, j) = Root THEN Root ELSE node[Above(d, j)].parent
      BY AboveStep
    <3>4. Above(d, j + 1)' = IF Above(d, j)' = Root THEN Root ELSE node'[Above(d, j)'].parent
      BY AboveNext DEF AboveIs
    <3>5. Above(d, j + 1)' = Above(d, j + 1)
      BY <3>2, <3>3, <3>4 DEF SameSlots
    <3>6. k \in Nat
      OBVIOUS
    <3> QED
      BY <3>1, <3>5, <3>6, Zenon
  <2>2. n \in G
    <3> HIDE DEF G
    <3>1. \A k \in 0..n : k \in G
      BY <1>1, <2>1, UpTo
    <3> QED
      BY <3>1
  <2> QED
    BY <2>2
<1> QED
  BY <1>2

LEMMA FeedsSame ==
  ASSUME Grows(node), SameSlots, NEW i, source[i].member \in Members, source'[i].member = source[i].member
  PROVE  \A m, leg : Feeds(i, m, leg)' <=> Feeds(i, m, leg)
<1>1. Depth \in Nat
  BY EngineAssumption
<1>2. \A k \in 0..(Depth - 1) : k \in Nat
  BY <1>1
<1>3. PICK d : d = source[i].member /\ d \in Members
  OBVIOUS
<1>4. \A k \in 0..(Depth - 1) : Above(d, k)' = Above(d, k) /\ Above(d, k) \in Members
  BY <1>2, <1>3, AboveSame, AboveIn
<1>5. \A k \in 0..(Depth - 1) : node'[Above(d, k)'].parent = node[Above(d, k)].parent /\ node'[Above(d, k)'].leg = node[Above(d, k)].leg
  BY <1>4 DEF SameSlots
<1> QED
  BY <1>3, <1>4, <1>5 DEF Feeds

-----------------------------------------------------------------------------
\* What each membership brings to a leg.
Lots(m, leg, end) ==
  [i \in Sources |-> IF Before(i, end) /\ Feeds(i, m, leg) THEN [u \in 1..source[i].pv |-> i] ELSE <<>>]

LEMMA LotsAre ==
  ASSUME SourcesTyped, NEW m, NEW leg, NEW end
  PROVE  /\ Lots(m, leg, end) \in Seq(Seq(Sources)) /\ Len(Lots(m, leg, end)) = Len(source)
         /\ \A i \in Sources :
              /\ Lots(m, leg, end)[i] = IF Before(i, end) /\ Feeds(i, m, leg)
                                        THEN [u \in 1..source[i].pv |-> i] ELSE <<>>
              /\ Len(Lots(m, leg, end)[i]) \in 0..source[i].pv
              /\ \A u \in 1..Len(Lots(m, leg, end)[i]) :
                   Lots(m, leg, end)[i][u] = i /\ Feeds(i, m, leg)
<1>1. Sources = 1..Len(source) /\ Len(source) \in Nat
  BY SourceFacts
<1>2. PICK s : s = Lots(m, leg, end)
  OBVIOUS
<1>3. /\ DOMAIN s = Sources /\ s = [i \in Sources |-> s[i]]
      /\ \A i \in Sources : s[i] = IF Before(i, end) /\ Feeds(i, m, leg)
                                   THEN [u \in 1..source[i].pv |-> i] ELSE <<>>
  BY <1>2 DEF Lots
<1>4. ASSUME NEW i \in Sources
      PROVE  /\ s[i] \in Seq(Sources) /\ Len(s[i]) \in 0..source[i].pv
             /\ \A u \in 1..Len(s[i]) : s[i][u] = i /\ Feeds(i, m, leg)
  <2>1. source[i].pv \in Nat
    BY SourceFacts DEF SourceRec
  <2>2. CASE Before(i, end) /\ Feeds(i, m, leg)
    <3>1. s[i] = [u \in 1..source[i].pv |-> i]
      BY <1>3, <2>2
    <3>2. s[i] \in Seq(Sources) /\ Len(s[i]) = source[i].pv /\ \A u \in 1..source[i].pv : s[i][u] = i
      BY <2>1, <3>1
    <3> QED
      BY <2>1, <2>2, <3>2
  <2>3. CASE ~(Before(i, end) /\ Feeds(i, m, leg))
    <3>1. s[i] = <<>>
      BY <1>3, <2>3, Zenon
    <3>2. s[i] \in Seq(Sources) /\ Len(s[i]) = 0
      BY <3>1, EmptySeq
    <3>3. \A u \in 1..Len(s[i]) : FALSE
      BY <3>2
    <3> QED
      BY <2>1, <3>2, <3>3
  <2> QED
    BY <2>2, <2>3
<1>5. s \in [1..Len(source) -> Seq(Sources)]
  <2>1. \A i \in 1..Len(source) : s[i] \in Seq(Sources)
    BY <1>1, <1>4
  <2> QED
    BY <1>1, <1>3, <2>1
<1>6. s \in Seq(Seq(Sources)) /\ Len(s) = Len(source)
  BY <1>1, <1>5, SeqDef, LenProperties
<1> QED
  BY <1>2, <1>3, <1>4, <1>6

\* The places of a membership in a volume.
Places(v, i) == {n \in DOMAIN v : v[n] = i}

LEMMA VolumeUnits ==
  ASSUME SourcesTyped, NEW m, NEW leg, NEW end
  PROVE  /\ Volume(m, leg, end) \in Seq(Sources)
         /\ \A i \in Sources : /\ IsFiniteSet(Places(Volume(m, leg, end), i))
                               /\ Cardinality(Places(Volume(m, leg, end), i)) <= source[i].pv
                               /\ Places(Volume(m, leg, end), i) # {} => Feeds(i, m, leg)
<1>1. Sources = 1..Len(source) /\ Len(source) \in Nat
  BY SourceFacts
<1>2. PICK s, v, a : s = Lots(m, leg, end) /\ v = Volume(m, leg, end) /\ a = Len(source)
  OBVIOUS
<1>3. s \in Seq(Seq(Sources)) /\ Len(s) = a /\ v = FlattenSeq(s) /\ a \in Nat /\ Sources = 1..a
  <2>1. s \in Seq(Seq(Sources)) /\ Len(s) = a
    BY <1>2, LotsAre
  <2>2. v = FlattenSeq(s)
    BY <1>2 DEF Volume, Lots
  <2> QED
    BY <1>1, <1>2, <2>1, <2>2
<1>4. \A i \in Sources : Len(s[i]) \in 0..source[i].pv /\ \A u \in 1..Len(s[i]) : s[i][u] = i /\ Feeds(i, m, leg)
  <2> SUFFICES ASSUME NEW i \in Sources
               PROVE  Len(s[i]) \in 0..source[i].pv /\ \A u \in 1..Len(s[i]) : s[i][u] = i /\ Feeds(i, m, leg)
    OBVIOUS
  <2>1. /\ Len(Lots(m, leg, end)[i]) \in 0..source[i].pv
        /\ \A u \in 1..Len(Lots(m, leg, end)[i]) : Lots(m, leg, end)[i][u] = i /\ Feeds(i, m, leg)
    BY LotsAre
  <2> QED
    BY <1>2, <2>1, Zenon
<1>5. PICK h : Flats(h, s, Sources) /\ v = h[a]
  BY <1>3, FlatMeaning
<1>6. v \in Seq(Sources)
  BY <1>3, Flattened
<1>7. \A n \in 1..Len(v) : v[n] \in Sources /\ From(h, s, v[n], n)
  <2>1. Stamped(s)
    BY <1>3, <1>4 DEF Stamped
  <2>2. Placed(h, s, h[Len(s)])
    BY <1>3, <1>5, <2>1, FlatPlaces
  <2>3. Placed(h, s, v) /\ 1..Len(s) = Sources
    BY <1>3, <1>5, <2>2
  <2> QED
    BY <2>3 DEF Placed
<1>8. ASSUME NEW i \in Sources
      PROVE  /\ IsFiniteSet(Places(v, i)) /\ Cardinality(Places(v, i)) <= source[i].pv
             /\ Places(v, i) # {} => Feeds(i, m, leg)
  <2>1. PICK x, y : x = h[i - 1] /\ y = h[i]
    OBVIOUS
  <2>2. /\ x \in Seq(Sources) /\ y \in Seq(Sources) /\ s[i] \in Seq(Sources)
    <3>1. i - 1 \in 0..a /\ i \in 0..a /\ i \in 1..a
      BY <1>3
    <3>2. h[i - 1] \in Seq(Sources) /\ h[i] \in Seq(Sources)
      BY <1>3, <1>5, <3>1, FlatsSeq
    <3>3. s[i] \in Seq(Sources)
      BY <1>3, <3>1
    <3> QED
      BY <2>1, <3>2, <3>3
  <2>3. y = x \o s[i]
    <3>1. h[i] = h[i - 1] \o s[i]
      BY <1>3, <1>5, Zenon DEF Flats
    <3> QED
      BY <2>1, <3>1
  <2>4. Len(x) \in Nat /\ Len(s[i]) \in Nat /\ Len(y) = Len(x) + Len(s[i])
    BY <2>2, <2>3, ConcatProperties
  <2>5. Places(v, i) \subseteq (Len(x) + 1)..Len(y)
    <3>1. DOMAIN v = 1..Len(v)
      BY <1>6
    <3> QED
      BY <1>7, <2>1, <3>1 DEF Places, From
  <2>6. IsFiniteSet((Len(x) + 1)..Len(y)) /\ Cardinality((Len(x) + 1)..Len(y)) = Len(s[i])
    <3>1. PICK p, q \in Int : p = Len(x) + 1 /\ q = Len(y) /\ q - p + 1 = Len(s[i]) /\ (p > q => Len(s[i]) = 0)
      <4>1. Len(x) + 1 \in Int /\ Len(y) \in Int /\ Len(y) - (Len(x) + 1) + 1 = Len(s[i])
            /\ (Len(x) + 1 > Len(y) => Len(s[i]) = 0)
        BY <2>4
      <4> QED
        BY <4>1
    <3>2. IsFiniteSet(p..q) /\ Cardinality(p..q) = Len(s[i])
      BY <3>1, FS_Interval
    <3> QED
      BY <3>1, <3>2
  <2>7. IsFiniteSet(Places(v, i)) /\ Cardinality(Places(v, i)) <= Len(s[i])
    BY <2>5, <2>6, FS_Subset
  <2>8. Cardinality(Places(v, i)) <= source[i].pv
    <3>1. Cardinality(Places(v, i)) \in Nat
      BY <2>7, FS_CardinalityType
    <3>2. source[i].pv \in Nat /\ Len(s[i]) <= source[i].pv
      <4>1. source[i].pv \in Nat
        BY SourceFacts DEF SourceRec
      <4> QED
        BY <1>4, <4>1
    <3> QED
      BY <2>4, <2>7, <3>1, <3>2
  <2>9. Places(v, i) # {} => Feeds(i, m, leg)
    <3>1. ASSUME NEW n \in Places(v, i) PROVE Feeds(i, m, leg)
      <4>1. n \in (Len(x) + 1)..Len(y)
        BY <2>5
      <4>2. 1 \in 1..Len(s[i])
        BY <2>4, <4>1
      <4> QED
        BY <1>4, <4>2
    <3> QED
      BY <3>1
  <2> QED
    BY <2>7, <2>8, <2>9
<1> QED
  BY <1>2, <1>6, <1>8

\* The memberships are in the order of their days.
DaysInOrder == \A i, j \in Sources : i <= j => source[i].day <= source[j].day

\* Until a later day a volume only grows.
LEMMA VolumeLonger ==
  ASSUME SourcesTyped, DaysInOrder, NEW m, NEW leg, NEW end \in Nat, NEW later \in Nat, end <= later
  PROVE  Extends(Volume(m, leg, later), Volume(m, leg, end))
<1>1. Sources = 1..Len(source) /\ Len(source) \in Nat /\ \A i \in Sources : source[i].day \in Nat
  BY SourceFacts DEF SourceRec
<1>2. PICK s, t, a : s = Lots(m, leg, end) /\ t = Lots(m, leg, later) /\ a = Len(source)
  OBVIOUS
<1>3. s \in Seq(Seq(Sources)) /\ t \in Seq(Seq(Sources)) /\ Len(s) = a /\ Len(t) = a /\ a \in Nat /\ Sources = 1..a
  BY <1>1, <1>2, LotsAre
<1>4. \A i \in Sources :
        /\ s[i] = IF Before(i, end) /\ Feeds(i, m, leg) THEN [u \in 1..source[i].pv |-> i] ELSE <<>>
        /\ t[i] = IF Before(i, later) /\ Feeds(i, m, leg) THEN [u \in 1..source[i].pv |-> i] ELSE <<>>
  BY <1>2, LotsAre
<1>5. ASSUME NEW j \in Sources PROVE s[j] = t[j] \/ \A i \in j..a : s[i] = <<>>
  <2>1. CASE Before(j, end)
    <3>1. Before(j, later)
      BY <1>1, <2>1 DEF Before
    <3> QED
      BY <1>4, <2>1, <3>1, Zenon
  <2>2. CASE ~Before(j, end)
    <3>1. ASSUME NEW i \in j..a PROVE s[i] = <<>>
      <4>1. i \in Sources /\ j <= i
        BY <1>3
      <4>2. ~Before(i, end)
        BY <1>1, <2>2, <4>1 DEF Before, DaysInOrder
      <4> QED
        BY <1>4, <4>1, <4>2, Zenon
    <3> QED
      BY <3>1
  <2> QED
    BY <2>1, <2>2
<1>6. Agree(t, s)
  BY <1>3, <1>5 DEF Agree
<1>7. Extends(FlattenSeq(t), FlattenSeq(s))
  BY <1>3, <1>6, FlatExtends
<1>8. Volume(m, leg, end) = FlattenSeq(s) /\ Volume(m, leg, later) = FlattenSeq(t)
  BY <1>2 DEF Volume, Lots
<1> QED
  BY <1>7, <1>8

-----------------------------------------------------------------------------
(* Volume only grows at its end.                                           *)

\* The members the memberships belong to.
Held == \A i \in Sources : source[i].member \in Members

\* The memberships are still there, with those that followed.
MoreSources == /\ Len(source) <= Len(source')
               /\ \A i \in Sources : source'[i] = source[i]

LotsGood ==
  SourcesTyped =>
    /\ Sources = 1..Len(source) /\ Len(source) \in Nat
    /\ \A m, leg, end :
         /\ Lots(m, leg, end) \in Seq(Seq(Sources)) /\ Len(Lots(m, leg, end)) = Len(source)
         /\ Volume(m, leg, end) = FlattenSeq(Lots(m, leg, end))
         /\ \A i \in Sources : Lots(m, leg, end)[i] = IF Before(i, end) /\ Feeds(i, m, leg)
                                                      THEN [u \in 1..source[i].pv |-> i] ELSE <<>>

LEMMA LotsAlways == LotsGood
<1> SUFFICES ASSUME SourcesTyped
             PROVE  /\ Sources = 1..Len(source) /\ Len(source) \in Nat
                    /\ \A m, leg, end :
                         /\ Lots(m, leg, end) \in Seq(Seq(Sources)) /\ Len(Lots(m, leg, end)) = Len(source)
                         /\ Volume(m, leg, end) = FlattenSeq(Lots(m, leg, end))
                         /\ \A i \in Sources : Lots(m, leg, end)[i] = IF Before(i, end) /\ Feeds(i, m, leg)
                                                                      THEN [u \in 1..source[i].pv |-> i] ELSE <<>>
  BY DEF LotsGood
<1>1. Sources = 1..Len(source) /\ Len(source) \in Nat
  BY SourceFacts
<1>2. ASSUME NEW m, NEW leg, NEW end
      PROVE  /\ Lots(m, leg, end) \in Seq(Seq(Sources)) /\ Len(Lots(m, leg, end)) = Len(source)
             /\ Volume(m, leg, end) = FlattenSeq(Lots(m, leg, end))
             /\ \A i \in Sources : Lots(m, leg, end)[i] = IF Before(i, end) /\ Feeds(i, m, leg)
                                                          THEN [u \in 1..source[i].pv |-> i] ELSE <<>>
  <2>1. Volume(m, leg, end) = FlattenSeq(Lots(m, leg, end))
    BY DEF Volume, Lots
  <2> QED
    BY <2>1, LotsAre
<1> QED
  BY <1>1, <1>2

LEMMA LotsNext == LotsGood'
  BY LotsAlways, PTL

\* A volume begins as it was before others entered.
LEMMA VolumeAppended ==
  ASSUME SourcesTyped, SourcesTyped', Grows(node), SameSlots, Held, MoreSources,
         NEW m, NEW leg, NEW end
  PROVE  Extends(Volume(m, leg, end)', Volume(m, leg, end))
<1>1. PICK s, t : s = Lots(m, leg, end) /\ t = Lots(m, leg, end)'
  OBVIOUS
<1>2. /\ Sources = 1..Len(source) /\ Len(source) \in Nat
      /\ s \in Seq(Seq(Sources)) /\ Len(s) = Len(source) /\ Volume(m, leg, end) = FlattenSeq(s)
      /\ \A i \in Sources : s[i] = IF Before(i, end) /\ Feeds(i, m, leg)
                                   THEN [u \in 1..source[i].pv |-> i] ELSE <<>>
  BY <1>1, LotsAlways DEF LotsGood
<1>3. /\ Sources' = 1..Len(source') /\ Len(source') \in Nat
      /\ t \in Seq(Seq(Sources')) /\ Len(t) = Len(source') /\ Volume(m, leg, end)' = FlattenSeq(t)
      /\ \A i \in Sources' : t[i] = IF Before(i, end)' /\ Feeds(i, m, leg)'
                                    THEN [u \in 1..source'[i].pv |-> i] ELSE <<>>
  BY <1>1, LotsNext DEF LotsGood
<1>4. PICK S, T : S = Sources /\ T = Sources' /\ S \subseteq T
  BY <1>2, <1>3 DEF MoreSources
<1>5. ASSUME NEW i \in Sources PROVE s[i] = t[i]
  <2>1. source'[i] = source[i] /\ i \in Sources' /\ source[i].member \in Members
    BY <1>4, <1>5 DEF MoreSources, Held
  <2>2. Feeds(i, m, leg)' <=> Feeds(i, m, leg)
    BY <2>1, FeedsSame
  <2>3. Before(i, end)' <=> Before(i, end)
    BY <2>1 DEF Before
  <2>4. t[i] = IF Before(i, end) /\ Feeds(i, m, leg) THEN [u \in 1..source[i].pv |-> i] ELSE <<>>
    BY <1>3, <2>1, <2>2, <2>3
  <2> QED
    BY <1>2, <2>4
<1>6. s \in Seq(Seq(T)) /\ t \in Seq(Seq(T))
  <2>1. Seq(S) \subseteq Seq(T)
    BY <1>4, SeqWider
  <2>2. Seq(Seq(S)) \subseteq Seq(Seq(T))
    BY <2>1, SeqWider
  <2> QED
    BY <1>2, <1>3, <1>4, <2>2
<1>7. Agree(t, s)
  BY <1>2, <1>3, <1>5 DEF Agree, MoreSources
<1>8. Extends(FlattenSeq(t), FlattenSeq(s))
  BY <1>6, <1>7, FlatExtends
<1> QED
  BY <1>2, <1>3, <1>8

-----------------------------------------------------------------------------
(* Only the binary bonus claims volume.                                    *)

\* c has claimed what b has, in the same weeks.
ClaimsAs(c, b) ==
  DOMAIN b = Fields =>
    /\ DOMAIN c = Fields
    /\ c.claimed = b.claimed /\ c.prefix = b.prefix /\ c.allocation = b.allocation /\ c.closed = b.closed

LEMMA ClaimsAsItself == \A b : ClaimsAs(b, b)
  BY DEF ClaimsAs

LEMMA ClaimsAsMore == \A b, c, d : ClaimsAs(c, b) /\ ClaimsAs(d, c) => ClaimsAs(d, b)
  BY DEF ClaimsAs

LEMMA PostClaims ==
  ASSUME NEW b, NEW kind, NEW pkg, NEW amount, NEW day
  PROVE  ClaimsAs(Post(b, kind, pkg, amount, day), b)
<1> DEFINE a == IF ConsumesCap(kind) THEN Least(amount, Remaining(b, pkg)) ELSE amount
           With(z) == [b EXCEPT !.payment = Append(@, [kind |-> kind, pkg |-> pkg, amount |-> z, day |-> day]),
                                !.paid[pkg] = IF ConsumesCap(kind) THEN @ + z ELSE @,
                                !.capClosed[pkg] = IF ConsumesCap(kind) THEN CapClosed(b, pkg, b.paid[pkg] + z) ELSE @]
<1>1. Post(b, kind, pkg, amount, day) = IF a <= 0 THEN b ELSE With(a)
  BY DEF Post
<1> HIDE DEF a
<1>2. ClaimsAs(With(a), b)
  BY DEF ClaimsAs, Fields
<1> HIDE DEF With
<1> QED
  BY <1>1, <1>2, ClaimsAsItself

LEMMA OwedClaims ==
  ASSUME NEW b, NEW kind, NEW m, NEW end, NEW amount
  PROVE  ClaimsAs(OwedIf(b, kind, m, end, amount), b)
<1>1. ClaimsAs(Owed(b, kind, Own(m, end), end, amount, 0), b)
  BY DEF Owed, ClaimsAs, Fields
<1> QED
  BY <1>1, ClaimsAsItself DEF OwedIf

LEMMA ReferralClaims ==
  ASSUME NEW b, NEW i, NEW end
  PROVE  ClaimsAs(ReferralsOf(b, i, end), b)
<1> DEFINE s == Sponsor[source[i].member]
           g == IF s \in Members THEN Sponsor[s] ELSE 0
           c == OwedIf(b, "direct", s, end, Direct(s, i, end))
           d == OwedIf(c, "royalty", g, end, Royalty(s, g, i, end))
<1>1. ReferralsOf(b, i, end) = d
  BY DEF ReferralsOf
<1>2. ClaimsAs(c, b) /\ ClaimsAs(d, c)
  BY OwedClaims
<1> HIDE DEF c, d
<1> QED
  BY <1>1, <1>2, ClaimsAsMore

LEMMA PayOneClaims ==
  ASSUME NEW b, NEW n, NEW theta, NEW end
  PROVE  ClaimsAs(PayOne(b, n, theta, end), b)
<1> DEFINE o == b.owed[n]
           room == IF ConsumesCap(o.kind) THEN Remaining(b, o.pkg) ELSE Open(o)
           amount == Least(NetOf(Open(o), theta, Scale), room)
           c == Post(b, o.kind, o.pkg, amount, end)
           After(q) == [q EXCEPT !.owed[n] = [o EXCEPT !.paid = @ + amount, !.excluded = @ + Minus(Open(o), room)]]
<1>1. PayOne(b, n, theta, end) = After(c)
  BY DEF PayOne
<1>2. ClaimsAs(c, b)
  BY PostClaims
<1> HIDE DEF c, o, room, amount
<1>3. ClaimsAs(After(c), c)
  BY DEF ClaimsAs, Fields
<1> HIDE DEF After
<1> QED
  BY <1>1, <1>2, <1>3, ClaimsAsMore

LEMMA DayClaims ==
  ASSUME NEW b
  PROVE  ClaimsAs(AccrueDay(b), b)
<1> DEFINE i == Min(Due(b))
           day == b.roi[i].cut + 1
           rate == IF Qualified(source[i].member, day, source[i].tier) THEN UpliftRate ELSE BaseRate
           target == Target(b.roi[i].numerator, source[i].gross, rate, b.roi[i].claimed)
           amount == target - b.roi[i].claimed
           excluded == Minus(amount, Remaining(b, i))
           c == Post(b, "roi", i, amount - excluded, day)
           Row(r) == [cut |-> day, numerator |-> r.numerator + source[i].gross * rate,
                      claimed |-> target, excluded |-> r.excluded + excluded]
           After(q) == [q EXCEPT !.roi[i] = Row(@), !.rates[i] = Append(@, rate)]
<1>1. AccrueDay(b) = After(c)
  BY DEF AccrueDay
<1>2. ClaimsAs(c, b)
  BY PostClaims
<1> HIDE DEF c, Row, rate, i
<1>3. ClaimsAs(After(c), c)
  BY DEF ClaimsAs, Fields
<1> HIDE DEF After
<1> QED
  BY <1>1, <1>2, <1>3, ClaimsAsMore

LEMMA AccruedClaims ==
  ASSUME NEW b, NEW n \in Nat
  PROVE  ClaimsAs(Accrued(b, n), b)
<1>1. PICK after : Days(after, b, n) /\ Accrued(b, n) = after[n]
  BY AccruedMeaning
<1>2. /\ after[0] = b
      /\ \A k \in 1..n : after[k] = IF Due(after[k - 1]) = {} THEN after[k - 1] ELSE AccrueDay(after[k - 1])
  BY <1>1 DEF Days
<1> DEFINE G == {k \in Nat : ClaimsAs(after[k], b)}
<1>3. 0 \in G
  BY <1>2, ClaimsAsItself
<1>4. ASSUME NEW k \in 1..n, k - 1 \in G PROVE k \in G
  <2>1. ClaimsAs(after[k - 1], b) /\ k \in Nat
    BY <1>4
  <2>2. ClaimsAs(AccrueDay(after[k - 1]), after[k - 1])
    BY DayClaims
  <2>3. ClaimsAs(AccrueDay(after[k - 1]), b)
    BY <2>1, <2>2, ClaimsAsMore
  <2> QED
    BY <1>2, <2>1, <2>3
<1>5. n \in G
  <2> HIDE DEF G
  <2>1. \A k \in 0..n : k \in G
    BY <1>3, <1>4, UpTo
  <2> QED
    BY <2>1
<1> QED
  BY <1>1, <1>5

LEMMA ReferralsClaim ==
  ASSUME SourcesTyped, NEW b, NEW end
  PROVE  ClaimsAs(Referrals(b, end), b)
<1>1. PICK after, n : n = Len(source) /\ n \in Nat /\ Sales(after, b, end) /\ Referrals(b, end) = after[n]
  BY ReferralsMeaning, SourceFacts
<1>2. /\ after[0] = b
      /\ \A k \in 1..n : after[k] = IF SoldIn(k, end) THEN ReferralsOf(after[k - 1], k, end) ELSE after[k - 1]
  BY <1>1 DEF Sales
<1> DEFINE G == {k \in Nat : ClaimsAs(after[k], b)}
<1>3. 0 \in G
  BY <1>2, ClaimsAsItself
<1>4. ASSUME NEW k \in 1..n, k - 1 \in G PROVE k \in G
  <2>1. ClaimsAs(after[k - 1], b) /\ k \in Nat
    BY <1>4
  <2>2. ClaimsAs(ReferralsOf(after[k - 1], k, end), after[k - 1])
    BY ReferralClaims
  <2>3. ClaimsAs(ReferralsOf(after[k - 1], k, end), b)
    BY <2>1, <2>2, ClaimsAsMore
  <2> QED
    BY <1>2, <2>1, <2>3
<1>5. n \in G
  <2> HIDE DEF G
  <2>1. \A k \in 0..n : k \in G
    BY <1>1, <1>3, <1>4, UpTo
  <2> QED
    BY <1>1, <2>1
<1> QED
  BY <1>1, <1>5

LEMMA PaidClaims ==
  ASSUME NEW b, Len(b.owed) \in Nat, NEW end
  PROVE  ClaimsAs(Paid(b, end), b)
<1>1. PICK n, theta : n = Len(b.owed) /\ n \in Nat /\ theta = ComputeTheta(100, Budget(b, end), Projected(b), Scale)
  OBVIOUS
<1>2. PICK after : Claims(after, b, end, theta, n) /\ Paid(b, end) = after[n]
  BY <1>1, PaidMeaning
<1>3. after[0] = b /\ \A k \in 1..n : after[k] = PayOne(after[k - 1], k, theta, end)
  BY <1>2 DEF Claims
<1> DEFINE G == {k \in Nat : ClaimsAs(after[k], b)}
<1>4. 0 \in G
  BY <1>3, ClaimsAsItself
<1>5. ASSUME NEW k \in 1..n, k - 1 \in G PROVE k \in G
  <2>1. ClaimsAs(after[k - 1], b) /\ k \in Nat
    BY <1>1, <1>5
  <2>2. ClaimsAs(PayOne(after[k - 1], k, theta, end), after[k - 1])
    BY PayOneClaims
  <2>3. ClaimsAs(PayOne(after[k - 1], k, theta, end), b)
    BY <2>1, <2>2, ClaimsAsMore
  <2> QED
    BY <1>3, <2>1, <2>3
<1>6. n \in G
  <2> HIDE DEF G
  <2>1. \A k \in 0..n : k \in G
    BY <1>1, <1>4, <1>5, UpTo
  <2> QED
    BY <1>1, <2>1
<1> QED
  BY <1>2, <1>6

-----------------------------------------------------------------------------
(* What one member claims in a week.                                       *)

AllocOf(b, m) == {a \in b.allocation : a.member = m}

SameClaims(c, b, m) ==
  c.claimed[m] = b.claimed[m] /\ c.prefix[m] = b.prefix[m] /\ AllocOf(c, m) = AllocOf(b, m)

\* c is b after the claims of m for the week that ends at end.
ClaimsOf(c, b, m, end) ==
  \/ SameClaims(c, b, m)
  \/ /\ Competes(m, end) /\ b.claimed[m] < Pairs(m, end)
     /\ c.claimed[m] = Pairs(m, end)
     /\ c.prefix[m] = Prefix(m, Pairs(m, end), end)
     /\ AllocOf(c, m) = AllocOf(b, m) \cup Allocated(b, m, end)

\* The books of claims, without their contents.
ClaimShape(b) ==
  DOMAIN b = Fields /\ DOMAIN b.claimed = Members /\ DOMAIN b.prefix = Members /\ b.claimed \in [Members -> Nat]

LEMMA AllocatedOf == \A b, m, end : \A a \in Allocated(b, m, end) : a.member = m
  BY DEF Allocated

LEMMA BinaryOfClaims ==
  ASSUME SourcesTyped, NEW b, ClaimShape(b), NEW m \in Members, NEW end
  PROVE  /\ ClaimShape(BinaryOf(b, m, end)) /\ BinaryOf(b, m, end).closed = b.closed
         /\ ClaimsOf(BinaryOf(b, m, end), b, m, end)
         /\ \A x \in Members \ {m} : SameClaims(BinaryOf(b, m, end), b, x)
<1>1. CASE ~Competes(m, end) \/ Pairs(m, end) <= b.claimed[m]
  BY <1>1 DEF BinaryOf, ClaimsOf, SameClaims
<1>2. CASE ~(~Competes(m, end) \/ Pairs(m, end) <= b.claimed[m])
  <2> DEFINE amount == Entitlement(b, m, end)
             pkg == OwnOpen(m, end)
             allowed == Least(Least(amount, WeekCap), Remaining(b, pkg))
             one == Owed(b, "binary", pkg, end, amount, amount - allowed)
             c == [one EXCEPT !.claimed[m] = Pairs(m, end),
                              !.prefix[m] = Prefix(m, Pairs(m, end), end),
                              !.allocation = @ \cup Allocated(b, m, end)]
  <2>1. BinaryOf(b, m, end) = c
    BY <1>2 DEF BinaryOf
  <2>2. DOMAIN one = Fields /\ one.claimed = b.claimed /\ one.prefix = b.prefix
        /\ one.allocation = b.allocation /\ one.closed = b.closed
    BY DEF Owed, ClaimShape, Fields
  <2> HIDE DEF one
  <2>3. /\ DOMAIN c = Fields /\ c.closed = b.closed
        /\ c.claimed = [b.claimed EXCEPT ![m] = Pairs(m, end)]
        /\ c.prefix = [b.prefix EXCEPT ![m] = Prefix(m, Pairs(m, end), end)]
        /\ c.allocation = b.allocation \cup Allocated(b, m, end)
    BY <2>2 DEF Fields
  <2> HIDE DEF c
  <2>4. Pairs(m, end) \in Nat
    BY PairsNat
  <2>5. b.claimed[m] < Pairs(m, end) /\ Competes(m, end)
    BY <1>2, <2>4 DEF ClaimShape
  <2>6. ClaimShape(c)
    BY <2>3, <2>4 DEF ClaimShape
  <2>7. AllocOf(c, m) = AllocOf(b, m) \cup Allocated(b, m, end)
    BY <2>3, AllocatedOf DEF AllocOf
  <2>8. c.claimed[m] = Pairs(m, end) /\ c.prefix[m] = Prefix(m, Pairs(m, end), end)
    BY <2>3 DEF ClaimShape
  <2>9. ASSUME NEW x \in Members \ {m} PROVE SameClaims(c, b, x)
    <3>1. AllocOf(c, x) = AllocOf(b, x)
      BY <2>3, AllocatedOf DEF AllocOf
    <3>2. c.claimed[x] = b.claimed[x] /\ c.prefix[x] = b.prefix[x]
      BY <2>3 DEF ClaimShape
    <3> QED
      BY <3>1, <3>2 DEF SameClaims
  <2> QED
    BY <2>1, <2>3, <2>5, <2>6, <2>7, <2>8, <2>9 DEF ClaimsOf
<1> QED
  BY <1>1, <1>2

LEMMA ClaimsThenSame ==
  ASSUME NEW b, NEW c, NEW d, NEW m, NEW end, ClaimsOf(c, b, m, end), SameClaims(d, c, m)
  PROVE  ClaimsOf(d, b, m, end)
  BY DEF ClaimsOf, SameClaims

LEMMA SameThenClaims ==
  ASSUME NEW b, NEW c, NEW d, NEW m, NEW end, SameClaims(c, b, m), ClaimsOf(d, c, m, end)
  PROVE  ClaimsOf(d, b, m, end)
<1>1. c.claimed[m] = b.claimed[m] /\ c.prefix[m] = b.prefix[m] /\ AllocOf(c, m) = AllocOf(b, m)
  BY DEF SameClaims
<1>2. Allocated(c, m, end) = Allocated(b, m, end)
  BY <1>1 DEF Allocated, NewUnits
<1> QED
  BY <1>1, <1>2 DEF ClaimsOf, SameClaims

\* The first k members have claimed.
ClaimedTo(c, b, end, k) ==
  /\ ClaimShape(c) /\ c.closed = b.closed
  /\ \A m \in Members : (m <= k => ClaimsOf(c, b, m, end)) /\ (k < m => SameClaims(c, b, m))

LEMMA BinaryClaims ==
  ASSUME SourcesTyped, NEW b, ClaimShape(b), NEW end
  PROVE  /\ ClaimShape(Binary(b, end)) /\ Binary(b, end).closed = b.closed
         /\ \A m \in Members : ClaimsOf(Binary(b, end), b, m, end)
<1>1. PICK after : Bonuses(after, b, end) /\ Binary(b, end) = after[Max(Members)]
  BY BinaryMeaning
<1>2. PICK n \in Nat : n = Max(Members) /\ Members \subseteq 1..n
  BY MembersBound
<1>3. after[0] = b /\ \A k \in 1..n : after[k] = IF k \in Members THEN BinaryOf(after[k - 1], k, end) ELSE after[k - 1]
  BY <1>1, <1>2 DEF Bonuses
<1>4. \A m \in Members : m \in Nat /\ 0 < m /\ m <= n
  BY <1>2
<1> DEFINE G == {k \in Nat : ClaimedTo(after[k], b, end, k)}
<1>5. 0 \in G
  BY <1>3, <1>4 DEF ClaimedTo, SameClaims
<1>6. ASSUME NEW k \in 1..n, k - 1 \in G PROVE k \in G
  <2>1. PICK c, d : c = after[k - 1] /\ d = after[k]
    OBVIOUS
  <2>2. /\ ClaimShape(c) /\ c.closed = b.closed /\ k \in Nat
        /\ \A m \in Members : (m < k => ClaimsOf(c, b, m, end)) /\ (k <= m => SameClaims(c, b, m))
    <3>1. ClaimedTo(c, b, end, k - 1) /\ k \in Nat
      BY <1>6, <2>1
    <3>2. \A m \in Members : (m < k => m <= k - 1) /\ (k <= m => k - 1 < m)
      BY <1>4, <3>1
    <3> QED
      BY <3>1, <3>2 DEF ClaimedTo
  <2>3. CASE k \in Members
    <3>1. d = BinaryOf(c, k, end)
      BY <1>3, <2>1, <2>3, Zenon
    <3>2. /\ ClaimShape(d) /\ d.closed = c.closed /\ ClaimsOf(d, c, k, end)
          /\ \A x \in Members \ {k} : SameClaims(d, c, x)
      BY <2>2, <2>3, <3>1, BinaryOfClaims
    <3>3. ASSUME NEW m \in Members
          PROVE  (m <= k => ClaimsOf(d, b, m, end)) /\ (k < m => SameClaims(d, b, m))
      <4>1. CASE m = k
        <5>1. SameClaims(c, b, k)
          BY <1>4, <2>2, <2>3
        <5>2. ClaimsOf(d, b, k, end)
          BY <3>2, <5>1, SameThenClaims
        <5> QED
          BY <1>4, <2>2, <4>1, <5>2
      <4>2. CASE m < k
        <5>1. ClaimsOf(c, b, m, end) /\ SameClaims(d, c, m)
          BY <1>4, <2>2, <3>2, <4>2
        <5>2. ClaimsOf(d, b, m, end)
          BY <5>1, ClaimsThenSame
        <5> QED
          BY <1>4, <2>2, <4>2, <5>2
      <4>3. CASE k < m
        <5>1. SameClaims(c, b, m) /\ SameClaims(d, c, m)
          BY <1>4, <2>2, <3>2, <4>3
        <5>2. SameClaims(d, b, m)
          BY <5>1 DEF SameClaims
        <5> QED
          BY <1>4, <2>2, <4>3, <5>2
      <4> QED
        BY <1>4, <2>2, <4>1, <4>2, <4>3
    <3>4. ClaimedTo(d, b, end, k)
      BY <2>2, <3>2, <3>3 DEF ClaimedTo
    <3> QED
      BY <2>1, <2>2, <3>4
  <2>4. CASE k \notin Members
    <3>1. d = c
      BY <1>3, <2>1, <2>4, Zenon
    <3>2. \A m \in Members : (m <= k => ClaimsOf(c, b, m, end)) /\ (k < m => SameClaims(c, b, m))
      <4>1. \A m \in Members : (m <= k => m < k) /\ (k < m => k <= m)
        BY <1>4, <2>2, <2>4
      <4> QED
        BY <2>2, <4>1
    <3>3. ClaimedTo(d, b, end, k)
      BY <2>2, <3>1, <3>2 DEF ClaimedTo
    <3> QED
      BY <2>1, <2>2, <3>3
  <2> QED
    BY <2>3, <2>4
<1>7. n \in G
  <2> HIDE DEF G
  <2>1. \A k \in 0..n : k \in G
    BY <1>5, <1>6, UpTo
  <2> QED
    BY <2>1
<1> QED
  BY <1>1, <1>2, <1>4, <1>7 DEF ClaimedTo

-----------------------------------------------------------------------------
(* Parts of a volume.                                                      *)

NewAt(v, x, y, i) == {n \in (x + 1)..y : v[n] = i}

LEMMA PartOf ==
  ASSUME NEW S, NEW v \in Seq(S), NEW y \in Nat, y <= Len(v)
  PROVE  /\ SubSeq(v, 1, y) \in Seq(S) /\ Len(SubSeq(v, 1, y)) = y
         /\ \A n \in 1..y : SubSeq(v, 1, y)[n] = v[n]
         /\ \A i : Places(SubSeq(v, 1, y), i) = {n \in 1..y : v[n] = i}
<1>1. PICK w : w = SubSeq(v, 1, y)
  OBVIOUS
<1>2. Len(v) \in Nat /\ \A n \in 1..Len(v) : v[n] \in S
  OBVIOUS
<1>3. PICK one \in Int : one = 1 /\ y \in Int /\ one..y = 1..y
  <2>1. 1 \in Int /\ y \in Int
    OBVIOUS
  <2> QED
    BY <2>1
<1>4. \A n \in one..y : v[n] \in S
  BY <1>2, <1>3
<1>5. /\ SubSeq(v, one, y) \in Seq(S)
      /\ Len(SubSeq(v, one, y)) = IF one <= y THEN y - one + 1 ELSE 0
      /\ \A n \in 1..(y - one + 1) : SubSeq(v, one, y)[n] = v[one + n - 1]
  BY <1>3, <1>4, SubSeqProperties
<1>6. w \in Seq(S) /\ Len(w) = y
  BY <1>1, <1>3, <1>5
<1>7. DOMAIN w = 1..y /\ Len(w) = y
  BY <1>6
<1>8. ASSUME NEW n \in 1..y PROVE w[n] = v[n]
  <2>1. n \in 1..(y - one + 1) /\ one + n - 1 = n
    BY <1>3
  <2>2. SubSeq(v, one, y)[n] = v[one + n - 1]
    BY <1>5, <2>1
  <2> QED
    BY <1>1, <1>3, <2>1, <2>2, Zenon
<1>9. \A i : Places(w, i) = {n \in 1..y : v[n] = i}
  BY <1>7, <1>8 DEF Places
<1> QED
  BY <1>1, <1>6, <1>7, <1>8, <1>9

\* What the places of i in the first y of v have more than those in the first x.
PartGrown(v, x, y, i) ==
  LET p == Places(SubSeq(v, 1, x), i)
      q == Places(SubSeq(v, 1, y), i)
      new == NewAt(v, x, y, i)
  IN /\ q = p \cup new /\ p \cap new = {} /\ q \subseteq Places(v, i)
     /\ IsFiniteSet(p) /\ IsFiniteSet(new) /\ IsFiniteSet(q)
     /\ Cardinality(new) \in 0..y /\ Cardinality(p) \in Nat
     /\ Cardinality(q) = Cardinality(p) + Cardinality(new)

LEMMA PartGrows ==
  ASSUME NEW S, NEW v \in Seq(S), NEW x \in Nat, NEW y \in Nat, x <= y, y <= Len(v), NEW i
  PROVE  PartGrown(v, x, y, i)
<1>1. PICK p, q, new : /\ p = Places(SubSeq(v, 1, x), i) /\ q = Places(SubSeq(v, 1, y), i)
                       /\ new = NewAt(v, x, y, i)
  OBVIOUS
<1>2. Len(v) \in Nat /\ DOMAIN v = 1..Len(v) /\ x <= Len(v)
  OBVIOUS
<1>3. p = {n \in 1..x : v[n] = i} /\ q = {n \in 1..y : v[n] = i}
  BY <1>1, <1>2, PartOf
<1>4. new = {n \in (x + 1)..y : v[n] = i}
  BY <1>1 DEF NewAt
<1>5. /\ \A n : n \in 1..y <=> n \in 1..x \/ n \in (x + 1)..y
      /\ \A n : ~(n \in 1..x /\ n \in (x + 1)..y)
      /\ \A n \in 1..y : n \in 1..Len(v)
  BY <1>2
<1>6. q = p \cup new /\ p \cap new = {}
  BY <1>3, <1>4, <1>5
<1>7. q \subseteq Places(v, i)
  BY <1>2, <1>3, <1>5 DEF Places
<1>8. IsFiniteSet(1..y) /\ Cardinality(1..y) = y
  <2>1. PICK one \in Int : one = 1 /\ (one > y => y = 0) /\ y - one + 1 = y /\ y \in Int
    <3>1. 1 \in Int /\ (1 > y => y = 0) /\ y - 1 + 1 = y /\ y \in Int
      OBVIOUS
    <3> QED
      BY <3>1
  <2>2. IsFiniteSet(one..y) /\ Cardinality(one..y) = y
    BY <2>1, FS_Interval
  <2> QED
    BY <2>1, <2>2
<1>9. q \subseteq 1..y
  BY <1>3
<1>10. IsFiniteSet(q) /\ IsFiniteSet(p) /\ IsFiniteSet(new)
  <2>1. IsFiniteSet(q)
    BY <1>8, <1>9, FS_Subset
  <2> QED
    BY <1>6, <2>1, FS_Subset
<1>11. Cardinality(q) \in Nat /\ Cardinality(p) \in Nat /\ Cardinality(new) \in Nat /\ Cardinality(q) <= y
  BY <1>8, <1>9, <1>10, FS_Subset, FS_CardinalityType
<1>12. Cardinality(q) = Cardinality(p) + Cardinality(new)
  <2>1. Cardinality(p \cup new) = Cardinality(p) + Cardinality(new) - Cardinality(p \cap new)
    BY <1>10, FS_Union
  <2>2. Cardinality(p \cap new) = 0
    BY <1>6, FS_EmptySet
  <2> QED
    BY <1>6, <1>11, <2>1, <2>2
<1>13. Cardinality(new) \in 0..y
  BY <1>11, <1>12
<1> QED
  BY <1>1, <1>6, <1>7, <1>10, <1>11, <1>12, <1>13 DEF PartGrown

\* The new units of a membership, and the records of them.
NewOf(b, m, end, leg, i) ==
  NewAt(Volume(m, leg, end), b.claimed[m] * Block, Pairs(m, end) * Block, i)
AllocatedOn(b, m, end, leg, i) == {a \in Allocated(b, m, end) : a.leg = leg /\ a.source = i}
RecordOf(m, leg, i, end, new) ==
  IF new = {} THEN {}
  ELSE {[member |-> m, leg |-> leg, source |-> i, week |-> end, pv |-> Cardinality(new)]}

LEMMA AllocatedIs ==
  ASSUME SourcesTyped, NEW b, NEW m, NEW end, b.claimed[m] \in Nat, b.claimed[m] <= Pairs(m, end),
         Pairs(m, end) * Block <= Len(Volume(m, "L", end)), Pairs(m, end) * Block <= Len(Volume(m, "R", end)),
         NEW leg \in {"L", "R"}, NEW i \in Sources
  PROVE  AllocatedOn(b, m, end, leg, i) = RecordOf(m, leg, i, end, NewOf(b, m, end, leg, i))
<1>1. PICK new, v, x, y, r :
        /\ v = Volume(m, leg, end) /\ x = b.claimed[m] * Block /\ y = Pairs(m, end) * Block
        /\ new = NewAt(v, x, y, i)
        /\ r = [member |-> m, leg |-> leg, source |-> i, week |-> end, pv |-> Cardinality(new)]
  OBVIOUS
<1>2. Block \in Nat \ {0} /\ Pairs(m, end) \in Nat
  BY PairsNat, EngineAssumption
<1>3. x \in Nat /\ y \in Nat /\ x <= y /\ y = Block * Pairs(m, end)
  BY <1>1, <1>2, ProductMonotone, ProductOf
<1>4. v \in Seq(Sources) /\ y <= Len(v)
  BY <1>1, VolumeTyped
<1>5. IsFiniteSet(new) /\ Cardinality(new) \in 0..y
  <2>1. PartGrown(v, x, y, i)
    BY <1>3, <1>4, PartGrows
  <2> QED
    BY <1>1, <2>1 DEF PartGrown
<1>6. new # {} => Cardinality(new) \in 1..y
  BY <1>3, <1>5, FS_EmptySet
<1>7. new = {} => Cardinality(new) = 0
  BY FS_EmptySet
<1>8. \A a : a \in Allocated(b, m, end) <=>
        /\ a \in [member : {m}, leg : {"L", "R"}, source : Sources, week : {end}, pv : 1..y]
        /\ a.pv = Cardinality({n \in NewUnits(b, m, end) : Volume(m, a.leg, end)[n] = a.source})
  BY <1>3 DEF Allocated
<1>9. {n \in NewUnits(b, m, end) : v[n] = i} = new
  BY <1>1 DEF NewUnits, NewAt
<1>10. ASSUME NEW a, a \in Allocated(b, m, end), a.leg = leg, a.source = i
       PROVE  new # {} /\ a = r
  <2>1. /\ a \in [member : {m}, leg : {"L", "R"}, source : Sources, week : {end}, pv : 1..y]
        /\ a.pv = Cardinality({n \in NewUnits(b, m, end) : Volume(m, a.leg, end)[n] = a.source})
    BY <1>8, <1>10
  <2>2. a.pv = Cardinality(new)
    BY <1>1, <1>9, <1>10, <2>1
  <2>3. a = [member |-> m, leg |-> leg, source |-> i, week |-> end, pv |-> Cardinality(new)]
    BY <1>10, <2>1, <2>2
  <2>4. new # {}
    BY <1>7, <2>1, <2>2
  <2> QED
    BY <1>1, <2>3, <2>4
<1>11. ASSUME new # {} PROVE r \in Allocated(b, m, end) /\ r.leg = leg /\ r.source = i
  <2>1. r \in [member : {m}, leg : {"L", "R"}, source : Sources, week : {end}, pv : 1..y]
    BY <1>1, <1>6, <1>11
  <2>2. r.leg = leg /\ r.source = i /\ r.pv = Cardinality(new)
    BY <1>1
  <2>3. r.pv = Cardinality({n \in NewUnits(b, m, end) : Volume(m, r.leg, end)[n] = r.source})
    BY <1>1, <1>9, <2>2
  <2> QED
    BY <1>8, <2>1, <2>2, <2>3
<1>12. {a \in Allocated(b, m, end) : a.leg = leg /\ a.source = i} = IF new = {} THEN {} ELSE {r}
  BY <1>10, <1>11
<1>13. new = NewOf(b, m, end, leg, i)
  BY <1>1 DEF NewOf
<1>14. RecordOf(m, leg, i, end, new) = IF new = {} THEN {} ELSE {r}
  BY <1>1 DEF RecordOf
<1> QED
  BY <1>12, <1>13, <1>14 DEF AllocatedOn

-----------------------------------------------------------------------------
(* What is claimed is what is allocated.                                   *)

UnitsOn(b, m, leg, i) == {a \in AllocOf(b, m) : a.leg = leg /\ a.source = i}
Worth(used) == SumFunctionOnSet([a \in used |-> a.pv], used)

\* What a membership brought to a leg is allocated, once and no more than it has.
OnceOf(b, m, leg, i) ==
  /\ IsFiniteSet(UnitsOn(b, m, leg, i)) /\ \A a \in UnitsOn(b, m, leg, i) : a.pv \in Nat
  /\ IsFiniteSet(Places(b.prefix[m][leg], i))
  /\ Worth(UnitsOn(b, m, leg, i)) = Cardinality(Places(b.prefix[m][leg], i))
  /\ Cardinality(Places(b.prefix[m][leg], i)) <= source[i].pv
  /\ UnitsOn(b, m, leg, i) # {} => Places(b.prefix[m][leg], i) # {}

VolumeOf(b, m) ==
  /\ b.claimed[m] \in Nat /\ b.prefix[m] = [leg \in {"L", "R"} |-> b.prefix[m][leg]]
  /\ \A leg \in {"L", "R"} : /\ b.prefix[m][leg] \in Seq(Sources)
                             /\ Len(b.prefix[m][leg]) = b.claimed[m] * Block
  /\ \A a \in AllocOf(b, m) : a.leg \in {"L", "R"} /\ a.source \in Sources /\ a.week \in b.closed
  /\ \A i \in Sources : /\ \A leg \in {"L", "R"} : OnceOf(b, m, leg, i)
                        /\ Places(b.prefix[m]["L"], i) = {} \/ Places(b.prefix[m]["R"], i) = {}

LEMMA WorthAdds ==
  ASSUME NEW U, IsFiniteSet(U), NEW r, r \notin U, \A a \in U \cup {r} : a.pv \in Nat
  PROVE  Worth(U \cup {r}) = r.pv + Worth(U) /\ Worth(U) \in Nat
<1> DEFINE f == [a \in U |-> a.pv]
           g == [a \in U \cup {r} |-> a.pv]
<1>1. (\A a \in U : f[a] = g[a] /\ f[a] \in Nat) /\ (\A a \in U \cup {r} : g[a] \in Int) /\ g[r] = r.pv
  OBVIOUS
<1>2. Worth(U \cup {r}) = SumFunctionOnSet(g, U \cup {r}) /\ Worth(U) = SumFunctionOnSet(f, U)
  BY DEF Worth
<1> HIDE DEF f, g
<1>3. SumFunctionOnSet(g, U \cup {r}) = g[r] + SumFunctionOnSet(g, U)
  BY <1>1, SumAdd
<1>4. SumFunctionOnSet(f, U) = SumFunctionOnSet(g, U)
  BY <1>1, SumAlike
<1>5. SumFunctionOnSet(f, U) \in Nat
  BY <1>1, SumNat
<1> QED
  BY <1>1, <1>2, <1>3, <1>4, <1>5

\* Pairs of blocks lie within the volumes.
LEMMA PairsFit ==
  ASSUME SourcesTyped, NEW m, NEW end
  PROVE  \A leg \in {"L", "R"} : Pairs(m, end) * Block <= Len(Volume(m, leg, end))
<1>1. PICK x, y \in Nat : x = Len(Volume(m, "L", end)) /\ y = Len(Volume(m, "R", end))
  <2>1. Len(Volume(m, "L", end)) \in Nat /\ Len(Volume(m, "R", end)) \in Nat
    BY VolumeTyped
  <2> QED
    BY <2>1
<1>2. PICK z \in Nat : z = Least(x, y) /\ z <= x /\ z <= y
  <2>1. Least(x, y) \in Nat /\ Least(x, y) <= x /\ Least(x, y) <= y
    BY DEF Least
  <2> QED
    BY <2>1
<1>3. Block \in Nat \ {0}
  BY EngineAssumption
<1>4. (z \div Block) * Block <= z /\ z \div Block \in Nat
  BY <1>3, QuotientOf
<1>5. PICK p \in Nat : p = Pairs(m, end) /\ p = z \div Block
  <2>1. Pairs(m, end) = z \div Block
    BY <1>1, <1>2 DEF Pairs
  <2> QED
    BY <1>4, <2>1
<1>6. p * Block <= z /\ p * Block \in Nat
  BY <1>3, <1>4, <1>5, ProductOf
<1>7. p * Block <= x /\ p * Block <= y
  BY <1>2, <1>6
<1> QED
  BY <1>1, <1>5, <1>7

\* The bonus of a week allocates the new blocks, and nothing else.
LEMMA OnceStays ==
  ASSUME SourcesTyped, Grows(node), NEW b, NEW d, NEW m \in Members, NEW end, VolumeOf(b, m),
         HistoryKept(b, m, end), b.claimed[m] < Pairs(m, end), end \notin b.closed,
         d.prefix[m] = Prefix(m, Pairs(m, end), end),
         AllocOf(d, m) = AllocOf(b, m) \cup Allocated(b, m, end),
         NEW leg \in {"L", "R"}, NEW i \in Sources
  PROVE  OnceOf(d, m, leg, i) /\ (Places(d.prefix[m][leg], i) # {} => Feeds(i, m, leg))
<1>1. PICK v, x, y, new, r, p, q :
        /\ v = Volume(m, leg, end) /\ x = b.claimed[m] * Block /\ y = Pairs(m, end) * Block
        /\ new = NewAt(v, x, y, i)
        /\ r = [member |-> m, leg |-> leg, source |-> i, week |-> end, pv |-> Cardinality(new)]
        /\ p = Places(b.prefix[m][leg], i) /\ q = Places(d.prefix[m][leg], i)
  OBVIOUS
<1>2. Block \in Nat \ {0} /\ Pairs(m, end) \in Nat /\ b.claimed[m] \in Nat
  BY PairsNat, EngineAssumption DEF VolumeOf
<1>3. x \in Nat /\ y \in Nat /\ x <= y
  BY <1>1, <1>2, ProductMonotone, ProductOf
<1>4. v \in Seq(Sources) /\ y <= Len(v)
  BY <1>1, PairsFit, VolumeTyped
<1>5. b.prefix[m][leg] = SubSeq(v, 1, x) /\ d.prefix[m][leg] = SubSeq(v, 1, y)
  BY <1>1 DEF HistoryKept, Prefix
<1>6. /\ q = p \cup new /\ p \cap new = {} /\ q \subseteq Places(v, i)
      /\ IsFiniteSet(p) /\ IsFiniteSet(new) /\ IsFiniteSet(q)
      /\ Cardinality(new) \in 0..y /\ Cardinality(p) \in Nat
      /\ Cardinality(q) = Cardinality(p) + Cardinality(new)
  <2>1. p = Places(SubSeq(v, 1, x), i) /\ q = Places(SubSeq(v, 1, y), i)
    BY <1>1, <1>5
  <2>2. PartGrown(v, x, y, i)
    BY <1>3, <1>4, PartGrows
  <2> QED
    BY <1>1, <2>1, <2>2, Zenon DEF PartGrown
<1>7. {a \in Allocated(b, m, end) : a.leg = leg /\ a.source = i} = IF new = {} THEN {} ELSE {r}
  <2>1. /\ b.claimed[m] <= Pairs(m, end) /\ Pairs(m, end) * Block <= Len(Volume(m, "L", end))
        /\ Pairs(m, end) * Block <= Len(Volume(m, "R", end))
    BY <1>2, PairsFit
  <2>2. AllocatedOn(b, m, end, leg, i) = RecordOf(m, leg, i, end, NewOf(b, m, end, leg, i))
    BY <1>2, <2>1, AllocatedIs
  <2>3. NewOf(b, m, end, leg, i) = new
    BY <1>1 DEF NewOf
  <2>4. RecordOf(m, leg, i, end, new) = IF new = {} THEN {} ELSE {r}
    BY <1>1 DEF RecordOf
  <2> QED
    BY <2>2, <2>3, <2>4 DEF AllocatedOn
<1>8. PICK U, W : U = UnitsOn(b, m, leg, i) /\ W = UnitsOn(d, m, leg, i)
  OBVIOUS
<1>9. W = U \cup IF new = {} THEN {} ELSE {r}
  BY <1>7, <1>8 DEF UnitsOn
<1>10. /\ IsFiniteSet(U) /\ (\A a \in U : a.pv \in Nat) /\ Worth(U) = Cardinality(p)
       /\ Cardinality(p) <= source[i].pv /\ (U # {} => p # {})
  BY <1>1, <1>8 DEF VolumeOf, OnceOf
<1>11. r \notin U
  <2>1. \A a \in U : a.week \in b.closed
    BY <1>8 DEF UnitsOn, VolumeOf
  <2>2. r.week = end
    BY <1>1
  <2> QED
    BY <2>1, <2>2
<1>12. r.pv = Cardinality(new) /\ Cardinality(new) \in Nat
  BY <1>1, <1>6
<1>13. IsFiniteSet(W) /\ (\A a \in W : a.pv \in Nat) /\ Worth(W) = Cardinality(q) /\ (W # {} => q # {})
  <2>1. CASE new = {}
    <3>1. W = U /\ q = p
      BY <1>6, <1>9, <2>1
    <3> QED
      BY <1>10, <3>1
  <2>2. CASE new # {}
    <3>1. W = U \cup {r}
      BY <1>9, <2>2
    <3>2. \A a \in U \cup {r} : a.pv \in Nat
      BY <1>10, <1>12
    <3>3. Worth(U \cup {r}) = r.pv + Worth(U) /\ Worth(U) \in Nat
      BY <1>10, <1>11, <3>2, WorthAdds
    <3>4. Worth(W) = Cardinality(q)
      BY <1>6, <1>10, <1>12, <3>1, <3>3
    <3>5. IsFiniteSet(W)
      BY <1>10, <3>1, FS_AddElement
    <3> QED
      BY <1>6, <2>2, <3>1, <3>2, <3>4, <3>5
  <2> QED
    BY <2>1, <2>2
<1>14. /\ IsFiniteSet(Places(v, i)) /\ Cardinality(Places(v, i)) <= source[i].pv
       /\ Places(v, i) # {} => Feeds(i, m, leg)
  BY <1>1, VolumeUnits
<1>15. Cardinality(q) <= source[i].pv
  <2>1. Cardinality(q) <= Cardinality(Places(v, i)) /\ Cardinality(q) \in Nat /\ Cardinality(Places(v, i)) \in Nat
    BY <1>6, <1>14, FS_Subset, FS_CardinalityType
  <2>2. source[i].pv \in Nat
    BY SourceFacts DEF SourceRec
  <2> QED
    BY <1>14, <2>1, <2>2
<1>16. q # {} => Feeds(i, m, leg)
  BY <1>6, <1>14
<1> QED
  BY <1>1, <1>6, <1>8, <1>13, <1>15, <1>16 DEF OnceOf

LEMMA VolumeClaims ==
  ASSUME SourcesTyped, Grows(node), NEW b, NEW d, NEW m \in Members, NEW end, VolumeOf(b, m),
         ClaimsOf(d, b, m, end), Competes(m, end) => HistoryKept(b, m, end),
         end \notin b.closed, d.closed = b.closed \cup {end}
  PROVE  VolumeOf(d, m)
<1>1. CASE SameClaims(d, b, m)
  <2>1. d.claimed[m] = b.claimed[m] /\ d.prefix[m] = b.prefix[m] /\ AllocOf(d, m) = AllocOf(b, m)
    BY <1>1 DEF SameClaims
  <2>2. \A leg, i : UnitsOn(d, m, leg, i) = UnitsOn(b, m, leg, i)
    BY <2>1 DEF UnitsOn
  <2>3. \A leg, i : OnceOf(b, m, leg, i) => OnceOf(d, m, leg, i)
    BY <2>1, <2>2 DEF OnceOf
  <2> QED
    BY <2>1, <2>3 DEF VolumeOf
<1>2. CASE ~SameClaims(d, b, m)
  <2>1. /\ Competes(m, end) /\ b.claimed[m] < Pairs(m, end)
        /\ d.claimed[m] = Pairs(m, end) /\ d.prefix[m] = Prefix(m, Pairs(m, end), end)
        /\ AllocOf(d, m) = AllocOf(b, m) \cup Allocated(b, m, end)
    BY <1>2 DEF ClaimsOf
  <2>2. HistoryKept(b, m, end)
    BY <2>1
  <2>3. \A leg \in {"L", "R"}, i \in Sources :
          OnceOf(d, m, leg, i) /\ (Places(d.prefix[m][leg], i) # {} => Feeds(i, m, leg))
    BY <2>1, <2>2, OnceStays
  <2>4. ASSUME NEW i \in Sources
        PROVE  Places(d.prefix[m]["L"], i) = {} \/ Places(d.prefix[m]["R"], i) = {}
    <3>1. ~(Feeds(i, m, "L") /\ Feeds(i, m, "R"))
      BY OneLeg
    <3> QED
      BY <2>3, <3>1
  <2>5. PICK y : y = Pairs(m, end) * Block
    OBVIOUS
  <2>6. Pairs(m, end) \in Nat /\ y \in Nat
    <3>1. Block \in Nat
      BY EngineAssumption
    <3>2. Pairs(m, end) \in Nat
      BY PairsNat
    <3> QED
      BY <2>5, <3>1, <3>2, ProductOf
  <2>7. \A leg \in {"L", "R"} : d.prefix[m][leg] = SubSeq(Volume(m, leg, end), 1, y)
    BY <2>1, <2>5 DEF Prefix
  <2>8. ASSUME NEW leg \in {"L", "R"}
        PROVE  d.prefix[m][leg] \in Seq(Sources) /\ Len(d.prefix[m][leg]) = d.claimed[m] * Block
    <3>1. Volume(m, leg, end) \in Seq(Sources) /\ y <= Len(Volume(m, leg, end))
      BY <2>5, VolumeTyped, PairsFit
    <3>2. SubSeq(Volume(m, leg, end), 1, y) \in Seq(Sources) /\ Len(SubSeq(Volume(m, leg, end), 1, y)) = y
      BY <2>6, <3>1, PartOf
    <3> QED
      BY <2>1, <2>5, <2>7, <3>2
  <2>9. d.prefix[m] = [leg \in {"L", "R"} |-> d.prefix[m][leg]]
    <3>1. PICK f : f = d.prefix[m] /\ f = Prefix(m, Pairs(m, end), end)
      BY <2>1
    <3>2. f = [leg \in {"L", "R"} |-> f[leg]]
      BY <3>1 DEF Prefix
    <3> QED
      BY <3>1, <3>2
  <2>10. \A a \in AllocOf(d, m) : a.leg \in {"L", "R"} /\ a.source \in Sources /\ a.week \in d.closed
    <3>1. \A a \in Allocated(b, m, end) : a.leg \in {"L", "R"} /\ a.source \in Sources /\ a.week = end
      BY DEF Allocated
    <3>2. \A a \in AllocOf(b, m) : a.leg \in {"L", "R"} /\ a.source \in Sources /\ a.week \in b.closed
      BY DEF VolumeOf
    <3> QED
      BY <2>1, <3>1, <3>2
  <2> QED
    BY <2>1, <2>3, <2>4, <2>6, <2>8, <2>9, <2>10 DEF VolumeOf
<1> QED
  BY <1>1, <1>2

-----------------------------------------------------------------------------
(* A history that is kept stays kept.                                      *)

\* The first n blocks of both volumes are as p says.
KeptIn(n, p, v, w) ==
  /\ n <= Least(Len(v), Len(w)) \div Block
  /\ p = [leg \in {"L", "R"} |-> SubSeq(IF leg = "L" THEN v ELSE w, 1, n * Block)]

LEMMA HistoryIs ==
  ASSUME NEW b, NEW m, NEW end
  PROVE  HistoryKept(b, m, end) <=>
           KeptIn(b.claimed[m], b.prefix[m], Volume(m, "L", end), Volume(m, "R", end))
<1>1. \A leg \in {"L", "R"} : Volume(m, leg, end) = IF leg = "L" THEN Volume(m, "L", end) ELSE Volume(m, "R", end)
  OBVIOUS
<1>2. Prefix(m, b.claimed[m], end)
        = [leg \in {"L", "R"} |-> SubSeq(IF leg = "L" THEN Volume(m, "L", end) ELSE Volume(m, "R", end), 1, b.claimed[m] * Block)]
  BY <1>1 DEF Prefix
<1> QED
  BY <1>2 DEF HistoryKept, KeptIn, Pairs

LEMMA PartSame ==
  ASSUME NEW S, NEW v \in Seq(S), NEW w \in Seq(S), Extends(w, v), NEW y \in Nat, y <= Len(v)
  PROVE  SubSeq(w, 1, y) = SubSeq(v, 1, y)
<1>1. PICK s, t : s = SubSeq(v, 1, y) /\ t = SubSeq(w, 1, y)
  OBVIOUS
<1>2. Len(v) \in Nat /\ Len(w) \in Nat /\ y <= Len(w)
  BY DEF Extends
<1>3. s \in Seq(S) /\ Len(s) = y /\ \A n \in 1..y : s[n] = v[n]
  BY <1>1, PartOf
<1>4. t \in Seq(S) /\ Len(t) = y /\ \A n \in 1..y : t[n] = w[n]
  BY <1>1, <1>2, PartOf
<1>5. \A n \in 1..y : t[n] = s[n]
  BY <1>2, <1>3, <1>4 DEF Extends
<1>6. s = t
  BY <1>3, <1>4, <1>5, SeqEqual
<1> QED
  BY <1>1, <1>6

LEMMA KeptLonger ==
  ASSUME NEW S, NEW v \in Seq(S), NEW w \in Seq(S), NEW v1 \in Seq(S), NEW w1 \in Seq(S),
         Extends(v1, v), Extends(w1, w), NEW n \in Nat, NEW p, KeptIn(n, p, v, w)
  PROVE  KeptIn(n, p, v1, w1)
<1>1. PICK x, y, x1, y1 \in Nat : x = Len(v) /\ y = Len(w) /\ x1 = Len(v1) /\ y1 = Len(w1)
  <2>1. Len(v) \in Nat /\ Len(w) \in Nat /\ Len(v1) \in Nat /\ Len(w1) \in Nat
    OBVIOUS
  <2> QED
    BY <2>1
<1>2. x <= x1 /\ y <= y1
  BY <1>1 DEF Extends
<1>3. PICK z, z1 \in Nat : z = Least(x, y) /\ z1 = Least(x1, y1) /\ z <= z1 /\ z <= x /\ z <= y
  <2>1. Least(x, y) \in Nat /\ Least(x1, y1) \in Nat /\ Least(x, y) <= Least(x1, y1)
        /\ Least(x, y) <= x /\ Least(x, y) <= y
    BY <1>2 DEF Least
  <2> QED
    BY <2>1
<1>4. Block \in Nat \ {0}
  BY EngineAssumption
<1>5. z \div Block \in Nat /\ z1 \div Block \in Nat /\ z \div Block <= z1 \div Block /\ (z \div Block) * Block <= z
  BY <1>3, <1>4, DivMonotone, QuotientOf
<1>6. n <= z \div Block
  BY <1>1, <1>3 DEF KeptIn
<1>7. PICK k \in Nat : k = n * Block
  BY <1>4, ProductOf
<1>8. k <= z
  <2>1. PICK q \in Nat : q = z \div Block /\ n <= q /\ q * Block <= z
    BY <1>5, <1>6
  <2>2. n * Block <= q * Block /\ q * Block \in Nat
    BY <1>4, <2>1, ProductMonotone, ProductOf
  <2>3. PICK j \in Nat : j = q * Block /\ k <= j /\ j <= z
    BY <1>7, <2>1, <2>2
  <2> QED
    BY <1>3, <2>3
<1>9. SubSeq(v1, 1, k) = SubSeq(v, 1, k) /\ SubSeq(w1, 1, k) = SubSeq(w, 1, k)
  <2>1. k <= Len(v) /\ k <= Len(w)
    BY <1>1, <1>3, <1>8
  <2> QED
    BY <2>1, PartSame
<1>10. n <= z1 \div Block
  BY <1>5, <1>6
<1>11. n <= Least(Len(v1), Len(w1)) \div Block
  BY <1>1, <1>3, <1>10
<1>12. p = [leg \in {"L", "R"} |-> SubSeq(IF leg = "L" THEN v1 ELSE w1, 1, k)]
  <2>1. p = [leg \in {"L", "R"} |-> SubSeq(IF leg = "L" THEN v ELSE w, 1, k)]
    BY <1>7 DEF KeptIn
  <2>2. \A leg \in {"L", "R"} : SubSeq(IF leg = "L" THEN v ELSE w, 1, k) = SubSeq(IF leg = "L" THEN v1 ELSE w1, 1, k)
    BY <1>9
  <2> QED
    BY <2>1, <2>2
<1> QED
  BY <1>7, <1>11, <1>12 DEF KeptIn

LEMMA HistoryClaims ==
  ASSUME SourcesTyped, DaysInOrder, NEW b, NEW d, NEW m, NEW end \in Nat, NEW later \in Nat, end <= later,
         ClaimsOf(d, b, m, end), HistoryKept(b, m, later)
  PROVE  HistoryKept(d, m, later)
<1>1. CASE SameClaims(d, b, m)
  BY <1>1 DEF SameClaims, HistoryKept
<1>2. CASE ~SameClaims(d, b, m)
  <2>1. d.claimed[m] = Pairs(m, end) /\ d.prefix[m] = Prefix(m, Pairs(m, end), end)
    BY <1>2 DEF ClaimsOf
  <2>2. Pairs(m, end) \in Nat
    BY PairsNat
  <2>3. HistoryKept(d, m, end)
    BY <2>1, <2>2 DEF HistoryKept
  <2>4. PICK v, w, v1, w1 : /\ v = Volume(m, "L", end) /\ w = Volume(m, "R", end)
                            /\ v1 = Volume(m, "L", later) /\ w1 = Volume(m, "R", later)
    OBVIOUS
  <2>5. v \in Seq(Sources) /\ w \in Seq(Sources) /\ v1 \in Seq(Sources) /\ w1 \in Seq(Sources)
    BY <2>4, VolumeTyped
  <2>6. Extends(v1, v) /\ Extends(w1, w)
    BY <2>4, VolumeLonger
  <2>7. KeptIn(d.claimed[m], d.prefix[m], v, w)
    BY <2>3, <2>4, HistoryIs
  <2>8. KeptIn(d.claimed[m], d.prefix[m], v1, w1)
    BY <2>1, <2>2, <2>5, <2>6, <2>7, KeptLonger
  <2> QED
    BY <2>4, <2>8, HistoryIs
<1> QED
  BY <1>1, <1>2

\* What is claimed in a book is claimed in one that has the same claims.
LEMMA SameShape ==
  ASSUME NEW b, NEW c, ClaimsAs(c, b), ClaimShape(b)
  PROVE  ClaimShape(c) /\ c.closed = b.closed /\ \A m : SameClaims(c, b, m)
  BY DEF ClaimsAs, ClaimShape, SameClaims, AllocOf

\* The week that closes, and who claims in it.
LEMMA CloseWeekClaims ==
  ASSUME SourcesTyped, source # <<>>, NEW b, Good(b), ClaimShape(b), NEW end \in Nat, end = WeekEnd(b)
  PROVE  /\ ClaimShape(CloseWeek(b)) /\ CloseWeek(b).closed = b.closed \cup {end}
         /\ \A m \in Members : ClaimsOf(CloseWeek(b), b, m, end)
<1>1. PICK r, c, p, d : /\ r = Referrals(b, end) /\ c = Binary(r, end) /\ p = Paid(c, end)
                        /\ d = [p EXCEPT !.closed = @ \cup {end}]
  OBVIOUS
<1>2. CloseWeek(b) = d
  BY <1>1 DEF CloseWeek
<1>3. ClaimShape(r) /\ r.closed = b.closed /\ \A m : SameClaims(r, b, m)
  <2>1. ClaimsAs(r, b)
    BY <1>1, ReferralsClaim
  <2> QED
    BY <2>1, SameShape
<1>4. ClaimShape(c) /\ c.closed = b.closed /\ \A m \in Members : ClaimsOf(c, b, m, end)
  <2>1. ClaimShape(c) /\ c.closed = r.closed /\ \A m \in Members : ClaimsOf(c, r, m, end)
    BY <1>1, <1>3, BinaryClaims
  <2> QED
    BY <1>3, <2>1, SameThenClaims
<1>5. Len(c.owed) \in Nat
  <2>1. Shape(b) /\ OwedKept(b) /\ CapsKept(b)
    BY DEF Good
  <2>2. Owes(r, b)
    BY <1>1, <2>1, ReferralsOwe
  <2>3. Shape(r) /\ OwedKept(r) /\ CapsKept(r)
    BY <2>1, <2>2, CapsAsBefore DEF Owes
  <2>4. Shape(c)
    BY <1>1, <2>3, BinaryOwes DEF Owes
  <2> QED
    BY <2>4 DEF Shape
<1>6. ClaimShape(p) /\ p.closed = c.closed /\ \A m : SameClaims(p, c, m)
  <2>1. ClaimsAs(p, c)
    BY <1>1, <1>5, PaidClaims
  <2> QED
    BY <1>4, <2>1, SameShape
<1>7. ClaimShape(d) /\ d.closed = p.closed \cup {end} /\ \A m : SameClaims(d, p, m)
  <2>1. DOMAIN p = Fields
    BY <1>6 DEF ClaimShape
  <2>2. /\ DOMAIN d = Fields /\ d.closed = p.closed \cup {end}
        /\ d.claimed = p.claimed /\ d.prefix = p.prefix /\ d.allocation = p.allocation
    BY <1>1, <2>1 DEF Fields
  <2> QED
    BY <1>6, <2>2 DEF ClaimShape, SameClaims, AllocOf
<1>8. \A m \in Members : ClaimsOf(d, b, m, end)
  BY <1>4, <1>6, <1>7, ClaimsThenSame
<1> QED
  BY <1>2, <1>4, <1>6, <1>7, <1>8

-----------------------------------------------------------------------------
(* What holds of the claims of a book.                                     *)

VolumeGood(b) == ClaimShape(b) /\ \A m \in Members : VolumeOf(b, m)

\* After the last week that closed, every volume begins as it was claimed.
HistoryGood(b) ==
  \A m \in Members : \A later \in Nat : (\A e \in b.closed : e <= later) => HistoryKept(b, m, later)

LEMMA CloseWeekVolume ==
  ASSUME SourcesTyped, source # <<>>, Grows(node), DaysInOrder, NEW b, Good(b), VolumeGood(b),
         Over(WeekEnd(b)), Sound(b)
  PROVE  VolumeGood(CloseWeek(b)) /\ (HistoryGood(b) => HistoryGood(CloseWeek(b)))
<1>1. PICK d : d = CloseWeek(b)
  OBVIOUS
<1>2. PICK end \in Nat : end = WeekEnd(b) /\ (\A e \in b.closed : e < end) /\ b.closed \subseteq Nat
  <2>1. WeeksAccrued(b) /\ Today \in Nat
    BY SourceFacts DEF Good
  <2>2. WeekEnd(b) \in 0..Today /\ \A e \in b.closed : e < WeekEnd(b)
    BY <2>1, NextWeek
  <2>3. b.closed \subseteq Nat /\ WeekEnd(b) \in Nat
    BY <2>1, <2>2 DEF WeeksAccrued
  <2> QED
    BY <2>2, <2>3
<1>3. ClaimShape(d) /\ d.closed = b.closed \cup {end} /\ \A m \in Members : ClaimsOf(d, b, m, end)
  BY <1>1, <1>2, CloseWeekClaims DEF VolumeGood
<1>4. end \notin b.closed
  BY <1>2
<1>5. ASSUME NEW m \in Members PROVE VolumeOf(d, m)
  <2>1. Competes(m, end) => HistoryKept(b, m, end)
    BY <1>2 DEF Sound
  <2>2. VolumeOf(b, m) /\ ClaimsOf(d, b, m, end)
    BY <1>3 DEF VolumeGood
  <2> QED
    BY <1>3, <1>4, <2>1, <2>2, VolumeClaims
<1>6. ASSUME HistoryGood(b), NEW m \in Members, NEW later \in Nat, \A e \in d.closed : e <= later
      PROVE  HistoryKept(d, m, later)
  <2>1. end <= later /\ \A e \in b.closed : e <= later
    BY <1>3, <1>6
  <2>2. HistoryKept(b, m, later) /\ ClaimsOf(d, b, m, end)
    BY <1>3, <1>6, <2>1 DEF HistoryGood
  <2> QED
    BY <1>2, <2>1, <2>2, HistoryClaims
<1> QED
  BY <1>1, <1>3, <1>5, <1>6 DEF VolumeGood, HistoryGood

LEMMA ClaimsAsVolume ==
  ASSUME NEW b, NEW c, ClaimsAs(c, b), VolumeGood(b)
  PROVE  VolumeGood(c) /\ (HistoryGood(b) => HistoryGood(c))
<1>1. ClaimShape(c) /\ c.closed = b.closed /\ \A m : SameClaims(c, b, m)
  BY SameShape DEF VolumeGood
<1>2. \A m : c.claimed[m] = b.claimed[m] /\ c.prefix[m] = b.prefix[m] /\ AllocOf(c, m) = AllocOf(b, m)
  BY <1>1 DEF SameClaims
<1>3. \A m, leg, i : UnitsOn(c, m, leg, i) = UnitsOn(b, m, leg, i)
  BY <1>2 DEF UnitsOn
<1>4. \A m, leg, i : OnceOf(b, m, leg, i) => OnceOf(c, m, leg, i)
  BY <1>2, <1>3 DEF OnceOf
<1>5. \A m \in Members : VolumeOf(c, m)
  BY <1>1, <1>2, <1>4, ZenonT(60) DEF VolumeGood, VolumeOf
<1>6. HistoryGood(b) => HistoryGood(c)
  BY <1>1, <1>2 DEF HistoryGood, HistoryKept
<1> QED
  BY <1>1, <1>5, <1>6 DEF VolumeGood

LEMMA ClosedVolume ==
  ASSUME SourcesTyped, source # <<>>, Grows(node), DaysInOrder, NEW b, Good(b), VolumeGood(b),
         NEW n \in Nat, MayClose(b, n)
  PROVE  VolumeGood(Closed(b, n)) /\ (HistoryGood(b) => HistoryGood(Closed(b, n)))
<1>1. PICK after : Closings(after, b, n) /\ \A k \in 0..n : Closed(b, k) = after[k]
  BY ClosedEach
<1>2. after[0] = b /\ \A k \in 1..n : after[k] = CloseWeek(after[k - 1])
  BY <1>1 DEF Closings
<1>3. /\ n > 0 => Due(b) = {}
      /\ \A k \in 0..(n - 1) : Over(WeekEnd(Closed(b, k))) /\ Sound(Closed(b, k))
  BY DEF MayClose
<1> DEFINE H == {k \in Nat : /\ Good(after[k]) /\ (n > 0 => Due(after[k]) = {})
                             /\ VolumeGood(after[k]) /\ (HistoryGood(b) => HistoryGood(after[k]))}
<1>4. 0 \in H
  BY <1>2, <1>3
<1>5. ASSUME NEW k \in 1..n, k - 1 \in H PROVE k \in H
  <2>1. k - 1 \in 0..(n - 1) /\ k - 1 \in 0..n /\ k \in Nat /\ n > 0
    OBVIOUS
  <2>2. PICK c, d : c = after[k - 1] /\ d = after[k]
    OBVIOUS
  <2>3. Good(c) /\ Due(c) = {} /\ VolumeGood(c) /\ (HistoryGood(b) => HistoryGood(c))
    BY <1>5, <2>1, <2>2
  <2>4. Over(WeekEnd(c)) /\ Sound(c)
    <3>1. c = Closed(b, k - 1)
      BY <1>1, <2>1, <2>2
    <3> QED
      BY <1>3, <2>1, <3>1
  <2>5. d = CloseWeek(c)
    BY <1>2, <2>2, Zenon
  <2>6. Good(d) /\ Due(d) = {}
    BY <2>3, <2>4, <2>5, CloseWeekGood
  <2>7. VolumeGood(d) /\ (HistoryGood(c) => HistoryGood(d))
    BY <2>3, <2>4, <2>5, CloseWeekVolume
  <2> QED
    BY <2>1, <2>2, <2>3, <2>6, <2>7
<1>6. n \in H
  <2> HIDE DEF H
  <2>1. \A k \in 0..n : k \in H
    BY <1>4, <1>5, UpTo
  <2> QED
    BY <2>1
<1>7. n \in 0..n
  OBVIOUS
<1> QED
  BY <1>1, <1>6, <1>7

-----------------------------------------------------------------------------
(* From one state to the next.                                             *)

\* The claims of a book are good in the next state, whoever entered.
LEMMA VolumeCarried ==
  ASSUME SourcesTyped, SourcesTyped', MoreSources, NEW c, VolumeGood(c), ClaimsAs(book', c)
  PROVE  VolumeGood(book)'
<1>1. PICK b : b = book' /\ VolumeGood(b)
  BY ClaimsAsVolume
<1>2. PICK S, T : S = Sources /\ T = Sources' /\ S \subseteq T /\ \A i \in T : source'[i].pv \in Nat
  <2>1. Sources = 1..Len(source) /\ Len(source) \in Nat
    BY SourceFacts
  <2>2. Sources' = 1..Len(source') /\ Len(source') \in Nat
    BY LotsNext DEF LotsGood
  <2>3. \A i \in Sources' : source'[i].pv \in Nat
    <3>1. source' \in Seq(SourceRec')
      BY DEF SourcesTyped
    <3>2. \A i \in Sources' : source'[i] \in SourceRec'
      BY <2>2, <3>1
    <3> QED
      BY <3>2 DEF SourceRec
  <2> QED
    BY <2>1, <2>2, <2>3 DEF MoreSources
<1>3. \A i \in S : source'[i] = source[i]
  BY <1>2 DEF MoreSources
<1>4. Seq(S) \subseteq Seq(T)
  BY <1>2, SeqWider
<1>5. ASSUME NEW m \in Members PROVE VolumeOf(b, m)'
  <2>1. VolumeOf(b, m)
    BY <1>1 DEF VolumeGood
  <2>2. /\ b.claimed[m] \in Nat /\ b.prefix[m] = [leg \in {"L", "R"} |-> b.prefix[m][leg]]
        /\ \A leg \in {"L", "R"} : b.prefix[m][leg] \in Seq(S) /\ Len(b.prefix[m][leg]) = b.claimed[m] * Block
        /\ \A a \in AllocOf(b, m) : a.leg \in {"L", "R"} /\ a.source \in S /\ a.week \in b.closed
        /\ \A i \in S : /\ \A leg \in {"L", "R"} : OnceOf(b, m, leg, i)
                        /\ Places(b.prefix[m]["L"], i) = {} \/ Places(b.prefix[m]["R"], i) = {}
    BY <1>2, <2>1 DEF VolumeOf
  <2>3. ASSUME NEW i \in T, i \notin S, NEW leg \in {"L", "R"}
        PROVE  UnitsOn(b, m, leg, i) = {} /\ Places(b.prefix[m][leg], i) = {}
    <3>1. UnitsOn(b, m, leg, i) = {}
      BY <2>2, <2>3 DEF UnitsOn
    <3>2. PICK p : p = b.prefix[m][leg] /\ p \in Seq(S)
      BY <2>2
    <3>3. \A n \in DOMAIN p : p[n] \in S
      BY <3>2
    <3>4. Places(p, i) = {}
      BY <2>3, <3>3 DEF Places
    <3> QED
      BY <3>1, <3>2, <3>4
  <2>4. ASSUME NEW i \in T, NEW leg \in {"L", "R"} PROVE OnceOf(b, m, leg, i)'
    <3>1. CASE i \in S
      <4>1. OnceOf(b, m, leg, i)
        BY <2>2, <3>1
      <4> QED
        BY <1>3, <3>1, <4>1 DEF OnceOf
    <3>2. CASE i \notin S
      <4>1. UnitsOn(b, m, leg, i) = {} /\ Places(b.prefix[m][leg], i) = {}
        BY <2>3, <3>2
      <4>2. Worth({}) = 0
        BY SumEmpty DEF Worth
      <4>3. IsFiniteSet({}) /\ Cardinality({}) = 0
        BY FS_EmptySet
      <4>4. 0 <= source'[i].pv
        BY <1>2
      <4> QED
        BY <4>1, <4>2, <4>3, <4>4 DEF OnceOf
    <3> QED
      BY <3>1, <3>2
  <2>5. \A i \in T : Places(b.prefix[m]["L"], i) = {} \/ Places(b.prefix[m]["R"], i) = {}
    BY <2>2, <2>3
  <2>6. \A leg \in {"L", "R"} : b.prefix[m][leg] \in Seq(T)
    BY <1>4, <2>2
  <2> QED
    BY <1>2, <2>2, <2>4, <2>5, <2>6 DEF VolumeOf
<1> QED
  BY <1>1, <1>5 DEF VolumeGood

\* What is known of every state, so that it is known of the next one.
HistoryAll ==
  \A m, end : HistoryKept(book, m, end) <=>
                KeptIn(book.claimed[m], book.prefix[m], Volume(m, "L", end), Volume(m, "R", end))

LEMMA HistoryAlways == HistoryAll
  BY HistoryIs DEF HistoryAll

LEMMA HistoryNext == HistoryAll'
  BY HistoryAlways, PTL

VolumesAre == SourcesTyped => \A m, leg, end : Volume(m, leg, end) \in Seq(Sources)

LEMMA VolumesAlways == VolumesAre
  BY VolumeTyped DEF VolumesAre

LEMMA VolumesNext == VolumesAre'
  BY VolumesAlways, PTL

\* While nobody is moved, a volume begins as it was claimed, whoever entered.
LEMMA HistoryCarried ==
  ASSUME SourcesTyped, SourcesTyped', Grows(node), SameSlots, Held, MoreSources,
         NEW c, VolumeGood(c), HistoryGood(c), ClaimsAs(book', c)
  PROVE  HistoryGood(book)'
<1>1. /\ book'.closed = c.closed /\ \A m : book'.claimed[m] = c.claimed[m] /\ book'.prefix[m] = c.prefix[m]
  BY DEF ClaimsAs, VolumeGood, ClaimShape
<1>2. ASSUME NEW m \in Members, NEW later \in Nat, \A e \in c.closed : e <= later
      PROVE  HistoryKept(book, m, later)'
  <2>1. HistoryKept(c, m, later)
    BY <1>2 DEF HistoryGood
  <2>2. PICK v, w, v1, w1 : /\ v = Volume(m, "L", later) /\ w = Volume(m, "R", later)
                            /\ v1 = Volume(m, "L", later)' /\ w1 = Volume(m, "R", later)'
    OBVIOUS
  <2>3. PICK S, T : S = Sources /\ T = Sources' /\ S \subseteq T
    <3>1. Sources = 1..Len(source) /\ Len(source) \in Nat /\ Sources' = 1..Len(source') /\ Len(source') \in Nat
      BY LotsAlways, LotsNext DEF LotsGood
    <3> QED
      BY <3>1 DEF MoreSources
  <2>4. v \in Seq(T) /\ w \in Seq(T) /\ v1 \in Seq(T) /\ w1 \in Seq(T)
    <3>1. v \in Seq(S) /\ w \in Seq(S)
      BY <2>2, <2>3, VolumeTyped
    <3>2. v1 \in Seq(T) /\ w1 \in Seq(T)
      BY <2>2, <2>3, VolumesNext DEF VolumesAre
    <3> QED
      BY <2>3, <3>1, <3>2, SeqWider
  <2>5. Extends(v1, v) /\ Extends(w1, w)
    BY <2>2, VolumeAppended
  <2>6. KeptIn(c.claimed[m], c.prefix[m], v, w)
    BY <2>1, <2>2, HistoryIs
  <2>7. c.claimed[m] \in Nat
    BY DEF VolumeGood, VolumeOf
  <2>8. KeptIn(c.claimed[m], c.prefix[m], v1, w1)
    BY <2>4, <2>5, <2>6, <2>7, KeptLonger
  <2>9. HistoryKept(book, m, later)' <=> KeptIn(book'.claimed[m], book'.prefix[m], v1, w1)
    BY <2>2, HistoryNext DEF HistoryAll
  <2> QED
    BY <1>1, <2>8, <2>9
<1> QED
  BY <1>1, <1>2 DEF HistoryGood

\* Who has claimed nothing has nothing that could change.
NothingClaimed ==
  SourcesTyped /\ VolumeGood(book) =>
    \A m \in Members : \A end : book.claimed[m] = 0 => HistoryKept(book, m, end)

LEMMA NothingAlways == NothingClaimed
<1> SUFFICES ASSUME SourcesTyped, VolumeGood(book), NEW m \in Members, NEW end, book.claimed[m] = 0
             PROVE  HistoryKept(book, m, end)
  BY DEF NothingClaimed
<1>1. Pairs(m, end) \in Nat
  BY PairsNat
<1>2. Block \in Nat
  BY EngineAssumption
<1>3. VolumeOf(book, m)
  BY DEF VolumeGood
<1>4. \A leg \in {"L", "R"} : book.prefix[m][leg] \in Seq(Sources) /\ Len(book.prefix[m][leg]) = 0
  BY <1>2, <1>3 DEF VolumeOf
<1>5. ASSUME NEW leg \in {"L", "R"} PROVE book.prefix[m][leg] = SubSeq(Volume(m, leg, end), 1, 0 * Block)
  <2>1. Volume(m, leg, end) \in Seq(Sources) /\ 0 <= Len(Volume(m, leg, end))
    BY VolumeTyped
  <2>2. SubSeq(Volume(m, leg, end), 1, 0) \in Seq(Sources) /\ Len(SubSeq(Volume(m, leg, end), 1, 0)) = 0
    BY <2>1, PartOf
  <2>3. 0 * Block = 0
    BY <1>2
  <2>4. PICK p, q \in Seq(Sources) : p = book.prefix[m][leg] /\ q = SubSeq(Volume(m, leg, end), 1, 0)
                                     /\ Len(p) = 0 /\ Len(q) = 0
    BY <1>4, <2>2
  <2>5. p = q
    BY <2>4, EmptySeq
  <2> QED
    BY <2>3, <2>4, <2>5
<1>6. book.prefix[m] = [leg \in {"L", "R"} |-> book.prefix[m][leg]]
  BY <1>3 DEF VolumeOf
<1>7. book.prefix[m] = Prefix(m, 0, end)
  BY <1>5, <1>6 DEF Prefix
<1> QED
  BY <1>1, <1>7 DEF HistoryKept

LEMMA NothingNext == NothingClaimed'
  BY NothingAlways, PTL

-----------------------------------------------------------------------------
(* The inductive invariant of the volume.                                  *)

\* The tree of the members, their memberships and instructions, and their claims.
NodeTyped ==
  DOMAIN node = Members /\ \A m \in Members : DOMAIN node[m] = {"parent", "leg", "status"}

InstructionsHeld == \A k \in Operations : manual[k] = NoInstruction \/ manual[k].member \in Members

VolumeInv ==
  /\ EngineInv
  /\ NodeTyped /\ Grows(node) /\ Held /\ InstructionsHeld /\ DaysInOrder
  /\ VolumeGood(book)

LEMMA VolumeStart == EngineInit => VolumeInv /\ HistoryGood(book)
<1> SUFFICES ASSUME EngineInit PROVE VolumeInv /\ HistoryGood(book)
  OBVIOUS
<1>1. EngineInv /\ SourcesTyped
  BY EngineStart DEF EngineInv
<1>2. /\ source = <<>> /\ manual = [k \in Operations |-> NoInstruction]
      /\ node = [m \in Members |-> [parent |-> FirstNode[m].parent, leg |-> FirstNode[m].leg, status |-> "active"]]
  BY DEF EngineInit
<1>3. Sources = {}
  BY <1>2 DEF Sources
<1>4. NodeTyped
  BY <1>2 DEF NodeTyped
<1>5. Grows(node)
  <2>1. \A m \in Members : node[m].parent = FirstNode[m].parent
    BY <1>2
  <2> QED
    BY <2>1, FirstTreeAssumption DEF Grows
<1>6. Held /\ DaysInOrder /\ InstructionsHeld
  BY <1>2, <1>3 DEF Held, DaysInOrder, InstructionsHeld
<1>7. /\ DOMAIN book = Fields /\ book.claimed = [m \in Members |-> 0]
      /\ book.prefix = [m \in Members |-> [L |-> <<>>, R |-> <<>>]]
      /\ book.allocation = {} /\ book.closed = {}
  BY DEF EngineInit, Fields
<1>8. ClaimShape(book)
  BY <1>7 DEF ClaimShape
<1>9. ASSUME NEW m \in Members PROVE VolumeOf(book, m)
  <2>1. PICK p : p = book.prefix[m] /\ p = [L |-> <<>>, R |-> <<>>]
    BY <1>7
  <2>2. p = [leg \in {"L", "R"} |-> p[leg]] /\ \A leg \in {"L", "R"} : p[leg] = <<>>
    BY <2>1
  <2>3. \A leg \in {"L", "R"} : p[leg] \in Seq(Sources) /\ Len(p[leg]) = 0
    BY <2>2, EmptySeq
  <2>4. Block \in Nat /\ 0 * Block = 0
    BY EngineAssumption
  <2>5. book.claimed[m] = 0 /\ AllocOf(book, m) = {}
    BY <1>7 DEF AllocOf
  <2> QED
    BY <1>3, <2>1, <2>2, <2>3, <2>4, <2>5 DEF VolumeOf
<1>10. VolumeGood(book)
  BY <1>8, <1>9 DEF VolumeGood
<1>11. \A m \in Members : book.claimed[m] = 0
  BY <1>7
<1>12. HistoryGood(book)
  BY <1>1, <1>10, <1>11, NothingAlways DEF NothingClaimed, HistoryGood
<1> QED
  BY <1>1, <1>4, <1>5, <1>6, <1>10, <1>12 DEF VolumeInv

\* What a step makes of the claims: those of some book that carries them on.
CarriesOn ==
  \E c : /\ VolumeGood(c) /\ (HistoryGood(book) => HistoryGood(c)) /\ ClaimsAs(book', c)

LEMMA RunCarries ==
  ASSUME VolumeInv, NEW n \in Nat, NEW w \in Nat, Run(n, w)
  PROVE  CarriesOn
<1>1. SourcesTyped /\ Good(book) /\ VolumeGood(book) /\ Grows(node) /\ DaysInOrder
  BY DEF VolumeInv, EngineInv
<1>2. PICK b : b = Accrued(book, n)
  OBVIOUS
<1>3. source # <<>> /\ MayClose(b, w) /\ book' = Closed(b, w)
  BY <1>2 DEF Run
<1>4. Good(b)
  BY <1>1, <1>2, AccruedGood
<1>5. VolumeGood(b) /\ (HistoryGood(book) => HistoryGood(b))
  BY <1>1, <1>2, AccruedClaims, ClaimsAsVolume
<1>6. VolumeGood(book') /\ (HistoryGood(b) => HistoryGood(book'))
  <2>1. VolumeGood(Closed(b, w)) /\ (HistoryGood(b) => HistoryGood(Closed(b, w)))
    BY <1>1, <1>3, <1>4, <1>5, ClosedVolume
  <2> QED
    BY <1>3, <2>1
<1> QED
  BY <1>5, <1>6, ClaimsAsItself DEF CarriesOn

\* What every step keeps of the tree, of the memberships and of the instructions.
Keeps ==
  /\ CarriesOn /\ MoreSources /\ (SameSlots \/ book' = book)
  /\ NodeTyped' /\ Grows(node') /\ Held' /\ InstructionsHeld' /\ DaysInOrder'

\* Nobody enters, and nobody is moved.
LEMMA QuietKeeps ==
  ASSUME VolumeInv, source' = source, node' = node, InstructionsHeld', CarriesOn
  PROVE  Keeps
<1>1. NodeTyped' /\ Grows(node') /\ SameSlots
  BY DEF VolumeInv, NodeTyped, SameSlots
<1>2. Sources' = Sources
  BY DEF Sources
<1>3. Held' /\ DaysInOrder'
  BY <1>2 DEF VolumeInv, Held, DaysInOrder
<1>4. MoreSources
  <2>1. Len(source) \in Nat
    BY SourceFacts DEF VolumeInv, EngineInv
  <2> QED
    BY <2>1 DEF MoreSources
<1> QED
  BY <1>1, <1>3, <1>4 DEF Keeps

LEMMA SameBookCarries == VolumeInv /\ book' = book => CarriesOn
<1> SUFFICES ASSUME VolumeInv, book' = book PROVE CarriesOn
  OBVIOUS
<1>1. PICK c : c = book
  OBVIOUS
<1>2. VolumeGood(c) /\ (HistoryGood(book) => HistoryGood(c)) /\ ClaimsAs(book', c)
  BY <1>1, ClaimsAsItself DEF VolumeInv
<1> QED
  BY <1>2 DEF CarriesOn

\* A member that has a place in the tree enters.
LEMMA EntersKeeps ==
  ASSUME VolumeInv, NEW m \in Members, NEW kind, NEW item, Enters(Activation(m, kind, item)),
         node' = node, InstructionsHeld'
  PROVE  Keeps
<1>1. PICK s : s = Activation(m, kind, item) /\ s.member = m /\ s.day = Today
  BY DEF Activation
<1>2. SourcesTyped /\ VolumeGood(book)
  BY DEF VolumeInv, EngineInv
<1>3. PICK n \in Nat : n = Len(source) /\ Sources = 1..n
  BY <1>2, SourceFacts
<1>4. source' = Append(source, s) /\ book' = [book EXCEPT !.roi[n + 1].cut = s.day]
  BY <1>1, <1>3 DEF Enters
<1>5. source \in Seq(SourceRec)
  BY <1>2 DEF SourcesTyped
<1>6. /\ Len(source') = n + 1 /\ source'[n + 1] = s /\ Sources' = 1..(n + 1)
      /\ \A i \in 1..n : source'[i] = source[i]
  BY <1>3, <1>4, <1>5 DEF Sources
<1>7. MoreSources
  BY <1>3, <1>6 DEF MoreSources
<1>8. \A i \in Sources' : i \in Sources \/ i = n + 1
  BY <1>3, <1>6
<1>9. Held'
  BY <1>1, <1>3, <1>6, <1>8 DEF Held, VolumeInv
<1>10. DaysInOrder'
  <2>1. \A i \in Sources : source[i].day \in Nat /\ source[i].day <= Today /\ Today \in Nat
    BY <1>2, SourceFacts
  <2> SUFFICES ASSUME NEW i \in Sources', NEW j \in Sources', i <= j
               PROVE  source'[i].day <= source'[j].day
    BY DEF DaysInOrder
  <2>2. CASE j = n + 1
    <3>1. source'[j].day = Today
      BY <1>1, <1>6, <2>2
    <3>2. source'[i].day <= Today
      <4>1. CASE i = n + 1
        BY <1>1, <1>2, <1>6, <4>1, SourceFacts
      <4>2. CASE i \in Sources
        BY <1>3, <1>6, <2>1, <4>2
      <4> QED
        BY <1>8, <4>1, <4>2
    <3> QED
      BY <3>1, <3>2
  <2>3. CASE j # n + 1
    <3>1. i \in Sources /\ j \in Sources
      BY <1>3, <1>6, <2>3
    <3> QED
      BY <1>3, <1>6, <3>1 DEF DaysInOrder, VolumeInv
  <2> QED
    BY <2>2, <2>3
<1>11. CarriesOn
  <2>1. PICK c : c = book
    OBVIOUS
  <2>2. ClaimsAs(book', c)
    BY <1>4, <2>1 DEF ClaimsAs, Fields
  <2> QED
    BY <1>2, <2>1, <2>2 DEF CarriesOn
<1>12. NodeTyped' /\ Grows(node') /\ SameSlots
  BY DEF VolumeInv, NodeTyped, SameSlots
<1> QED
  BY <1>7, <1>9, <1>10, <1>11, <1>12 DEF Keeps

LEMMA MoveKeeps ==
  ASSUME VolumeInv, NEW m \in Members, NEW p \in Members, NEW leg \in {"L", "R"}, Move(m, p, leg)
  PROVE  Keeps
<1>1. source' = source /\ manual' = manual /\ book' = book /\ node' = [node EXCEPT ![m].parent = p, ![m].leg = leg]
  BY DEF Move
<1>2. NodeTyped /\ NodeTyped'
  BY <1>1 DEF VolumeInv, NodeTyped
<1>3. Grows(node')
  BY <1>2, MoveGrows DEF VolumeInv, NodeTyped
<1>4. Sources' = Sources /\ Len(source) \in Nat
  BY <1>1, SourceFacts DEF Sources, VolumeInv, EngineInv
<1>5. Held' /\ DaysInOrder' /\ InstructionsHeld' /\ MoreSources
  BY <1>1, <1>4 DEF VolumeInv, Held, DaysInOrder, InstructionsHeld, MoreSources
<1> QED
  BY <1>1, <1>2, <1>3, <1>5, SameBookCarries DEF Keeps

LEMMA SuspendKeeps ==
  ASSUME VolumeInv, NEW m \in Members, Suspend(m)
  PROVE  Keeps
<1>1. source' = source /\ manual' = manual /\ book' = book /\ node' = [node EXCEPT ![m].status = "blocked"]
  BY DEF Suspend
<1>2. NodeTyped
  BY DEF VolumeInv
<1>3. NodeTyped' /\ SameSlots
  BY <1>1, <1>2 DEF NodeTyped, SameSlots
<1>4. Grows(node')
  BY <1>3, EngineAssumption DEF VolumeInv, Grows, SameSlots
<1>5. Sources' = Sources /\ Len(source) \in Nat
  BY <1>1, SourceFacts DEF Sources, VolumeInv, EngineInv
<1>6. Held' /\ DaysInOrder' /\ InstructionsHeld' /\ MoreSources
  BY <1>1, <1>5 DEF VolumeInv, Held, DaysInOrder, InstructionsHeld, MoreSources
<1> QED
  BY <1>1, <1>3, <1>4, <1>6, SameBookCarries DEF Keeps

LEMMA EveryStepKeeps == VolumeInv /\ [EngineNext]_engineVars => Keeps
<1> SUFFICES ASSUME VolumeInv, [EngineNext]_engineVars PROVE Keeps
  OBVIOUS
<1>1. ASSUME manual' = manual PROVE InstructionsHeld'
  BY <1>1 DEF VolumeInv, InstructionsHeld
<1>2. ASSUME UNCHANGED <<source, node, book>>, InstructionsHeld' PROVE Keeps
  BY <1>2, SameBookCarries, QuietKeeps
<1>3. ASSUME NEW n \in 0..MaxAccruals, NEW w \in 0..MaxWeeks, Run(n, w) PROVE Keeps
  <2>1. n \in Nat /\ w \in Nat
    BY EngineAssumption
  <2>2. CarriesOn
    BY <1>3, <2>1, RunCarries
  <2>3. UNCHANGED <<source, node, manual>>
    BY <1>3 DEF Run
  <2> QED
    BY <1>1, <2>2, <2>3, QuietKeeps
<1>4. ASSUME NEW m \in Members, NEW item \in DOMAIN Catalog, ActivateNow(m, item) PROVE Keeps
  <2>1. Enters(Activation(m, "nowpayments", item)) /\ node' = node /\ manual' = manual
    BY <1>4 DEF ActivateNow
  <2> QED
    BY <1>1, <2>1, EntersKeeps
<1>5. ASSUME NEW k \in Operations, Apply(k) PROVE Keeps
  <2>1. /\ Enters(Activation(manual[k].member, "manual", "small")) /\ node' = node
        /\ manual' = [manual EXCEPT ![k].source = Len(source) + 1] /\ manual[k] # NoInstruction
    BY <1>5 DEF Apply
  <2>2. manual[k].member \in Members /\ DOMAIN manual = Operations /\ DOMAIN manual[k] = {"member", "seen", "source"}
    BY <2>1 DEF VolumeInv, InstructionsHeld, EngineInv, ManualTyped
  <2>3. InstructionsHeld'
    BY <2>1, <2>2 DEF VolumeInv, InstructionsHeld, EngineInv, ManualTyped
  <2> QED
    BY <2>1, <2>2, <2>3, EntersKeeps
<1>6. ASSUME NEW k \in Operations, NEW m \in Members, Preflight(k, m) PROVE Keeps
  <2>1. /\ manual' = [manual EXCEPT ![k] = [member |-> m, seen |-> node[m], source |-> 0]]
        /\ UNCHANGED <<source, node, book>>
    BY <1>6 DEF Preflight
  <2>2. InstructionsHeld'
    BY <2>1 DEF VolumeInv, InstructionsHeld, EngineInv, ManualTyped
  <2> QED
    BY <1>2, <2>1, <2>2
<1>7. ASSUME Tick \/ Risk PROVE Keeps
  BY <1>1, <1>2, <1>7 DEF Tick, Risk
<1>8. CASE UNCHANGED engineVars
  BY <1>1, <1>2, <1>8 DEF engineVars
<1>9. CASE EngineNext
  BY <1>3, <1>4, <1>5, <1>6, <1>7, <1>9, MoveKeeps, SuspendKeeps DEF EngineNext
<1> QED
  BY <1>8, <1>9

-----------------------------------------------------------------------------
(* The theorems about the volume.                                          *)

LEMMA VolumeStep == VolumeInv /\ [EngineNext]_engineVars => VolumeInv'
<1> SUFFICES ASSUME VolumeInv, [EngineNext]_engineVars PROVE VolumeInv'
  OBVIOUS
<1>1. EngineInv /\ EngineInv' /\ SourcesTyped /\ SourcesTyped'
  BY EngineStep DEF VolumeInv, EngineInv
<1>2. Keeps
  BY EveryStepKeeps
<1>3. PICK c : VolumeGood(c) /\ ClaimsAs(book', c)
  BY <1>2 DEF Keeps, CarriesOn
<1>4. VolumeGood(book)'
  BY <1>1, <1>2, <1>3, VolumeCarried DEF Keeps
<1>5. Grows(node)'
  BY <1>2 DEF Keeps, Grows
<1> QED
  BY <1>1, <1>2, <1>4, <1>5 DEF Keeps, VolumeInv

\* Nobody is moved once somebody has claimed volume.
StaysPut == (\E m \in Members : book.claimed[m] > 0) => SameSlots

LEMMA HistoryStep ==
  VolumeInv /\ HistoryGood(book) /\ [EngineNext]_engineVars /\ StaysPut => HistoryGood(book)'
<1> SUFFICES ASSUME VolumeInv, HistoryGood(book), [EngineNext]_engineVars, StaysPut
             PROVE  HistoryGood(book)'
  OBVIOUS
<1>1. VolumeInv'
  BY VolumeStep
<1>2. SourcesTyped /\ SourcesTyped' /\ Grows(node) /\ Held /\ VolumeGood(book) /\ VolumeGood(book)'
  BY <1>1 DEF VolumeInv, EngineInv
<1>3. Keeps
  BY EveryStepKeeps
<1>4. CASE SameSlots
  <2>1. PICK c : VolumeGood(c) /\ HistoryGood(c) /\ ClaimsAs(book', c)
    BY <1>3 DEF Keeps, CarriesOn
  <2>2. MoreSources
    BY <1>3 DEF Keeps
  <2> QED
    BY <1>2, <1>4, <2>1, <2>2, HistoryCarried
<1>5. CASE ~SameSlots
  <2>1. book' = book
    BY <1>3, <1>5 DEF Keeps
  <2>2. \A m \in Members : book.claimed[m] \in Nat /\ ~(book.claimed[m] > 0)
    BY <1>2, <1>5 DEF StaysPut, VolumeGood, VolumeOf
  <2>3. \A m \in Members : book'.claimed[m] = 0
    BY <2>1, <2>2
  <2>4. \A m \in Members : \A end : HistoryKept(book, m, end)'
    BY <1>2, <2>3, NothingNext DEF NothingClaimed
  <2> QED
    BY <2>4 DEF HistoryGood
<1> QED
  BY <1>4, <1>5

LEMMA UnitsOnce == VolumeInv => UnitsPaidOnce
<1> SUFFICES ASSUME VolumeInv, NEW m \in Members, NEW i \in Sources
             PROVE  LET used == {a \in book.allocation : a.member = m /\ a.source = i}
                    IN /\ SumFunctionOnSet([a \in used |-> a.pv], used) <= source[i].pv
                       /\ \A a, c \in used : a.leg = c.leg
  BY DEF UnitsPaidOnce
<1>1. PICK used : used = {a \in book.allocation : a.member = m /\ a.source = i}
  OBVIOUS
<1>2. VolumeOf(book, m)
  BY DEF VolumeInv, VolumeGood
<1>3. PICK leg \in {"L", "R"} : \A other \in {"L", "R"} : other # leg => Places(book.prefix[m][other], i) = {}
  <2>1. Places(book.prefix[m]["L"], i) = {} \/ Places(book.prefix[m]["R"], i) = {}
    BY <1>2 DEF VolumeOf
  <2> QED
    BY <2>1
<1>4. \A a \in used : a.leg = leg
  <2>1. ASSUME NEW a \in used, a.leg # leg PROVE FALSE
    <3>1. a \in AllocOf(book, m) /\ a.source = i
      BY <1>1, <2>1 DEF AllocOf
    <3>2. a.leg \in {"L", "R"}
      BY <1>2, <3>1 DEF VolumeOf
    <3>3. a \in UnitsOn(book, m, a.leg, i)
      BY <3>1 DEF UnitsOn
    <3>4. OnceOf(book, m, a.leg, i)
      BY <1>2, <3>2 DEF VolumeOf
    <3>5. Places(book.prefix[m][a.leg], i) # {}
      BY <3>3, <3>4 DEF OnceOf
    <3> QED
      BY <1>3, <2>1, <3>2, <3>5
  <2> QED
    BY <2>1
<1>5. used = UnitsOn(book, m, leg, i)
  BY <1>1, <1>4 DEF UnitsOn, AllocOf
<1>6. Worth(used) <= source[i].pv
  BY <1>2, <1>5 DEF VolumeOf, OnceOf
<1> QED
  BY <1>1, <1>4, <1>6 DEF Worth

LEMMA ClaimsStayIn == VolumeInv /\ HistoryGood(book) => ClaimsStay
<1> SUFFICES ASSUME VolumeInv, HistoryGood(book), NEW m \in Members, NEW end \in 0..Today,
                    \A c \in book.closed : c < end
             PROVE  HistoryKept(book, m, end)
  BY DEF ClaimsStay
<1>1. end \in Nat
  OBVIOUS
<1>2. \A c \in book.closed : c <= end
  <2>1. book.closed \subseteq Nat
    BY DEF VolumeInv, EngineInv, Good, WeeksAccrued
  <2> QED
    BY <1>1, <2>1
<1> QED
  BY <1>1, <1>2 DEF HistoryGood

\* UnitsPaidOnce, the first half of VolumePaidOnce: what the weekly closings allocate of the volume
\* of a membership to one member is on one leg and never more than the membership has, in
\* every history of activations, closings and relocations.
THEOREM VolumeNeverPaidTwice == EngineSpec => []UnitsPaidOnce
  BY VolumeStart, VolumeStep, UnitsOnce, PTL DEF EngineSpec

\* VolumePaidOnce: a unit of volume is paid once, and the volume that was claimed stays the
\* beginning of the volume, so that no run stops on a changed history, as long as nobody
\* is moved once somebody has claimed.
THEOREM VolumeIsPaidOnce == EngineSpec /\ [][StaysPut]_engineVars => []VolumePaidOnce
<1>1. VolumeInv /\ HistoryGood(book) => VolumePaidOnce
  BY UnitsOnce, ClaimsStayIn DEF VolumePaidOnce
<1>2. EngineInit => VolumeInv /\ HistoryGood(book)
  BY VolumeStart
<1>3. VolumeInv /\ HistoryGood(book) /\ [EngineNext]_engineVars /\ [StaysPut]_engineVars
        => (VolumeInv /\ HistoryGood(book))'
  <2> SUFFICES ASSUME VolumeInv, HistoryGood(book), [EngineNext]_engineVars, [StaysPut]_engineVars
               PROVE  VolumeInv' /\ HistoryGood(book)'
    OBVIOUS
  <2>1. StaysPut
    BY DEF StaysPut, SameSlots, engineVars
  <2> QED
    BY <2>1, VolumeStep, HistoryStep
<1> QED
  BY <1>1, <1>2, <1>3, PTL DEF EngineSpec
=============================================================================
