-------------------------- MODULE PurchasesProofs --------------------------
(***************************************************************************)
(* Theorems about Purchases for any number of buyers, purchases, Stripe    *)
(* sessions and handlers.                                                  *)
(*                                                                         *)
(* The inductive invariant says what a handler knows at each of its steps: *)
(* which purchase and session it is about (JobsNamed, SessionsNamed), that *)
(* it owns the row lock (LocksHeld), and that what it read under the lock  *)
(* still holds (HoldersSure).                                              *)
(***************************************************************************)
EXTENDS Purchases, TLAPS

\* Steps of a handler that is about a session, that owns the intent's row, and
\* that owns the person's row.
WithSession == {"attach", "ask", "lock", "person", "decide", "commit", "refund", "refunded"}
Activating == {"person", "decide", "commit"}
HoldsIntent == Activating \cup {"reopen_person", "refund", "refunded"}
HoldsPerson == {"decide", "commit", "edit"}
Mailing == {"mail", "release"}

\* A handler is about a purchase that exists (a checkout creates it), and about a
\* session of this purchase.
JobsNamed ==
  \A x \in Workers :
    /\ job[x].pc # "idle" => job[x].intent \in Intents
    /\ job[x].pc \notin {"idle", "create", "edit"} => intent[job[x].intent].status # "none"
    /\ job[x].pc \in WithSession =>
         job[x].session \in Sessions /\ stripe[job[x].session].of = job[x].intent

\* A session Stripe knows is some purchase's; a purchase names sessions of its own.
SessionsNamed ==
  /\ \A s \in Sessions :
       /\ stripe[s].state = "none" => stripe[s].of = None /\ ~stripe[s].declined /\ ~stripe[s].refunded
       /\ stripe[s].state # "none" => /\ stripe[s].of \in Intents
                                      /\ intent[stripe[s].of].status # "none"
  /\ \A i \in Intents :
       /\ intent[i].session # None => stripe[intent[i].session].of = i
       /\ intent[i].pay # None => stripe[intent[i].pay].of = i

\* A checkout creates a row nobody else is about to create.
Creating ==
  \A x \in Workers : job[x].pc = "create" =>
    /\ intent[job[x].intent].status = "none"
    /\ \A y \in Workers : job[y].pc = "create" /\ job[y].intent = job[x].intent => y = x

\* Row locks are where the handlers believe them to be.
LocksHeld == \A x \in Workers : job[x].pc \in HoldsIntent => lock[job[x].intent] = x

PersonsHeld ==
  /\ \A b \in Buyers : plock[b] # None => job[plock[b]].pc \in HoldsPerson
  /\ \A x \in Workers : job[x].pc = "edit" => "edit" \in Happens

\* What a handler read under the row lock still holds.
Sure(x) ==
  LET i == job[x].intent
      s == job[x].session
  IN
  /\ job[x].pc \in Activating => /\ intent[i].status \in {"created", "paid", "needs_placement"}
                                 /\ MatchesIntent(i, s)
  /\ job[x].pc \in Activating \cup {"lock"} => stripe[s].state = "paid"
  /\ job[x].pc = "commit" => job[x].verdict \in {"activated", "needs_placement", "security_blocked"}
  /\ job[x].pc = "reopen_person" => intent[i].status \in Resumable
  /\ job[x].pc \in {"refund", "refunded"} => RefundAllowed(i) /\ intent[i].pay = s

HoldersSure == \A x \in Workers : Sure(x)

\* A purchase whose money the service knows names the payment.
PaymentsKnown == \A i \in Intents : intent[i].status \in Collected => intent[i].pay # None

\* A delivered purchase is activated, or closed later.
DeliveredStays ==
  \A s \in delivered :
    stripe[s].of \in Intents /\ intent[stripe[s].of].status \in {"activated"} \cup Risk

\* A refund made at Stripe is recorded, or about to be.
RefundsMarked ==
  "refundCommitFails" \notin Happens =>
    \A s \in Sessions : stripe[s].refunded =>
      \/ intent[stripe[s].of].status \in Risk
      \/ \E x \in Workers : job[x].pc = "refunded" /\ job[x].session = s

\* Who mails a receipt is alone and the first to do so.
ReceiptsClaimed ==
  /\ \A i \in Intents : receipts[i] = 0 \/ (receipts[i] = 1 /\ claimed[i])
  /\ \A x \in Workers : job[x].pc \in Mailing =>
       /\ claimed[job[x].intent] /\ receipts[job[x].intent] = 0
       /\ \A y \in Workers : job[y].pc \in Mailing /\ job[y].intent = job[x].intent => y = x

IInv ==
  /\ TypeOK
  /\ JobsNamed
  /\ SessionsNamed
  /\ Creating
  /\ LocksHeld
  /\ PersonsHeld
  /\ HoldersSure
  /\ PaymentsKnown
  /\ DeliveredStays
  /\ DeliveredIsPaid
  /\ RefundsMarked
  /\ ReceiptsClaimed

USE ConstantsAssumption

-----------------------------------------------------------------------------
(* What a step does to the record of a handler, of a purchase and of a     *)
(* Stripe session, field by field.                                         *)

JobBecomes(x, pc, i, s, v) ==
  /\ job' \in [Workers -> JobRecord]
  /\ job'[x].pc = pc /\ job'[x].intent = i /\ job'[x].session = s /\ job'[x].verdict = v
  /\ \A y \in Workers \ {x} : job'[y] = job[y]

IntentBecomes(i, st, s, p) ==
  /\ intent' \in [Intents -> IntentRecord]
  /\ intent'[i].status = st /\ intent'[i].session = s /\ intent'[i].pay = p
  /\ \A j \in Intents \ {i} : intent'[j] = intent[j]

LEMMA JobReplaced ==
  ASSUME job \in [Workers -> JobRecord], NEW x \in Workers, NEW r \in JobRecord,
         job' = [job EXCEPT ![x] = r]
  PROVE  JobBecomes(x, r.pc, r.intent, r.session, r.verdict)
  BY DEF JobBecomes

LEMMA IntentReplaced ==
  ASSUME intent \in [Intents -> IntentRecord], NEW i \in Intents, NEW r \in IntentRecord,
         intent' = [intent EXCEPT ![i] = r]
  PROVE  IntentBecomes(i, r.status, r.session, r.pay)
  BY DEF IntentBecomes

LEMMA MoveGoTo ==
  ASSUME job \in [Workers -> JobRecord], NEW x \in Workers, NEW pc \in PCs, GoTo(x, pc)
  PROVE  JobBecomes(x, pc, job[x].intent, job[x].session, job[x].verdict)
<1> DEFINE r == [job[x] EXCEPT !.pc = pc]
<1>1. r \in JobRecord /\ r.pc = pc /\ r.intent = job[x].intent /\ r.session = job[x].session
      /\ r.verdict = job[x].verdict
  BY DEF JobRecord
<1>2. job' = [job EXCEPT ![x] = r]
  BY DEF GoTo
<1> HIDE DEF r
<1> QED
  BY <1>1, <1>2, JobReplaced DEF JobBecomes

LEMMA MoveDone ==
  ASSUME job \in [Workers -> JobRecord], NEW x \in Workers, Done(x)
  PROVE  JobBecomes(x, "idle", None, None, "none")
<1>1. IdleJob \in JobRecord /\ IdleJob.pc = "idle" /\ IdleJob.intent = None
      /\ IdleJob.session = None /\ IdleJob.verdict = "none"
  BY DEF IdleJob, JobRecord, PCs
<1>2. job' = [job EXCEPT ![x] = IdleJob]
  BY DEF Done
<1> QED
  BY <1>1, <1>2, JobReplaced DEF JobBecomes

LEMMA MoveBegin ==
  ASSUME job \in [Workers -> JobRecord], NEW x \in Workers, NEW pc \in PCs,
         NEW i \in Intents, NEW s \in Sessions \cup {None}, Begin(x, pc, i, s)
  PROVE  job[x].pc = "idle" /\ JobBecomes(x, pc, i, s, "none")
<1> DEFINE r == [IdleJob EXCEPT !.pc = pc, !.intent = i, !.session = s]
<1>1. r \in JobRecord /\ r.pc = pc /\ r.intent = i /\ r.session = s /\ r.verdict = "none"
  BY DEF IdleJob, JobRecord
<1>2. job[x].pc = "idle" /\ job' = [job EXCEPT ![x] = r]
  BY DEF Begin
<1> HIDE DEF r
<1> QED
  BY <1>1, <1>2, JobReplaced DEF JobBecomes

LEMMA MoveAttach ==
  ASSUME job \in [Workers -> JobRecord], NEW x \in Workers, NEW s \in Sessions,
         job' = [job EXCEPT ![x] = [@ EXCEPT !.pc = "attach", !.session = s]]
  PROVE  JobBecomes(x, "attach", job[x].intent, s, job[x].verdict)
<1> DEFINE r == [job[x] EXCEPT !.pc = "attach", !.session = s]
<1>1. r \in JobRecord /\ r.pc = "attach" /\ r.intent = job[x].intent /\ r.session = s
      /\ r.verdict = job[x].verdict
  BY ZenonT(60) DEF JobRecord, PCs
<1>2. job' = [job EXCEPT ![x] = r]
  OBVIOUS
<1> HIDE DEF r
<1> QED
  BY <1>1, <1>2, JobReplaced DEF JobBecomes

LEMMA MoveDecide ==
  ASSUME job \in [Workers -> JobRecord], NEW x \in Workers,
         NEW v \in {"activated", "needs_placement", "security_blocked"},
         job' = [job EXCEPT ![x] = [@ EXCEPT !.pc = "commit", !.verdict = v]]
  PROVE  JobBecomes(x, "commit", job[x].intent, job[x].session, v)
<1> DEFINE r == [job[x] EXCEPT !.pc = "commit", !.verdict = v]
<1>1. r \in JobRecord /\ r.pc = "commit" /\ r.intent = job[x].intent
      /\ r.session = job[x].session /\ r.verdict = v
  BY DEF JobRecord, PCs
<1>2. job' = [job EXCEPT ![x] = r]
  OBVIOUS
<1> HIDE DEF r
<1> QED
  BY <1>1, <1>2, JobReplaced DEF JobBecomes

\* The four kinds of UPDATE of a purchase.
LEMMA SetStatus ==
  ASSUME intent \in [Intents -> IntentRecord], NEW i \in Intents, NEW st \in Statuses,
         intent' = [intent EXCEPT ![i].status = st]
  PROVE  IntentBecomes(i, st, intent[i].session, intent[i].pay)
<1> DEFINE r == [intent[i] EXCEPT !.status = st]
<1>1. r \in IntentRecord /\ r.status = st /\ r.session = intent[i].session /\ r.pay = intent[i].pay
  BY DEF IntentRecord
<1>2. intent' = [intent EXCEPT ![i] = r]
  OBVIOUS
<1> HIDE DEF r
<1> QED
  BY <1>1, <1>2, IntentReplaced

LEMMA SetSession ==
  ASSUME intent \in [Intents -> IntentRecord], NEW i \in Intents, NEW s \in Sessions,
         intent' = [intent EXCEPT ![i].session = s]
  PROVE  IntentBecomes(i, intent[i].status, s, intent[i].pay)
<1> DEFINE r == [intent[i] EXCEPT !.session = s]
<1>1. r \in IntentRecord /\ r.status = intent[i].status /\ r.session = s /\ r.pay = intent[i].pay
  BY DEF IntentRecord
<1>2. intent' = [intent EXCEPT ![i] = r]
  OBVIOUS
<1> HIDE DEF r
<1> QED
  BY <1>1, <1>2, IntentReplaced

LEMMA SetStatusAndPay ==
  ASSUME intent \in [Intents -> IntentRecord], NEW i \in Intents, NEW st \in Statuses,
         NEW p \in Sessions \cup {None},
         intent' = [intent EXCEPT ![i] = [@ EXCEPT !.status = st, !.pay = p]]
  PROVE  IntentBecomes(i, st, intent[i].session, p)
<1> DEFINE r == [intent[i] EXCEPT !.status = st, !.pay = p]
<1>1. r \in IntentRecord /\ r.status = st /\ r.session = intent[i].session /\ r.pay = p
  BY DEF IntentRecord
<1>2. intent' = [intent EXCEPT ![i] = r]
  OBVIOUS
<1> HIDE DEF r
<1> QED
  BY <1>1, <1>2, IntentReplaced

LEMMA SetAll ==
  ASSUME intent \in [Intents -> IntentRecord], NEW i \in Intents, NEW st \in Statuses,
         NEW p \in Sessions \cup {None}, NEW s \in Sessions \cup {None},
         intent' = [intent EXCEPT ![i] = [status |-> st, pay |-> p, session |-> s]]
  PROVE  IntentBecomes(i, st, s, p)
<1> DEFINE r == [status |-> st, pay |-> p, session |-> s]
<1>1. r \in IntentRecord /\ r.status = st /\ r.session = s /\ r.pay = p
  BY DEF IntentRecord
<1>2. intent' = [intent EXCEPT ![i] = r]
  OBVIOUS
<1> HIDE DEF r
<1> QED
  BY <1>1, <1>2, IntentReplaced

StripeBecomes(s, st, i, d, r) ==
  /\ stripe' \in [Sessions -> StripeRecord]
  /\ stripe'[s].state = st /\ stripe'[s].of = i
  /\ stripe'[s].declined = d /\ stripe'[s].refunded = r
  /\ \A t \in Sessions \ {s} : stripe'[t] = stripe[t]

\* A lock taken, a transaction ended: the rows nobody else owns stay as they are.
Takes(x, i) ==
  /\ lock' \in [Intents -> Workers \cup {None}]
  /\ lock[i] = None /\ lock'[i] = x /\ \A j \in Intents \ {i} : lock'[j] = lock[j]

TakesPerson(x, b) ==
  /\ plock' \in [Buyers -> Workers \cup {None}]
  /\ plock[b] = None /\ plock'[b] = x /\ \A c \in Buyers \ {b} : plock'[c] = plock[c]

Frees(x) ==
  /\ lock' \in [Intents -> Workers \cup {None}]
  /\ \A j \in Intents : lock'[j] = IF lock[j] = x THEN None ELSE lock[j]

FreesPerson(x) ==
  /\ plock' \in [Buyers -> Workers \cup {None}]
  /\ \A b \in Buyers : plock'[b] = IF plock[b] = x THEN None ELSE plock[b]

LEMMA UnlockFrees ==
  ASSUME TypeOK, NEW x \in Workers
  PROVE  /\ lock' = Unlock(lock, x) => Frees(x)
         /\ plock' = Unlock(plock, x) => FreesPerson(x)
  BY DEF TypeOK, Unlock, Frees, FreesPerson

LEMMA StripeReplaced ==
  ASSUME stripe \in [Sessions -> StripeRecord], NEW s \in Sessions, NEW r \in StripeRecord,
         stripe' = [stripe EXCEPT ![s] = r]
  PROVE  StripeBecomes(s, r.state, r.of, r.declined, r.refunded)
  BY DEF StripeBecomes

Known == TypeOK /\ JobsNamed /\ SessionsNamed

-----------------------------------------------------------------------------
(* The steps, field by field.                                              *)

LEMMA StepCreateCheckout ==
  ASSUME Known, NEW x \in Workers, NEW s \in Sessions, CreateCheckout(x, s)
  PROVE  /\ job[x].pc = "session" /\ stripe[s].state = "none"
         /\ StripeBecomes(s, "open", job[x].intent, stripe[s].declined, stripe[s].refunded)
         /\ JobBecomes(x, "attach", job[x].intent, s, job[x].verdict)
         /\ UNCHANGED <<intent, claimed, delivered, placed, receipts, banned, lock, plock>>
<1> DEFINE r == [stripe[s] EXCEPT !.state = "open", !.of = job[x].intent]
<1>1. stripe[s] \in StripeRecord /\ job[x].intent \in Intents \cup {None}
  BY DEF Known, TypeOK, JobRecord
<1>2. /\ r \in StripeRecord /\ r.state = "open" /\ r.of = job[x].intent
      /\ r.declined = stripe[s].declined /\ r.refunded = stripe[s].refunded
  BY <1>1 DEF StripeRecord
<1>3. stripe' = [stripe EXCEPT ![s] = r]
  BY DEF CreateCheckout
<1> HIDE DEF r
<1>4. StripeBecomes(s, "open", job[x].intent, stripe[s].declined, stripe[s].refunded)
  BY <1>2, <1>3, StripeReplaced DEF Known, TypeOK, StripeBecomes
<1>5. JobBecomes(x, "attach", job[x].intent, s, job[x].verdict)
  BY MoveAttach DEF CreateCheckout, Known, TypeOK
<1> QED
  BY <1>4, <1>5 DEF CreateCheckout, dbVars

LEMMA StepStripe ==
  ASSUME Known, NEW s \in Sessions, Decline(s) \/ Pay(s) \/ Expire(s)
  PROVE  /\ stripe[s].state = "open"
         /\ \/ StripeBecomes(s, "open", stripe[s].of, TRUE, stripe[s].refunded)
            \/ StripeBecomes(s, "paid", stripe[s].of, stripe[s].declined, stripe[s].refunded)
            \/ StripeBecomes(s, "expired", stripe[s].of, stripe[s].declined, stripe[s].refunded)
         /\ UNCHANGED <<intent, claimed, delivered, placed, receipts, banned, lock, plock, job>>
<1> DEFINE r1 == [stripe[s] EXCEPT !.declined = TRUE]
           r2 == [stripe[s] EXCEPT !.state = "paid"]
           r3 == [stripe[s] EXCEPT !.state = "expired"]
<1>1. stripe \in [Sessions -> StripeRecord] /\ stripe[s] \in StripeRecord
  BY DEF Known, TypeOK
<1>2. CASE Decline(s)
  <2>1. /\ r1 \in StripeRecord /\ r1.state = stripe[s].state /\ r1.of = stripe[s].of
        /\ r1.declined = TRUE /\ r1.refunded = stripe[s].refunded
    BY <1>1 DEF StripeRecord
  <2>2. stripe' = [stripe EXCEPT ![s] = r1]
    BY <1>2 DEF Decline
  <2> HIDE DEF r1
  <2> QED
    BY <1>1, <1>2, <2>1, <2>2, StripeReplaced DEF Decline, StripeBecomes, dbVars
<1>3. CASE Pay(s)
  <2>1. /\ r2 \in StripeRecord /\ r2.state = "paid" /\ r2.of = stripe[s].of
        /\ r2.declined = stripe[s].declined /\ r2.refunded = stripe[s].refunded
    BY <1>1 DEF StripeRecord
  <2>2. stripe' = [stripe EXCEPT ![s] = r2]
    BY <1>3 DEF Pay
  <2> HIDE DEF r2
  <2> QED
    BY <1>1, <1>3, <2>1, <2>2, StripeReplaced DEF Pay, StripeBecomes, dbVars
<1>4. CASE Expire(s)
  <2>1. /\ r3 \in StripeRecord /\ r3.state = "expired" /\ r3.of = stripe[s].of
        /\ r3.declined = stripe[s].declined /\ r3.refunded = stripe[s].refunded
    BY <1>1 DEF StripeRecord
  <2>2. stripe' = [stripe EXCEPT ![s] = r3]
    BY <1>4 DEF Expire
  <2> HIDE DEF r3
  <2> QED
    BY <1>1, <1>4, <2>1, <2>2, StripeReplaced DEF Expire, StripeBecomes, dbVars
<1> QED
  BY <1>2, <1>3, <1>4

LEMMA StepRefundCall ==
  ASSUME Known, NEW x \in Workers, RefundCall(x)
  PROVE  /\ job[x].pc = "refund" /\ job[x].session \in Sessions /\ job[x].intent \in Intents
         /\ \/ JobBecomes(x, "idle", None, None, "none") /\ Frees(x) /\ UNCHANGED stripe
            \/ /\ JobBecomes(x, "refunded", job[x].intent, job[x].session, job[x].verdict)
               /\ StripeBecomes(job[x].session, stripe[job[x].session].state,
                    stripe[job[x].session].of, stripe[job[x].session].declined, TRUE)
               /\ UNCHANGED lock
         /\ UNCHANGED <<intent, claimed, delivered, placed, receipts, banned, plock>>
<1> DEFINE s == job[x].session
           r == [stripe[s] EXCEPT !.refunded = TRUE]
<1>1. /\ job[x].pc = "refund" /\ s \in Sessions /\ job[x].intent \in Intents
      /\ stripe \in [Sessions -> StripeRecord] /\ stripe[s] \in StripeRecord
      /\ job \in [Workers -> JobRecord]
  BY DEF RefundCall, Known, TypeOK, JobsNamed, WithSession
<1>2. CASE stripe[s].refunded
  BY <1>1, <1>2, MoveDone, UnlockFrees DEF RefundCall, dbVars, Known
<1>3. CASE ~stripe[s].refunded
  <2>1. /\ r \in StripeRecord /\ r.state = stripe[s].state /\ r.of = stripe[s].of
        /\ r.declined = stripe[s].declined /\ r.refunded = TRUE
    BY <1>1 DEF StripeRecord
  <2>2. stripe' = [stripe EXCEPT ![s] = r] /\ GoTo(x, "refunded")
    BY <1>3 DEF RefundCall
  <2>3. JobBecomes(x, "refunded", job[x].intent, job[x].session, job[x].verdict)
    BY <1>1, <2>2, MoveGoTo DEF PCs
  <2> HIDE DEF r
  <2>4. StripeBecomes(s, stripe[s].state, stripe[s].of, stripe[s].declined, TRUE)
    BY <1>1, <2>1, <2>2, StripeReplaced DEF StripeBecomes
  <2> QED
    BY <1>1, <1>3, <2>3, <2>4 DEF RefundCall, dbVars
<1> QED
  BY <1>2, <1>3

LEMMA StepRefundStart ==
  ASSUME Known, NEW x \in Workers, NEW i \in Intents, RefundStart(x, i)
  PROVE  /\ job[x].pc = "idle" /\ RefundAllowed(i) /\ intent[i].pay \in Sessions
         /\ JobBecomes(x, "refund", i, intent[i].pay, "none") /\ Takes(x, i)
         /\ UNCHANGED <<intent, claimed, delivered, placed, receipts, banned, stripe, plock>>
<1>1. intent[i].pay \in Sessions
  BY DEF RefundStart, RefundAllowed, Known, TypeOK, IntentRecord
<1>2. job[x].pc = "idle" /\ JobBecomes(x, "refund", i, intent[i].pay, "none")
  BY <1>1, MoveBegin DEF RefundStart, Known, TypeOK, PCs
<1> QED
  BY <1>1, <1>2 DEF RefundStart, RefundLocked, Takes, Known, TypeOK, dbVars

LEMMA StepSweepList ==
  ASSUME Known, NEW x \in Workers, NEW i \in Intents, SweepList(x, i)
  PROVE  /\ job[x].pc = "idle" /\ intent[i].status \in {"created", "paid"}
         /\ intent[i].session \in Sessions
         /\ JobBecomes(x, "ask", i, intent[i].session, "none")
         /\ UNCHANGED <<intent, claimed, delivered, placed, receipts, banned, stripe, lock, plock>>
<1>1. intent[i].session \in Sessions
  BY DEF SweepList, ReconcileCandidate, Known, TypeOK, IntentRecord
<1>2. job[x].pc = "idle" /\ JobBecomes(x, "ask", i, intent[i].session, "none")
  BY <1>1, MoveBegin DEF SweepList, Known, TypeOK, PCs
<1> QED
  BY <1>1, <1>2 DEF SweepList, ReconcileCandidate, dbVars

LEMMA StepDeliverPaid ==
  ASSUME Known, NEW x \in Workers, NEW s \in Sessions, DeliverPaid(x, s)
  PROVE  /\ job[x].pc = "idle" /\ stripe[s].state = "paid" /\ stripe[s].of \in Intents
         /\ JobBecomes(x, "lock", stripe[s].of, s, "none")
         /\ UNCHANGED <<intent, claimed, delivered, placed, receipts, banned, stripe, lock, plock>>
<1>1. stripe[s].state = "paid" /\ stripe[s].of \in Intents
  BY DEF DeliverPaid, Known, SessionsNamed
<1>2. job[x].pc = "idle" /\ JobBecomes(x, "lock", stripe[s].of, s, "none")
  BY <1>1, MoveBegin DEF DeliverPaid, Known, TypeOK, PCs
<1> QED
  BY <1>1, <1>2 DEF DeliverPaid, dbVars

\* The checkout, a resumed cart and an edit begin.
LEMMA StepBegin ==
  ASSUME Known, NEW x \in Workers, NEW i \in Intents
  PROVE  /\ CheckoutStart(x, i) =>
              /\ job[x].pc = "idle" /\ intent[i].status = "none"
              /\ \A y \in Workers : job[y].intent # i
              /\ JobBecomes(x, "create", i, None, "none")
              /\ UNCHANGED <<intent, claimed, delivered, placed, receipts, banned, stripe, lock, plock>>
         /\ ResumeStart(x, i) =>
              /\ job[x].pc = "idle" /\ intent[i].status \in Resumable
              /\ JobBecomes(x, "reopen", i, None, "none")
              /\ UNCHANGED <<intent, claimed, delivered, placed, receipts, banned, stripe, lock, plock>>
         /\ EditStart(x, i) =>
              /\ job[x].pc = "idle" /\ "edit" \in Happens
              /\ JobBecomes(x, "edit", i, None, "none") /\ TakesPerson(x, BuyerOf[i])
              /\ UNCHANGED <<intent, claimed, delivered, placed, receipts, banned, stripe, lock>>
<1>1. \A pc \in {"create", "reopen", "edit"} :
        Begin(x, pc, i, None) => job[x].pc = "idle" /\ JobBecomes(x, pc, i, None, "none")
  BY MoveBegin DEF Known, TypeOK, PCs
<1>2. CheckoutStart(x, i) \/ ResumeStart(x, i) \/ EditStart(x, i) =>
        \E pc \in {"create", "reopen", "edit"} : Begin(x, pc, i, None)
  BY DEF CheckoutStart, ResumeStart, EditStart
<1> QED
  BY <1>1 DEF CheckoutStart, ResumeStart, EditStart, TakesPerson, Known, TypeOK, dbVars

\* Every handler at work is about a purchase, and its records have their types.
LEMMA Typed ==
  ASSUME Known, NEW x \in Workers
  PROVE  /\ job \in [Workers -> JobRecord] /\ intent \in [Intents -> IntentRecord]
         /\ job[x].pc # "idle" => job[x].intent \in Intents /\ Buyer(x) \in Buyers
         /\ job[x].pc \in WithSession => job[x].session \in Sessions
         /\ \A i \in Intents : /\ intent[i].session \in Sessions \cup {None}
                               /\ intent[i].pay \in Sessions \cup {None}
  BY DEF Known, TypeOK, JobsNamed, IntentRecord, Buyer

LEMMA StepCheckoutCreate ==
  ASSUME Known, NEW x \in Workers, CheckoutCreate(x)
  PROVE  /\ job[x].pc = "create" /\ job[x].intent \in Intents
         /\ IntentBecomes(job[x].intent, "created", intent[job[x].intent].session,
                          intent[job[x].intent].pay)
         /\ JobBecomes(x, "session", job[x].intent, job[x].session, job[x].verdict)
         /\ UNCHANGED <<claimed, delivered, placed, receipts, banned, stripe, lock, plock>>
<1>1. JobBecomes(x, "session", job[x].intent, job[x].session, job[x].verdict)
  BY Typed, MoveGoTo DEF CheckoutCreate, PCs
<1>2. IntentBecomes(job[x].intent, "created", intent[job[x].intent].session, intent[job[x].intent].pay)
  BY Typed, SetStatus DEF CheckoutCreate, Statuses
<1> QED
  BY <1>1, <1>2, Typed DEF CheckoutCreate

LEMMA StepAttachSession ==
  ASSUME Known, NEW x \in Workers, AttachSession(x)
  PROVE  /\ job[x].pc = "attach" /\ job[x].intent \in Intents /\ job[x].session \in Sessions
         /\ lock[job[x].intent] = None
         /\ IntentBecomes(job[x].intent, intent[job[x].intent].status, job[x].session,
                          intent[job[x].intent].pay)
         /\ JobBecomes(x, "idle", None, None, "none")
         /\ UNCHANGED <<claimed, delivered, placed, receipts, banned, stripe, lock, plock>>
<1>1. job[x].intent \in Intents /\ job[x].session \in Sessions
  BY Typed DEF AttachSession, WithSession
<1>2. IntentBecomes(job[x].intent, intent[job[x].intent].status, job[x].session,
                    intent[job[x].intent].pay)
  BY <1>1, Typed, SetSession DEF AttachSession
<1> QED
  BY <1>1, <1>2, Typed, MoveDone DEF AttachSession

LEMMA StepReopenLock ==
  ASSUME Known, NEW x \in Workers, ReopenLock(x)
  PROVE  /\ job[x].pc = "reopen" /\ job[x].intent \in Intents
         /\ \/ /\ intent[job[x].intent].status \in Resumable
               /\ JobBecomes(x, "reopen_person", job[x].intent, job[x].session, job[x].verdict)
               /\ Takes(x, job[x].intent)
            \/ JobBecomes(x, "idle", None, None, "none") /\ UNCHANGED lock
         /\ UNCHANGED <<intent, claimed, delivered, placed, receipts, banned, stripe, plock>>
<1>1. GoTo(x, "reopen_person") =>
        JobBecomes(x, "reopen_person", job[x].intent, job[x].session, job[x].verdict)
  BY Typed, MoveGoTo DEF PCs
<1>2. Done(x) => JobBecomes(x, "idle", None, None, "none")
  BY Typed, MoveDone
<1> QED
  BY <1>1, <1>2, Typed DEF ReopenLock, Takes, Known, TypeOK, dbVars

LEMMA StepReopenCommit ==
  ASSUME Known, NEW x \in Workers, ReopenCommit(x)
  PROVE  /\ job[x].pc = "reopen_person" /\ job[x].intent \in Intents
         /\ \/ JobBecomes(x, "idle", None, None, "none") /\ UNCHANGED intent
            \/ /\ JobBecomes(x, "session", job[x].intent, job[x].session, job[x].verdict)
               /\ IntentBecomes(job[x].intent, "created", intent[job[x].intent].session,
                                intent[job[x].intent].pay)
         /\ Frees(x)
         /\ UNCHANGED <<claimed, delivered, placed, receipts, banned, stripe, plock>>
<1>1. GoTo(x, "session") =>
        JobBecomes(x, "session", job[x].intent, job[x].session, job[x].verdict)
  BY Typed, MoveGoTo DEF PCs
<1>2. Done(x) => JobBecomes(x, "idle", None, None, "none")
  BY Typed, MoveDone
<1>3. job[x].intent \in Intents /\ intent' = [intent EXCEPT ![job[x].intent].status = "created"] =>
        IntentBecomes(job[x].intent, "created", intent[job[x].intent].session,
                      intent[job[x].intent].pay)
  BY Typed, SetStatus DEF Statuses
<1> QED
  BY <1>1, <1>2, <1>3, Typed, UnlockFrees DEF ReopenCommit, PersonAfterReopen, Known

LEMMA StepSweepAsk ==
  ASSUME Known, NEW x \in Workers, SweepAsk(x)
  PROVE  /\ job[x].pc = "ask" /\ job[x].intent \in Intents /\ job[x].session \in Sessions
         /\ \/ /\ stripe[job[x].session].state = "paid"
               /\ JobBecomes(x, "lock", job[x].intent, job[x].session, job[x].verdict)
            \/ JobBecomes(x, "idle", None, None, "none")
         /\ UNCHANGED <<intent, claimed, delivered, placed, receipts, banned, stripe, lock, plock>>
<1>1. GoTo(x, "lock") => JobBecomes(x, "lock", job[x].intent, job[x].session, job[x].verdict)
  BY Typed, MoveGoTo DEF PCs
<1>2. Done(x) => JobBecomes(x, "idle", None, None, "none")
  BY Typed, MoveDone
<1> QED
  BY <1>1, <1>2, Typed DEF SweepAsk, PaidCheckout, WithSession, dbVars

LEMMA StepActivateLock ==
  ASSUME Known, NEW x \in Workers, ActivateLock(x)
  PROVE  /\ job[x].pc = "lock" /\ job[x].intent \in Intents /\ job[x].session \in Sessions
         /\ \/ /\ MatchesIntent(job[x].intent, job[x].session)
               /\ intent[job[x].intent].status \in {"created", "paid", "needs_placement"}
               /\ JobBecomes(x, "person", job[x].intent, job[x].session, job[x].verdict)
               /\ Takes(x, job[x].intent)
            \/ JobBecomes(x, "idle", None, None, "none") /\ UNCHANGED lock
         /\ UNCHANGED <<intent, claimed, delivered, placed, receipts, banned, stripe, plock>>
<1>1. GoTo(x, "person") => JobBecomes(x, "person", job[x].intent, job[x].session, job[x].verdict)
  BY Typed, MoveGoTo DEF PCs
<1>2. Done(x) => JobBecomes(x, "idle", None, None, "none")
  BY Typed, MoveDone
<1>3. job[x].pc = "lock" /\ job[x].intent \in Intents /\ job[x].session \in Sessions
  BY Typed DEF ActivateLock, WithSession
<1> QED
  BY <1>1, <1>2, <1>3 DEF ActivateLock, ActivationStateAllowed, Takes, Known, TypeOK, dbVars

LEMMA StepActivatePerson ==
  ASSUME Known, NEW x \in Workers, ActivatePerson(x)
  PROVE  /\ job[x].pc = "person" /\ job[x].intent \in Intents
         /\ JobBecomes(x, "decide", job[x].intent, job[x].session, job[x].verdict)
         /\ TakesPerson(x, Buyer(x))
         /\ UNCHANGED <<intent, claimed, delivered, placed, receipts, banned, stripe, lock>>
<1>1. JobBecomes(x, "decide", job[x].intent, job[x].session, job[x].verdict)
  BY Typed, MoveGoTo DEF ActivatePerson, PCs
<1> QED
  BY <1>1, Typed DEF ActivatePerson, TakesPerson, Known, TypeOK, dbVars

LEMMA StepActivateDecide ==
  ASSUME Known, NEW x \in Workers, ActivateDecide(x)
  PROVE  /\ job[x].pc = "decide" /\ job[x].intent \in Intents
         /\ \E v \in {"activated", "needs_placement", "security_blocked"} :
              JobBecomes(x, "commit", job[x].intent, job[x].session, v)
         /\ UNCHANGED <<intent, claimed, delivered, placed, receipts, banned, stripe, lock, plock>>
<1>1. PICK v \in {"activated", "needs_placement", "security_blocked"} :
        job' = [job EXCEPT ![x] = [@ EXCEPT !.pc = "commit", !.verdict = v]]
  BY DEF ActivateDecide, Verdicts
<1>2. JobBecomes(x, "commit", job[x].intent, job[x].session, v)
  BY <1>1, Typed, MoveDecide
<1> QED
  BY <1>2, Typed DEF ActivateDecide, dbVars

\* The verdict decides what the commit does.
LEMMA StepActivateCommit ==
  ASSUME Known, HoldersSure, NEW x \in Workers, ActivateCommit(x)
  PROVE  LET i == job[x].intent
             s == job[x].session
             v == job[x].verdict
         IN
         /\ job[x].pc = "commit" /\ i \in Intents /\ s \in Sessions
         /\ v \in {"activated", "needs_placement", "security_blocked"}
         /\ \E t \in {s, intent[i].session} : IntentBecomes(i, v, t, s)
         /\ delivered' = (IF v = "activated" THEN delivered \cup {s} ELSE delivered)
         /\ placed' = (IF v = "activated" THEN placed \cup {Buyer(x)} ELSE placed)
         /\ \/ v = "security_blocked" /\ JobBecomes(x, "idle", None, None, "none")
            \/ v # "security_blocked" /\ JobBecomes(x, "claim", i, s, v)
         /\ Frees(x) /\ FreesPerson(x)
         /\ UNCHANGED <<claimed, receipts, banned, stripe>>
<1> DEFINE i == job[x].intent
           s == job[x].session
           v == job[x].verdict
           t == IF v = "security_blocked" THEN intent[i].session ELSE s
<1>1. /\ job[x].pc = "commit" /\ i \in Intents /\ s \in Sessions
      /\ v \in {"activated", "needs_placement", "security_blocked"}
  BY Typed DEF ActivateCommit, WithSession, HoldersSure, Sure
<1>2. t \in Sessions \cup {None} /\ t \in {s, intent[i].session} /\ v \in Statuses
  BY <1>1, Typed DEF Statuses, Collected, Risk
<1>3. intent' = [intent EXCEPT ![i] = [status |-> v, pay |-> s, session |-> t]]
  BY DEF ActivateCommit
<1>4. GoTo(x, "claim") => JobBecomes(x, "claim", i, s, v)
  BY Typed, MoveGoTo DEF PCs
<1>5. Done(x) => JobBecomes(x, "idle", None, None, "none")
  BY Typed, MoveDone
<1>6. Frees(x) /\ FreesPerson(x)
  BY UnlockFrees DEF ActivateCommit, Known
<1>7. IntentBecomes(i, v, t, s)
  <2> HIDE DEF i, s, v, t
  <2> QED
    BY <1>1, <1>2, <1>3, SetAll, Typed
<1> QED
  BY <1>1, <1>2, <1>4, <1>5, <1>6, <1>7 DEF ActivateCommit

LEMMA StepReceipt ==
  ASSUME Known, NEW x \in Workers
  PROVE  /\ ReceiptClaim(x) =>
              /\ job[x].pc = "claim" /\ job[x].intent \in Intents
              /\ \/ /\ JobBecomes(x, "mail", job[x].intent, job[x].session, job[x].verdict)
                    /\ ~claimed[job[x].intent]
                    /\ claimed' = [claimed EXCEPT ![job[x].intent] = TRUE]
                 \/ JobBecomes(x, "idle", None, None, "none") /\ UNCHANGED claimed
              /\ UNCHANGED <<intent, delivered, placed, receipts, banned, stripe, lock, plock>>
         /\ SendEmail(x) =>
              /\ job[x].pc = "mail" /\ job[x].intent \in Intents
              /\ JobBecomes(x, "idle", None, None, "none")
              /\ receipts' = [receipts EXCEPT ![job[x].intent] = @ + 1]
              /\ UNCHANGED <<intent, claimed, delivered, placed, banned, stripe, lock, plock>>
         /\ SendEmailFails(x) =>
              /\ job[x].pc = "mail" /\ job[x].intent \in Intents
              /\ JobBecomes(x, "release", job[x].intent, job[x].session, job[x].verdict)
              /\ UNCHANGED <<intent, claimed, delivered, placed, receipts, banned, stripe, lock, plock>>
         /\ ReceiptRelease(x) =>
              /\ job[x].pc = "release" /\ job[x].intent \in Intents
              /\ JobBecomes(x, "idle", None, None, "none")
              /\ claimed' = [claimed EXCEPT ![job[x].intent] = FALSE]
              /\ UNCHANGED <<intent, delivered, placed, receipts, banned, stripe, lock, plock>>
<1>1. GoTo(x, "mail") => JobBecomes(x, "mail", job[x].intent, job[x].session, job[x].verdict)
  BY Typed, MoveGoTo DEF PCs
<1>2. GoTo(x, "release") => JobBecomes(x, "release", job[x].intent, job[x].session, job[x].verdict)
  BY Typed, MoveGoTo DEF PCs
<1>3. Done(x) => JobBecomes(x, "idle", None, None, "none")
  BY Typed, MoveDone
<1>4. job[x].pc # "idle" => job[x].intent \in Intents
  BY Typed
<1>5. ReceiptClaim(x) =>
              /\ job[x].pc = "claim" /\ job[x].intent \in Intents
              /\ \/ /\ JobBecomes(x, "mail", job[x].intent, job[x].session, job[x].verdict)
                    /\ ~claimed[job[x].intent]
                    /\ claimed' = [claimed EXCEPT ![job[x].intent] = TRUE]
                 \/ JobBecomes(x, "idle", None, None, "none") /\ UNCHANGED claimed
              /\ UNCHANGED <<intent, delivered, placed, receipts, banned, stripe, lock, plock>>
  BY <1>1, <1>3, <1>4 DEF ReceiptClaim, Unclaimed
<1>6. SendEmail(x) =>
              /\ job[x].pc = "mail" /\ job[x].intent \in Intents
              /\ JobBecomes(x, "idle", None, None, "none")
              /\ receipts' = [receipts EXCEPT ![job[x].intent] = @ + 1]
              /\ UNCHANGED <<intent, claimed, delivered, placed, banned, stripe, lock, plock>>
  BY <1>3, <1>4 DEF SendEmail, dbVars
<1> QED
  BY <1>2, <1>3, <1>4, <1>5, <1>6 DEF SendEmailFails, ReceiptRelease, dbVars

LEMMA StepRefundCommit ==
  ASSUME Known, NEW x \in Workers, RefundCommit(x)
  PROVE  /\ job[x].pc = "refunded" /\ job[x].intent \in Intents /\ job[x].session \in Sessions
         /\ IntentBecomes(job[x].intent, "refunded", intent[job[x].intent].session,
                          intent[job[x].intent].pay)
         /\ JobBecomes(x, "idle", None, None, "none") /\ Frees(x)
         /\ UNCHANGED <<claimed, delivered, placed, receipts, banned, stripe, plock>>
<1>1. job[x].intent \in Intents /\ job[x].session \in Sessions
  BY Typed DEF RefundCommit, WithSession
<1>2. IntentBecomes(job[x].intent, "refunded", intent[job[x].intent].session, intent[job[x].intent].pay)
  BY <1>1, Typed, SetStatus DEF RefundCommit, Statuses, Collected, Risk
<1> QED
  BY <1>1, <1>2, Typed, MoveDone, UnlockFrees DEF RefundCommit, Known

LEMMA StepEditCommit ==
  ASSUME Known, NEW x \in Workers, EditCommit(x)
  PROVE  /\ job[x].pc = "edit"
         /\ JobBecomes(x, "idle", None, None, "none") /\ FreesPerson(x)
         /\ UNCHANGED <<intent, claimed, delivered, placed, receipts, banned, stripe, lock>>
  BY Typed, MoveDone, UnlockFrees DEF EditCommit, Known, dbVars

LEMMA StepFail ==
  ASSUME Known, NEW x \in Workers, Fail(x)
  PROVE  /\ job[x].pc = "refunded" => "refundCommitFails" \in Happens
         /\ JobBecomes(x, "idle", None, None, "none") /\ Frees(x) /\ FreesPerson(x)
         /\ UNCHANGED <<intent, claimed, delivered, placed, receipts, banned, stripe>>
  BY Typed, MoveDone, UnlockFrees DEF Fail, FailureOf, Known, dbVars

\* Stripe's events touch a purchase nobody has locked.
LEMMA StepDeliverEvent ==
  ASSUME Known, NEW s \in Sessions, DeliverFailed(s) \/ DeliverExpired(s)
  PROVE  /\ stripe[s].of \in Intents
         /\ lock[stripe[s].of] = None /\ intent[stripe[s].of].status = "created"
         /\ \E st \in {"failed", "expired"}, p \in {s, intent[stripe[s].of].pay} :
              IntentBecomes(stripe[s].of, st, intent[stripe[s].of].session, p)
         /\ UNCHANGED <<claimed, delivered, placed, receipts, banned, stripe, lock, plock, job>>
<1>1. stripe[s].of \in Intents
  BY DEF DeliverFailed, DeliverExpired, Known, SessionsNamed
<1> DEFINE i == stripe[s].of
           p == IF stripe[s].declined THEN s ELSE intent[i].pay
<1>2. CASE DeliverFailed(s)
  <2>1. IntentBecomes(i, "failed", intent[i].session, s)
    BY <1>1, <1>2, Typed, SetStatusAndPay DEF DeliverFailed, Statuses, Known, TypeOK
  <2> QED
    BY <1>1, <1>2, <2>1 DEF DeliverFailed
<1>3. CASE DeliverExpired(s)
  <2>1. intent' = [intent EXCEPT ![i] = [@ EXCEPT !.status = "expired", !.pay = p]]
    BY <1>1, <1>3 DEF DeliverExpired, Known, TypeOK
  <2>2. p \in Sessions \cup {None} /\ p \in {s, intent[i].pay} /\ "expired" \in Statuses
        /\ intent \in [Intents -> IntentRecord]
    BY <1>1 DEF Known, TypeOK, IntentRecord, Statuses
  <2>3. IntentBecomes(i, "expired", intent[i].session, p)
    <3> HIDE DEF p, i
    <3> QED
      BY <1>1, <2>1, <2>2, SetStatusAndPay DEF i
  <2> QED
    BY <1>1, <1>3, <2>2, <2>3 DEF DeliverExpired
<1> QED
  BY <1>2, <1>3

LEMMA StepDeliverRisk ==
  ASSUME Known, NEW s \in Sessions, NEW st \in RiskStatuses, DeliverRisk(s, st)
  PROVE  /\ stripe[s].of \in Intents /\ lock[stripe[s].of] = None
         /\ st \in Risk /\ intent[stripe[s].of].pay = s
         /\ IntentBecomes(stripe[s].of, st, intent[stripe[s].of].session, s)
         /\ UNCHANGED <<claimed, delivered, placed, receipts, banned, stripe, lock, plock, job>>
<1>1. stripe[s].of \in Intents /\ st \in Risk /\ st \in Statuses
  BY DEF DeliverRisk, RiskStatuses, Risk, Collected, Statuses, Known, SessionsNamed
<1>2. IntentBecomes(stripe[s].of, st, intent[stripe[s].of].session, intent[stripe[s].of].pay)
  BY <1>1, SetStatus DEF DeliverRisk, Known, TypeOK
<1> QED
  BY <1>1, <1>2 DEF DeliverRisk

LEMMA StepBan ==
  ASSUME Known, NEW b \in Buyers, Ban(b)
  PROVE  /\ banned' \subseteq Buyers
         /\ UNCHANGED <<intent, claimed, delivered, placed, receipts, stripe, lock, plock, job>>
  BY DEF Ban, Known, TypeOK, dbVars

\* Whatever a session goes through at Stripe, it stays the session of its purchase.
SessionsStay ==
  \A s \in Sessions :
    /\ stripe'[s].of = stripe[s].of
    /\ stripe[s].state = "none" => stripe'[s] = stripe[s]
    /\ stripe[s].state # "none" => stripe'[s].state # "none"
    /\ stripe[s].state = "paid" => stripe'[s].state = "paid"

LEMMA StripeSteps ==
  ASSUME Known, NEW s \in Sessions, Decline(s) \/ Pay(s) \/ Expire(s)
  PROVE  SessionsStay /\ \A t \in Sessions : stripe'[t].refunded = stripe[t].refunded
<1>1. CASE StripeBecomes(s, "open", stripe[s].of, TRUE, stripe[s].refunded)
  BY <1>1, StepStripe DEF StripeBecomes, SessionsStay
<1>2. CASE StripeBecomes(s, "paid", stripe[s].of, stripe[s].declined, stripe[s].refunded)
  BY <1>2, StepStripe DEF StripeBecomes, SessionsStay
<1>3. CASE StripeBecomes(s, "expired", stripe[s].of, stripe[s].declined, stripe[s].refunded)
  BY <1>3, StepStripe DEF StripeBecomes, SessionsStay
<1> QED
  BY <1>1, <1>2, <1>3, StepStripe

LEMMA RefundKeepsSessions ==
  ASSUME Known, NEW x \in Workers, RefundCall(x)
  PROVE  SessionsStay
<1>1. stripe[job[x].session].of = job[x].intent /\ job[x].intent \in Intents
  BY StepRefundCall DEF Known, JobsNamed, WithSession
<1>2. stripe[job[x].session].state # "none"
  BY <1>1, StepRefundCall DEF Known, SessionsNamed
<1> QED
  BY <1>2, StepRefundCall DEF StripeBecomes, SessionsStay

\* A refund goes on with its lock, or ends without a change.
LEMMA RefundCallMoves ==
  ASSUME Known, NEW x \in Workers, RefundCall(x)
  PROVE  /\ SessionsStay /\ job[x].pc = "refund" /\ job[x].session \in Sessions
         /\ UNCHANGED <<intent, claimed, delivered, placed, receipts, banned, plock>>
         /\ job' \in [Workers -> JobRecord] /\ \A y \in Workers \ {x} : job'[y] = job[y]
         /\ \A j \in Intents : lock[j] # x => lock'[j] = lock[j]
         /\ \/ job'[x].pc = "idle" /\ \A t \in Sessions : stripe'[t].refunded = stripe[t].refunded
            \/ /\ job'[x].pc = "refunded" /\ job'[x].intent = job[x].intent
               /\ job'[x].session = job[x].session
               /\ UNCHANGED lock
               /\ \A t \in Sessions \ {job[x].session} : stripe'[t].refunded = stripe[t].refunded
<1>1. CASE JobBecomes(x, "idle", None, None, "none") /\ Frees(x) /\ UNCHANGED stripe
  BY <1>1, RefundKeepsSessions, StepRefundCall DEF JobBecomes, Frees
<1>2. CASE /\ JobBecomes(x, "refunded", job[x].intent, job[x].session, job[x].verdict)
           /\ StripeBecomes(job[x].session, stripe[job[x].session].state,
                stripe[job[x].session].of, stripe[job[x].session].declined, TRUE)
           /\ UNCHANGED lock
  BY <1>2, RefundKeepsSessions, StepRefundCall DEF JobBecomes, StripeBecomes
<1> QED
  BY <1>1, <1>2, StepRefundCall

\* Steps that only move the handler, its locks or the mail.
QuietStep(x) ==
  \/ \E i \in Intents : CheckoutStart(x, i) \/ ResumeStart(x, i) \/ EditStart(x, i)
                        \/ SweepList(x, i) \/ RefundStart(x, i)
  \/ \E s \in Sessions : DeliverPaid(x, s)
  \/ ReopenLock(x) \/ SweepAsk(x) \/ ActivateLock(x) \/ ActivatePerson(x) \/ ActivateDecide(x)
  \/ ReceiptClaim(x) \/ SendEmail(x) \/ SendEmailFails(x) \/ ReceiptRelease(x)
  \/ EditCommit(x) \/ Fail(x)

LEMMA QuietSteps ==
  ASSUME NEW x \in Workers, QuietStep(x)
  PROVE  UNCHANGED <<intent, delivered, placed, stripe>>
<1> USE DEF dbVars
<1>1. ASSUME NEW i \in Intents, CheckoutStart(x, i) \/ ResumeStart(x, i) \/ EditStart(x, i)
                                \/ SweepList(x, i) \/ RefundStart(x, i)
      PROVE  UNCHANGED <<intent, delivered, placed, stripe>>
  BY <1>1 DEF CheckoutStart, ResumeStart, EditStart, SweepList, RefundStart
<1>2. ASSUME NEW s \in Sessions, DeliverPaid(x, s)
      PROVE  UNCHANGED <<intent, delivered, placed, stripe>>
  BY <1>2 DEF DeliverPaid
<1>3. CASE ReopenLock(x) \/ SweepAsk(x) \/ ActivateLock(x) \/ ActivatePerson(x) \/ ActivateDecide(x)
  BY <1>3 DEF ReopenLock, SweepAsk, ActivateLock, ActivatePerson, ActivateDecide
<1>4. CASE ReceiptClaim(x) \/ SendEmail(x) \/ SendEmailFails(x) \/ ReceiptRelease(x)
           \/ EditCommit(x) \/ Fail(x)
  BY <1>4 DEF ReceiptClaim, SendEmail, SendEmailFails, ReceiptRelease, EditCommit, Fail
<1> QED
  BY <1>1, <1>2, <1>3, <1>4 DEF QuietStep

-----------------------------------------------------------------------------
(* Each part of the invariant, action by action.                           *)

\* Every variable has its type to begin with.
LEMMA TypeInit == Init => TypeOK
  BY DEF Init, TypeOK, IdleJob, JobRecord, PCs, IntentRecord, Statuses, StripeRecord

\* Every variable keeps its type.
LEMMA TypeStep ==
  ASSUME Known, TypeOK, HoldersSure, [Next]_vars
  PROVE  TypeOK'
<1> USE DEF TypeOK
<1>1. ASSUME NEW x \in Workers, NEW i \in Intents,
             CheckoutStart(x, i) \/ ResumeStart(x, i) \/ EditStart(x, i)
      PROVE  TypeOK'
  BY <1>1, StepBegin DEF JobBecomes, TakesPerson
<1>2. ASSUME NEW x \in Workers, CheckoutCreate(x)
      PROVE  TypeOK'
  BY <1>2, StepCheckoutCreate DEF JobBecomes, IntentBecomes
<1>3. ASSUME NEW x \in Workers, NEW s \in Sessions, CreateCheckout(x, s)
      PROVE  TypeOK'
  BY <1>3, StepCreateCheckout DEF JobBecomes, StripeBecomes
<1>4. ASSUME NEW x \in Workers, AttachSession(x)
      PROVE  TypeOK'
  BY <1>4, StepAttachSession DEF JobBecomes, IntentBecomes
<1>5. ASSUME NEW x \in Workers, ReopenLock(x)
      PROVE  TypeOK'
  BY <1>5, StepReopenLock DEF JobBecomes, Takes
<1>6. ASSUME NEW x \in Workers, ReopenCommit(x)
      PROVE  TypeOK'
  BY <1>6, StepReopenCommit DEF JobBecomes, IntentBecomes, Frees
<1>7. ASSUME NEW x \in Workers, NEW s \in Sessions, DeliverPaid(x, s)
      PROVE  TypeOK'
  BY <1>7, StepDeliverPaid DEF JobBecomes
<1>8. ASSUME NEW x \in Workers, NEW i \in Intents, SweepList(x, i)
      PROVE  TypeOK'
  BY <1>8, StepSweepList DEF JobBecomes
<1>9. ASSUME NEW x \in Workers, SweepAsk(x)
      PROVE  TypeOK'
  BY <1>9, StepSweepAsk DEF JobBecomes
<1>10. ASSUME NEW x \in Workers, ActivateLock(x)
      PROVE  TypeOK'
  BY <1>10, StepActivateLock DEF JobBecomes, Takes
<1>11. ASSUME NEW x \in Workers, ActivatePerson(x)
      PROVE  TypeOK'
  BY <1>11, StepActivatePerson DEF JobBecomes, TakesPerson
<1>12. ASSUME NEW x \in Workers, ActivateDecide(x)
      PROVE  TypeOK'
  BY <1>12, StepActivateDecide DEF JobBecomes
<1>13. ASSUME NEW x \in Workers, ActivateCommit(x)
      PROVE  TypeOK'
  BY <1>13, StepActivateCommit, Typed DEF JobBecomes, IntentBecomes, Frees, FreesPerson,
     WithSession
<1>14. ASSUME NEW x \in Workers,
             ReceiptClaim(x) \/ SendEmail(x) \/ SendEmailFails(x) \/ ReceiptRelease(x)
      PROVE  TypeOK'
  <2>1. CASE ReceiptClaim(x)
    BY <2>1, StepReceipt DEF JobBecomes
  <2>2. CASE SendEmail(x)
    BY <2>2, StepReceipt DEF JobBecomes
  <2>3. CASE SendEmailFails(x)
    BY <2>3, StepReceipt DEF JobBecomes
  <2>4. CASE ReceiptRelease(x)
    BY <2>4, StepReceipt DEF JobBecomes
  <2> QED
    BY <1>14, <2>1, <2>2, <2>3, <2>4
<1>15. ASSUME NEW x \in Workers, NEW i \in Intents, RefundStart(x, i)
      PROVE  TypeOK'
  BY <1>15, StepRefundStart DEF JobBecomes, Takes
<1>16. ASSUME NEW x \in Workers, RefundCall(x)
      PROVE  TypeOK'
  <2>1. job' \in [Workers -> JobRecord]
    BY <1>16, StepRefundCall DEF JobBecomes
  <2>2. stripe' \in [Sessions -> StripeRecord]
    BY <1>16, StepRefundCall DEF StripeBecomes
  <2>3. lock' \in [Intents -> Workers \cup {None}]
    BY <1>16, StepRefundCall DEF Frees
  <2> QED
    BY <1>16, <2>1, <2>2, <2>3, StepRefundCall
<1>17. ASSUME NEW x \in Workers, RefundCommit(x)
      PROVE  TypeOK'
  BY <1>17, StepRefundCommit DEF JobBecomes, IntentBecomes, Frees
<1>18. ASSUME NEW x \in Workers, EditCommit(x)
      PROVE  TypeOK'
  BY <1>18, StepEditCommit DEF JobBecomes, FreesPerson
<1>19. ASSUME NEW x \in Workers, Fail(x)
      PROVE  TypeOK'
  BY <1>19, StepFail DEF JobBecomes, Frees, FreesPerson
<1>20. ASSUME NEW s \in Sessions, Decline(s) \/ Pay(s) \/ Expire(s)
      PROVE  TypeOK'
  BY <1>20, StepStripe DEF StripeBecomes
<1>21. ASSUME NEW s \in Sessions, DeliverFailed(s) \/ DeliverExpired(s)
      PROVE  TypeOK'
  BY <1>21, StepDeliverEvent DEF IntentBecomes
<1>22. ASSUME NEW s \in Sessions, NEW st \in RiskStatuses, DeliverRisk(s, st)
      PROVE  TypeOK'
  BY <1>22, StepDeliverRisk DEF IntentBecomes
<1>23. ASSUME NEW b \in Buyers, Ban(b)
      PROVE  TypeOK'
  BY <1>23, StepBan
<1>24. CASE UNCHANGED vars
  BY <1>24 DEF vars, dbVars
<1> QED
  BY <1>1, <1>2, <1>3, <1>4, <1>5, <1>6, <1>7, <1>8, <1>9, <1>10, <1>11, <1>12, <1>13, <1>14,
     <1>15, <1>16, <1>17, <1>18, <1>19, <1>20, <1>21, <1>22, <1>23, <1>24 DEF Next, Start, Step, StripeStep

LEMMA JobsNamedStep ==
  ASSUME Known, JobsNamed, SessionsNamed, HoldersSure, [Next]_vars
  PROVE  JobsNamed'
<1> USE DEF JobsNamed, WithSession
<1>1. ASSUME NEW x \in Workers, NEW i \in Intents,
             CheckoutStart(x, i) \/ ResumeStart(x, i) \/ EditStart(x, i)
      PROVE  JobsNamed'
  BY <1>1, StepBegin DEF JobBecomes, TakesPerson, Resumable
<1>2. ASSUME NEW x \in Workers, CheckoutCreate(x)
      PROVE  JobsNamed'
  BY <1>2, StepCheckoutCreate DEF JobBecomes, IntentBecomes
<1>3. ASSUME NEW x \in Workers, NEW s \in Sessions, CreateCheckout(x, s)
      PROVE  JobsNamed'
  BY <1>3, StepCreateCheckout, Typed DEF JobBecomes, StripeBecomes, SessionsNamed
<1>4. ASSUME NEW x \in Workers, AttachSession(x)
      PROVE  JobsNamed'
  BY <1>4, StepAttachSession DEF JobBecomes, IntentBecomes
<1>5. ASSUME NEW x \in Workers, ReopenLock(x)
      PROVE  JobsNamed'
  BY <1>5, StepReopenLock DEF JobBecomes, Takes
<1>6. ASSUME NEW x \in Workers, ReopenCommit(x)
      PROVE  JobsNamed'
  BY <1>6, StepReopenCommit DEF JobBecomes, IntentBecomes, Frees
<1>7. ASSUME NEW x \in Workers, NEW s \in Sessions, DeliverPaid(x, s)
      PROVE  JobsNamed'
  BY <1>7, StepDeliverPaid DEF JobBecomes, SessionsNamed
<1>8. ASSUME NEW x \in Workers, NEW i \in Intents, SweepList(x, i)
      PROVE  JobsNamed'
  BY <1>8, StepSweepList DEF JobBecomes, SessionsNamed
<1>9. ASSUME NEW x \in Workers, SweepAsk(x)
      PROVE  JobsNamed'
  BY <1>9, StepSweepAsk DEF JobBecomes
<1>10. ASSUME NEW x \in Workers, ActivateLock(x)
      PROVE  JobsNamed'
  BY <1>10, StepActivateLock DEF JobBecomes, Takes
<1>11. ASSUME NEW x \in Workers, ActivatePerson(x)
      PROVE  JobsNamed'
  BY <1>11, StepActivatePerson DEF JobBecomes, TakesPerson
<1>12. ASSUME NEW x \in Workers, ActivateDecide(x)
      PROVE  JobsNamed'
  BY <1>12, StepActivateDecide DEF JobBecomes
<1>13. ASSUME NEW x \in Workers, ActivateCommit(x)
      PROVE  JobsNamed'
  BY <1>13, StepActivateCommit DEF JobBecomes, IntentBecomes, Frees, FreesPerson
<1>14. ASSUME NEW x \in Workers,
             ReceiptClaim(x) \/ SendEmail(x) \/ SendEmailFails(x) \/ ReceiptRelease(x)
      PROVE  JobsNamed'
  <2>1. CASE ReceiptClaim(x)
    BY <2>1, StepReceipt DEF JobBecomes
  <2>2. CASE SendEmail(x)
    BY <2>2, StepReceipt DEF JobBecomes
  <2>3. CASE SendEmailFails(x)
    BY <2>3, StepReceipt DEF JobBecomes
  <2>4. CASE ReceiptRelease(x)
    BY <2>4, StepReceipt DEF JobBecomes
  <2> QED
    BY <1>14, <2>1, <2>2, <2>3, <2>4
<1>15. ASSUME NEW x \in Workers, NEW i \in Intents, RefundStart(x, i)
      PROVE  JobsNamed'
  BY <1>15, StepRefundStart DEF JobBecomes, Takes, SessionsNamed, RefundAllowed
<1>16. ASSUME NEW x \in Workers, RefundCall(x)
      PROVE  JobsNamed'
  BY <1>16, RefundCallMoves DEF SessionsStay
<1>17. ASSUME NEW x \in Workers, RefundCommit(x)
      PROVE  JobsNamed'
  BY <1>17, StepRefundCommit DEF JobBecomes, IntentBecomes, Frees
<1>18. ASSUME NEW x \in Workers, EditCommit(x)
      PROVE  JobsNamed'
  BY <1>18, StepEditCommit DEF JobBecomes, FreesPerson
<1>19. ASSUME NEW x \in Workers, Fail(x)
      PROVE  JobsNamed'
  BY <1>19, StepFail DEF JobBecomes, Frees, FreesPerson
<1>20. ASSUME NEW s \in Sessions, Decline(s) \/ Pay(s) \/ Expire(s)
      PROVE  JobsNamed'
  <2>1. SessionsStay /\ UNCHANGED <<intent, job>>
    BY <1>20, StripeSteps, StepStripe
  <2> QED
    BY <2>1 DEF SessionsStay
<1>21. ASSUME NEW s \in Sessions, DeliverFailed(s) \/ DeliverExpired(s)
      PROVE  JobsNamed'
  BY <1>21, StepDeliverEvent DEF IntentBecomes
<1>22. ASSUME NEW s \in Sessions, NEW st \in RiskStatuses, DeliverRisk(s, st)
      PROVE  JobsNamed'
  BY <1>22, StepDeliverRisk DEF IntentBecomes, Risk
<1>23. ASSUME NEW b \in Buyers, Ban(b)
      PROVE  JobsNamed'
  BY <1>23, StepBan
<1>24. CASE UNCHANGED vars
  BY <1>24 DEF vars, dbVars
<1> QED
  BY <1>1, <1>2, <1>3, <1>4, <1>5, <1>6, <1>7, <1>8, <1>9, <1>10, <1>11, <1>12, <1>13, <1>14,
     <1>15, <1>16, <1>17, <1>18, <1>19, <1>20, <1>21, <1>22, <1>23, <1>24 DEF Next, Start, Step, StripeStep

LEMMA SessionsNamedStep ==
  ASSUME Known, JobsNamed, SessionsNamed, HoldersSure, [Next]_vars
  PROVE  SessionsNamed'
<1> USE DEF SessionsNamed
<1>1. ASSUME NEW x \in Workers, NEW i \in Intents,
             CheckoutStart(x, i) \/ ResumeStart(x, i) \/ EditStart(x, i)
      PROVE  SessionsNamed'
  BY <1>1, StepBegin DEF JobBecomes, TakesPerson
<1>2. ASSUME NEW x \in Workers, CheckoutCreate(x)
      PROVE  SessionsNamed'
  BY <1>2, StepCheckoutCreate DEF JobBecomes, IntentBecomes
<1>3. ASSUME NEW x \in Workers, NEW s \in Sessions, CreateCheckout(x, s)
      PROVE  SessionsNamed'
  BY <1>3, StepCreateCheckout, Typed DEF StripeBecomes, JobsNamed
<1>4. ASSUME NEW x \in Workers, AttachSession(x)
      PROVE  SessionsNamed'
  BY <1>4, StepAttachSession DEF JobBecomes, IntentBecomes, JobsNamed, WithSession
<1>5. ASSUME NEW x \in Workers, ReopenLock(x)
      PROVE  SessionsNamed'
  BY <1>5, StepReopenLock DEF JobBecomes, Takes
<1>6. ASSUME NEW x \in Workers, ReopenCommit(x)
      PROVE  SessionsNamed'
  BY <1>6, StepReopenCommit DEF JobBecomes, IntentBecomes, Frees
<1>7. ASSUME NEW x \in Workers, NEW s \in Sessions, DeliverPaid(x, s)
      PROVE  SessionsNamed'
  BY <1>7, StepDeliverPaid DEF JobBecomes
<1>8. ASSUME NEW x \in Workers, NEW i \in Intents, SweepList(x, i)
      PROVE  SessionsNamed'
  BY <1>8, StepSweepList DEF JobBecomes
<1>9. ASSUME NEW x \in Workers, SweepAsk(x)
      PROVE  SessionsNamed'
  BY <1>9, StepSweepAsk DEF JobBecomes
<1>10. ASSUME NEW x \in Workers, ActivateLock(x)
      PROVE  SessionsNamed'
  BY <1>10, StepActivateLock DEF JobBecomes, Takes
<1>11. ASSUME NEW x \in Workers, ActivatePerson(x)
      PROVE  SessionsNamed'
  BY <1>11, StepActivatePerson DEF JobBecomes, TakesPerson
<1>12. ASSUME NEW x \in Workers, ActivateDecide(x)
      PROVE  SessionsNamed'
  BY <1>12, StepActivateDecide DEF JobBecomes
<1>13. ASSUME NEW x \in Workers, ActivateCommit(x)
      PROVE  SessionsNamed'
  BY <1>13, StepActivateCommit DEF JobBecomes, IntentBecomes, Frees, FreesPerson, JobsNamed,
     WithSession
<1>14. ASSUME NEW x \in Workers,
             ReceiptClaim(x) \/ SendEmail(x) \/ SendEmailFails(x) \/ ReceiptRelease(x)
      PROVE  SessionsNamed'
  <2>1. CASE ReceiptClaim(x)
    BY <2>1, StepReceipt DEF JobBecomes
  <2>2. CASE SendEmail(x)
    BY <2>2, StepReceipt DEF JobBecomes
  <2>3. CASE SendEmailFails(x)
    BY <2>3, StepReceipt DEF JobBecomes
  <2>4. CASE ReceiptRelease(x)
    BY <2>4, StepReceipt DEF JobBecomes
  <2> QED
    BY <1>14, <2>1, <2>2, <2>3, <2>4
<1>15. ASSUME NEW x \in Workers, NEW i \in Intents, RefundStart(x, i)
      PROVE  SessionsNamed'
  BY <1>15, StepRefundStart DEF JobBecomes, Takes
<1>16. ASSUME NEW x \in Workers, RefundCall(x)
      PROVE  SessionsNamed'
  <2>1. SessionsStay /\ UNCHANGED intent
    BY <1>16, RefundKeepsSessions, StepRefundCall
  <2>2. \A i \in Intents : /\ intent[i].session \in Sessions \cup {None}
                           /\ intent[i].pay \in Sessions \cup {None}
    BY DEF Known, TypeOK, IntentRecord
  <2> QED
    BY <2>1, <2>2 DEF SessionsStay
<1>17. ASSUME NEW x \in Workers, RefundCommit(x)
      PROVE  SessionsNamed'
  BY <1>17, StepRefundCommit DEF JobBecomes, IntentBecomes, Frees
<1>18. ASSUME NEW x \in Workers, EditCommit(x)
      PROVE  SessionsNamed'
  BY <1>18, StepEditCommit DEF JobBecomes, FreesPerson
<1>19. ASSUME NEW x \in Workers, Fail(x)
      PROVE  SessionsNamed'
  BY <1>19, StepFail DEF JobBecomes, Frees, FreesPerson
<1>20. ASSUME NEW s \in Sessions, Decline(s) \/ Pay(s) \/ Expire(s)
      PROVE  SessionsNamed'
  <2>1. SessionsStay /\ UNCHANGED intent
    BY <1>20, StripeSteps, StepStripe
  <2>2. \A i \in Intents : /\ intent[i].session \in Sessions \cup {None}
                           /\ intent[i].pay \in Sessions \cup {None}
    BY DEF Known, TypeOK, IntentRecord
  <2> QED
    BY <2>1, <2>2 DEF SessionsStay
<1>21. ASSUME NEW s \in Sessions, DeliverFailed(s) \/ DeliverExpired(s)
      PROVE  SessionsNamed'
  BY <1>21, StepDeliverEvent DEF IntentBecomes
<1>22. ASSUME NEW s \in Sessions, NEW st \in RiskStatuses, DeliverRisk(s, st)
      PROVE  SessionsNamed'
  BY <1>22, StepDeliverRisk DEF IntentBecomes, Risk
<1>23. ASSUME NEW b \in Buyers, Ban(b)
      PROVE  SessionsNamed'
  BY <1>23, StepBan
<1>24. CASE UNCHANGED vars
  BY <1>24 DEF vars, dbVars
<1> QED
  BY <1>1, <1>2, <1>3, <1>4, <1>5, <1>6, <1>7, <1>8, <1>9, <1>10, <1>11, <1>12, <1>13, <1>14,
     <1>15, <1>16, <1>17, <1>18, <1>19, <1>20, <1>21, <1>22, <1>23, <1>24 DEF Next, Start, Step, StripeStep

LEMMA CreatingStep ==
  ASSUME Known, JobsNamed, SessionsNamed, Creating, HoldersSure, [Next]_vars
  PROVE  Creating'
<1> USE DEF JobsNamed, Creating
<1>1. ASSUME NEW x \in Workers, NEW i \in Intents,
             CheckoutStart(x, i) \/ ResumeStart(x, i) \/ EditStart(x, i)
      PROVE  Creating'
  BY <1>1, StepBegin DEF JobBecomes, TakesPerson
<1>2. ASSUME NEW x \in Workers, CheckoutCreate(x)
      PROVE  Creating'
  BY <1>2, StepCheckoutCreate DEF JobBecomes, IntentBecomes
<1>3. ASSUME NEW x \in Workers, NEW s \in Sessions, CreateCheckout(x, s)
      PROVE  Creating'
  BY <1>3, StepCreateCheckout DEF JobBecomes, StripeBecomes
<1>4. ASSUME NEW x \in Workers, AttachSession(x)
      PROVE  Creating'
  BY <1>4, StepAttachSession DEF JobBecomes, IntentBecomes
<1>5. ASSUME NEW x \in Workers, ReopenLock(x)
      PROVE  Creating'
  BY <1>5, StepReopenLock DEF JobBecomes, Takes
<1>6. ASSUME NEW x \in Workers, ReopenCommit(x)
      PROVE  Creating'
  BY <1>6, StepReopenCommit DEF JobBecomes, IntentBecomes, Frees
<1>7. ASSUME NEW x \in Workers, NEW s \in Sessions, DeliverPaid(x, s)
      PROVE  Creating'
  BY <1>7, StepDeliverPaid DEF JobBecomes
<1>8. ASSUME NEW x \in Workers, NEW i \in Intents, SweepList(x, i)
      PROVE  Creating'
  BY <1>8, StepSweepList DEF JobBecomes
<1>9. ASSUME NEW x \in Workers, SweepAsk(x)
      PROVE  Creating'
  BY <1>9, StepSweepAsk DEF JobBecomes
<1>10. ASSUME NEW x \in Workers, ActivateLock(x)
      PROVE  Creating'
  BY <1>10, StepActivateLock DEF JobBecomes, Takes
<1>11. ASSUME NEW x \in Workers, ActivatePerson(x)
      PROVE  Creating'
  BY <1>11, StepActivatePerson DEF JobBecomes, TakesPerson
<1>12. ASSUME NEW x \in Workers, ActivateDecide(x)
      PROVE  Creating'
  BY <1>12, StepActivateDecide DEF JobBecomes
<1>13. ASSUME NEW x \in Workers, ActivateCommit(x)
      PROVE  Creating'
  BY <1>13, StepActivateCommit DEF JobBecomes, IntentBecomes, Frees, FreesPerson
<1>14. ASSUME NEW x \in Workers,
             ReceiptClaim(x) \/ SendEmail(x) \/ SendEmailFails(x) \/ ReceiptRelease(x)
      PROVE  Creating'
  <2>1. CASE ReceiptClaim(x)
    BY <2>1, StepReceipt DEF JobBecomes
  <2>2. CASE SendEmail(x)
    BY <2>2, StepReceipt DEF JobBecomes
  <2>3. CASE SendEmailFails(x)
    BY <2>3, StepReceipt DEF JobBecomes
  <2>4. CASE ReceiptRelease(x)
    BY <2>4, StepReceipt DEF JobBecomes
  <2> QED
    BY <1>14, <2>1, <2>2, <2>3, <2>4
<1>15. ASSUME NEW x \in Workers, NEW i \in Intents, RefundStart(x, i)
      PROVE  Creating'
  BY <1>15, StepRefundStart DEF JobBecomes, Takes
<1>16. ASSUME NEW x \in Workers, RefundCall(x)
      PROVE  Creating'
  BY <1>16, RefundCallMoves
<1>17. ASSUME NEW x \in Workers, RefundCommit(x)
      PROVE  Creating'
  BY <1>17, StepRefundCommit DEF JobBecomes, IntentBecomes, Frees
<1>18. ASSUME NEW x \in Workers, EditCommit(x)
      PROVE  Creating'
  BY <1>18, StepEditCommit DEF JobBecomes, FreesPerson
<1>19. ASSUME NEW x \in Workers, Fail(x)
      PROVE  Creating'
  BY <1>19, StepFail DEF JobBecomes, Frees, FreesPerson
<1>20. ASSUME NEW s \in Sessions, Decline(s) \/ Pay(s) \/ Expire(s)
      PROVE  Creating'
  <2>1. SessionsStay /\ UNCHANGED <<intent, delivered, placed, lock, plock, job>>
    BY <1>20, StripeSteps, StepStripe
  <2> QED
    BY <2>1 DEF SessionsStay
<1>21. ASSUME NEW s \in Sessions, DeliverFailed(s) \/ DeliverExpired(s)
      PROVE  Creating'
  BY <1>21, StepDeliverEvent DEF IntentBecomes
<1>22. ASSUME NEW s \in Sessions, NEW st \in RiskStatuses, DeliverRisk(s, st)
      PROVE  Creating'
  BY <1>22, StepDeliverRisk DEF IntentBecomes, SessionsNamed
<1>23. ASSUME NEW b \in Buyers, Ban(b)
      PROVE  Creating'
  BY <1>23, StepBan
<1>24. CASE UNCHANGED vars
  BY <1>24 DEF vars, dbVars
<1> QED
  BY <1>1, <1>2, <1>3, <1>4, <1>5, <1>6, <1>7, <1>8, <1>9, <1>10, <1>11, <1>12, <1>13, <1>14,
     <1>15, <1>16, <1>17, <1>18, <1>19, <1>20, <1>21, <1>22, <1>23, <1>24 DEF Next, Start, Step, StripeStep

LEMMA LocksHeldStep ==
  ASSUME Known, JobsNamed, SessionsNamed, LocksHeld, HoldersSure, [Next]_vars
  PROVE  LocksHeld'
<1> USE DEF JobsNamed, LocksHeld, HoldsIntent, Activating
<1>1. ASSUME NEW x \in Workers, NEW i \in Intents,
             CheckoutStart(x, i) \/ ResumeStart(x, i) \/ EditStart(x, i)
      PROVE  LocksHeld'
  BY <1>1, StepBegin DEF JobBecomes, TakesPerson
<1>2. ASSUME NEW x \in Workers, CheckoutCreate(x)
      PROVE  LocksHeld'
  BY <1>2, StepCheckoutCreate DEF JobBecomes, IntentBecomes
<1>3. ASSUME NEW x \in Workers, NEW s \in Sessions, CreateCheckout(x, s)
      PROVE  LocksHeld'
  BY <1>3, StepCreateCheckout DEF JobBecomes, StripeBecomes
<1>4. ASSUME NEW x \in Workers, AttachSession(x)
      PROVE  LocksHeld'
  BY <1>4, StepAttachSession DEF JobBecomes, IntentBecomes
<1>5. ASSUME NEW x \in Workers, ReopenLock(x)
      PROVE  LocksHeld'
  BY <1>5, StepReopenLock DEF JobBecomes, Takes
<1>6. ASSUME NEW x \in Workers, ReopenCommit(x)
      PROVE  LocksHeld'
  BY <1>6, StepReopenCommit DEF JobBecomes, IntentBecomes, Frees
<1>7. ASSUME NEW x \in Workers, NEW s \in Sessions, DeliverPaid(x, s)
      PROVE  LocksHeld'
  BY <1>7, StepDeliverPaid DEF JobBecomes
<1>8. ASSUME NEW x \in Workers, NEW i \in Intents, SweepList(x, i)
      PROVE  LocksHeld'
  BY <1>8, StepSweepList DEF JobBecomes
<1>9. ASSUME NEW x \in Workers, SweepAsk(x)
      PROVE  LocksHeld'
  BY <1>9, StepSweepAsk DEF JobBecomes
<1>10. ASSUME NEW x \in Workers, ActivateLock(x)
      PROVE  LocksHeld'
  BY <1>10, StepActivateLock DEF JobBecomes, Takes
<1>11. ASSUME NEW x \in Workers, ActivatePerson(x)
      PROVE  LocksHeld'
  BY <1>11, StepActivatePerson DEF JobBecomes, TakesPerson
<1>12. ASSUME NEW x \in Workers, ActivateDecide(x)
      PROVE  LocksHeld'
  BY <1>12, StepActivateDecide DEF JobBecomes
<1>13. ASSUME NEW x \in Workers, ActivateCommit(x)
      PROVE  LocksHeld'
  BY <1>13, StepActivateCommit DEF JobBecomes, IntentBecomes, Frees, FreesPerson
<1>14. ASSUME NEW x \in Workers,
             ReceiptClaim(x) \/ SendEmail(x) \/ SendEmailFails(x) \/ ReceiptRelease(x)
      PROVE  LocksHeld'
  <2>1. CASE ReceiptClaim(x)
    BY <2>1, StepReceipt DEF JobBecomes
  <2>2. CASE SendEmail(x)
    BY <2>2, StepReceipt DEF JobBecomes
  <2>3. CASE SendEmailFails(x)
    BY <2>3, StepReceipt DEF JobBecomes
  <2>4. CASE ReceiptRelease(x)
    BY <2>4, StepReceipt DEF JobBecomes
  <2> QED
    BY <1>14, <2>1, <2>2, <2>3, <2>4
<1>15. ASSUME NEW x \in Workers, NEW i \in Intents, RefundStart(x, i)
      PROVE  LocksHeld'
  BY <1>15, StepRefundStart DEF JobBecomes, Takes
<1>16. ASSUME NEW x \in Workers, RefundCall(x)
      PROVE  LocksHeld'
  BY <1>16, RefundCallMoves
<1>17. ASSUME NEW x \in Workers, RefundCommit(x)
      PROVE  LocksHeld'
  BY <1>17, StepRefundCommit DEF JobBecomes, IntentBecomes, Frees
<1>18. ASSUME NEW x \in Workers, EditCommit(x)
      PROVE  LocksHeld'
  BY <1>18, StepEditCommit DEF JobBecomes, FreesPerson
<1>19. ASSUME NEW x \in Workers, Fail(x)
      PROVE  LocksHeld'
  BY <1>19, StepFail DEF JobBecomes, Frees, FreesPerson
<1>20. ASSUME NEW s \in Sessions, Decline(s) \/ Pay(s) \/ Expire(s)
      PROVE  LocksHeld'
  <2>1. SessionsStay /\ UNCHANGED <<intent, delivered, placed, lock, plock, job>>
    BY <1>20, StripeSteps, StepStripe
  <2> QED
    BY <2>1 DEF SessionsStay
<1>21. ASSUME NEW s \in Sessions, DeliverFailed(s) \/ DeliverExpired(s)
      PROVE  LocksHeld'
  BY <1>21, StepDeliverEvent DEF IntentBecomes
<1>22. ASSUME NEW s \in Sessions, NEW st \in RiskStatuses, DeliverRisk(s, st)
      PROVE  LocksHeld'
  BY <1>22, StepDeliverRisk DEF IntentBecomes
<1>23. ASSUME NEW b \in Buyers, Ban(b)
      PROVE  LocksHeld'
  BY <1>23, StepBan
<1>24. CASE UNCHANGED vars
  BY <1>24 DEF vars, dbVars
<1> QED
  BY <1>1, <1>2, <1>3, <1>4, <1>5, <1>6, <1>7, <1>8, <1>9, <1>10, <1>11, <1>12, <1>13, <1>14,
     <1>15, <1>16, <1>17, <1>18, <1>19, <1>20, <1>21, <1>22, <1>23, <1>24 DEF Next, Start, Step, StripeStep

LEMMA PersonsHeldStep ==
  ASSUME Known, JobsNamed, SessionsNamed, PersonsHeld, HoldersSure, [Next]_vars
  PROVE  PersonsHeld'
<1> USE DEF PersonsHeld, HoldsPerson
<1> plock \in [Buyers -> Workers \cup {None}]
  BY DEF Known, TypeOK
<1>1. ASSUME NEW x \in Workers, NEW i \in Intents,
             CheckoutStart(x, i) \/ ResumeStart(x, i) \/ EditStart(x, i)
      PROVE  PersonsHeld'
  BY <1>1, StepBegin DEF JobBecomes, TakesPerson
<1>2. ASSUME NEW x \in Workers, CheckoutCreate(x)
      PROVE  PersonsHeld'
  BY <1>2, StepCheckoutCreate DEF JobBecomes, IntentBecomes
<1>3. ASSUME NEW x \in Workers, NEW s \in Sessions, CreateCheckout(x, s)
      PROVE  PersonsHeld'
  BY <1>3, StepCreateCheckout DEF JobBecomes, StripeBecomes
<1>4. ASSUME NEW x \in Workers, AttachSession(x)
      PROVE  PersonsHeld'
  BY <1>4, StepAttachSession DEF JobBecomes, IntentBecomes
<1>5. ASSUME NEW x \in Workers, ReopenLock(x)
      PROVE  PersonsHeld'
  BY <1>5, StepReopenLock DEF JobBecomes, Takes
<1>6. ASSUME NEW x \in Workers, ReopenCommit(x)
      PROVE  PersonsHeld'
  BY <1>6, StepReopenCommit DEF JobBecomes, IntentBecomes, Frees
<1>7. ASSUME NEW x \in Workers, NEW s \in Sessions, DeliverPaid(x, s)
      PROVE  PersonsHeld'
  BY <1>7, StepDeliverPaid DEF JobBecomes
<1>8. ASSUME NEW x \in Workers, NEW i \in Intents, SweepList(x, i)
      PROVE  PersonsHeld'
  BY <1>8, StepSweepList DEF JobBecomes
<1>9. ASSUME NEW x \in Workers, SweepAsk(x)
      PROVE  PersonsHeld'
  BY <1>9, StepSweepAsk DEF JobBecomes
<1>10. ASSUME NEW x \in Workers, ActivateLock(x)
      PROVE  PersonsHeld'
  BY <1>10, StepActivateLock DEF JobBecomes, Takes
<1>11. ASSUME NEW x \in Workers, ActivatePerson(x)
      PROVE  PersonsHeld'
  BY <1>11, StepActivatePerson DEF JobBecomes, TakesPerson
<1>12. ASSUME NEW x \in Workers, ActivateDecide(x)
      PROVE  PersonsHeld'
  BY <1>12, StepActivateDecide DEF JobBecomes
<1>13. ASSUME NEW x \in Workers, ActivateCommit(x)
      PROVE  PersonsHeld'
  BY <1>13, StepActivateCommit DEF JobBecomes, IntentBecomes, Frees, FreesPerson
<1>14. ASSUME NEW x \in Workers,
             ReceiptClaim(x) \/ SendEmail(x) \/ SendEmailFails(x) \/ ReceiptRelease(x)
      PROVE  PersonsHeld'
  <2>1. CASE ReceiptClaim(x)
    BY <2>1, StepReceipt DEF JobBecomes
  <2>2. CASE SendEmail(x)
    BY <2>2, StepReceipt DEF JobBecomes
  <2>3. CASE SendEmailFails(x)
    BY <2>3, StepReceipt DEF JobBecomes
  <2>4. CASE ReceiptRelease(x)
    BY <2>4, StepReceipt DEF JobBecomes
  <2> QED
    BY <1>14, <2>1, <2>2, <2>3, <2>4
<1>15. ASSUME NEW x \in Workers, NEW i \in Intents, RefundStart(x, i)
      PROVE  PersonsHeld'
  BY <1>15, StepRefundStart DEF JobBecomes, Takes
<1>16. ASSUME NEW x \in Workers, RefundCall(x)
      PROVE  PersonsHeld'
  BY <1>16, RefundCallMoves
<1>17. ASSUME NEW x \in Workers, RefundCommit(x)
      PROVE  PersonsHeld'
  BY <1>17, StepRefundCommit DEF JobBecomes, IntentBecomes, Frees
<1>18. ASSUME NEW x \in Workers, EditCommit(x)
      PROVE  PersonsHeld'
  BY <1>18, StepEditCommit DEF JobBecomes, FreesPerson
<1>19. ASSUME NEW x \in Workers, Fail(x)
      PROVE  PersonsHeld'
  BY <1>19, StepFail DEF JobBecomes, Frees, FreesPerson
<1>20. ASSUME NEW s \in Sessions, Decline(s) \/ Pay(s) \/ Expire(s)
      PROVE  PersonsHeld'
  <2>1. SessionsStay /\ UNCHANGED <<intent, delivered, placed, lock, plock, job>>
    BY <1>20, StripeSteps, StepStripe
  <2> QED
    BY <2>1 DEF SessionsStay
<1>21. ASSUME NEW s \in Sessions, DeliverFailed(s) \/ DeliverExpired(s)
      PROVE  PersonsHeld'
  BY <1>21, StepDeliverEvent DEF IntentBecomes
<1>22. ASSUME NEW s \in Sessions, NEW st \in RiskStatuses, DeliverRisk(s, st)
      PROVE  PersonsHeld'
  BY <1>22, StepDeliverRisk DEF IntentBecomes
<1>23. ASSUME NEW b \in Buyers, Ban(b)
      PROVE  PersonsHeld'
  BY <1>23, StepBan
<1>24. CASE UNCHANGED vars
  BY <1>24 DEF vars, dbVars
<1> QED
  BY <1>1, <1>2, <1>3, <1>4, <1>5, <1>6, <1>7, <1>8, <1>9, <1>10, <1>11, <1>12, <1>13, <1>14,
     <1>15, <1>16, <1>17, <1>18, <1>19, <1>20, <1>21, <1>22, <1>23, <1>24 DEF Next, Start, Step, StripeStep

\* Nobody else disturbs what the owner of a row read.
LEMMA SureStays ==
  ASSUME HoldersSure, NEW y \in Workers, job'[y] = job[y],
         job[y].pc \in HoldsIntent => intent'[job[y].intent] = intent[job[y].intent],
         job[y].pc \in WithSession /\ stripe[job[y].session].state = "paid" =>
           stripe'[job[y].session].state = "paid"
  PROVE  Sure(y)'
  BY DEF HoldersSure, Sure, HoldsIntent, WithSession, Activating, MatchesIntent, RefundAllowed

LEMMA HoldersSureStep ==
  ASSUME Known, JobsNamed, SessionsNamed,
         Creating, LocksHeld, HoldersSure, [Next]_vars
  PROVE  HoldersSure'
<1>1. ASSUME NEW x \in Workers, NEW i \in Intents,
             CheckoutStart(x, i) \/ ResumeStart(x, i) \/ EditStart(x, i)
      PROVE  HoldersSure'
  <2>1. \A y \in Workers \ {x} : Sure(y)'
    BY <1>1, StepBegin, SureStays DEF JobBecomes
  <2>2. Sure(x)'
    BY <1>1, StepBegin DEF JobBecomes, Sure, Activating
  <2> QED
    BY <2>1, <2>2 DEF HoldersSure
<1>2. ASSUME NEW x \in Workers, CheckoutCreate(x)
      PROVE  HoldersSure'
  <2>1. \A y \in Workers \ {x} : Sure(y)'
    BY <1>2, StepCheckoutCreate, SureStays DEF JobBecomes, IntentBecomes, JobsNamed, Creating,
     HoldsIntent, Activating
  <2>2. Sure(x)'
    BY <1>2, StepCheckoutCreate DEF JobBecomes, Sure, Activating
  <2> QED
    BY <2>1, <2>2 DEF HoldersSure
<1>3. ASSUME NEW x \in Workers, NEW s \in Sessions, CreateCheckout(x, s)
      PROVE  HoldersSure'
  <2>1. \A y \in Workers \ {x} : Sure(y)'
    BY <1>3, StepCreateCheckout, SureStays DEF JobBecomes, StripeBecomes, JobsNamed, WithSession
  <2>2. Sure(x)'
    BY <1>3, StepCreateCheckout DEF JobBecomes, Sure, Activating
  <2> QED
    BY <2>1, <2>2 DEF HoldersSure
<1>4. ASSUME NEW x \in Workers, AttachSession(x)
      PROVE  HoldersSure'
  <2>1. \A y \in Workers \ {x} : Sure(y)'
    BY <1>4, StepAttachSession, SureStays DEF JobBecomes, IntentBecomes, JobsNamed, LocksHeld,
     HoldsIntent, Activating
  <2>2. Sure(x)'
    BY <1>4, StepAttachSession DEF JobBecomes, Sure, Activating
  <2> QED
    BY <2>1, <2>2 DEF HoldersSure
<1>5. ASSUME NEW x \in Workers, ReopenLock(x)
      PROVE  HoldersSure'
  <2>1. \A y \in Workers \ {x} : Sure(y)'
    BY <1>5, StepReopenLock, SureStays DEF JobBecomes
  <2>2. Sure(x)'
    BY <1>5, StepReopenLock DEF JobBecomes, Sure, Activating
  <2> QED
    BY <2>1, <2>2 DEF HoldersSure
<1>6. ASSUME NEW x \in Workers, ReopenCommit(x)
      PROVE  HoldersSure'
  <2>1. \A y \in Workers \ {x} : Sure(y)'
    BY <1>6, StepReopenCommit, SureStays DEF JobBecomes, IntentBecomes, JobsNamed, LocksHeld,
     HoldsIntent, Activating
  <2>2. Sure(x)'
    BY <1>6, StepReopenCommit DEF JobBecomes, Sure, Activating
  <2> QED
    BY <2>1, <2>2 DEF HoldersSure
<1>7. ASSUME NEW x \in Workers, NEW s \in Sessions, DeliverPaid(x, s)
      PROVE  HoldersSure'
  <2>1. \A y \in Workers \ {x} : Sure(y)'
    BY <1>7, StepDeliverPaid, SureStays DEF JobBecomes
  <2>2. Sure(x)'
    BY <1>7, StepDeliverPaid DEF JobBecomes, Sure, Activating
  <2> QED
    BY <2>1, <2>2 DEF HoldersSure
<1>8. ASSUME NEW x \in Workers, NEW i \in Intents, SweepList(x, i)
      PROVE  HoldersSure'
  <2>1. \A y \in Workers \ {x} : Sure(y)'
    BY <1>8, StepSweepList, SureStays DEF JobBecomes
  <2>2. Sure(x)'
    BY <1>8, StepSweepList DEF JobBecomes, Sure, Activating
  <2> QED
    BY <2>1, <2>2 DEF HoldersSure
<1>9. ASSUME NEW x \in Workers, SweepAsk(x)
      PROVE  HoldersSure'
  <2>1. \A y \in Workers \ {x} : Sure(y)'
    BY <1>9, StepSweepAsk, SureStays DEF JobBecomes
  <2>2. Sure(x)'
    BY <1>9, StepSweepAsk DEF JobBecomes, Sure, Activating
  <2> QED
    BY <2>1, <2>2 DEF HoldersSure
<1>10. ASSUME NEW x \in Workers, ActivateLock(x)
      PROVE  HoldersSure'
  <2>1. \A y \in Workers \ {x} : Sure(y)'
    BY <1>10, StepActivateLock, SureStays DEF JobBecomes
  <2>2. Sure(x)'
    BY <1>10, StepActivateLock DEF JobBecomes, Sure, Activating, HoldersSure, MatchesIntent
  <2> QED
    BY <2>1, <2>2 DEF HoldersSure
<1>11. ASSUME NEW x \in Workers, ActivatePerson(x)
      PROVE  HoldersSure'
  <2>1. \A y \in Workers \ {x} : Sure(y)'
    BY <1>11, StepActivatePerson, SureStays DEF JobBecomes
  <2>2. Sure(x)'
    BY <1>11, StepActivatePerson DEF JobBecomes, Sure, Activating, HoldersSure, MatchesIntent
  <2> QED
    BY <2>1, <2>2 DEF HoldersSure
<1>12. ASSUME NEW x \in Workers, ActivateDecide(x)
      PROVE  HoldersSure'
  <2>1. \A y \in Workers \ {x} : Sure(y)'
    BY <1>12, StepActivateDecide, SureStays DEF JobBecomes
  <2>2. Sure(x)'
    BY <1>12, StepActivateDecide DEF JobBecomes, Sure, Activating, HoldersSure, MatchesIntent
  <2> QED
    BY <2>1, <2>2 DEF HoldersSure
<1>13. ASSUME NEW x \in Workers, ActivateCommit(x)
      PROVE  HoldersSure'
  <2>1. \A y \in Workers \ {x} : Sure(y)'
    BY <1>13, StepActivateCommit, SureStays DEF JobBecomes, IntentBecomes, JobsNamed, LocksHeld,
     HoldsIntent, Activating
  <2>2. Sure(x)'
    BY <1>13, StepActivateCommit DEF JobBecomes, Sure, Activating
  <2> QED
    BY <2>1, <2>2 DEF HoldersSure
<1>14. ASSUME NEW x \in Workers,
             ReceiptClaim(x) \/ SendEmail(x) \/ SendEmailFails(x) \/ ReceiptRelease(x)
      PROVE  HoldersSure'
  <2>1. JobBecomes(x, "mail", job[x].intent, job[x].session, job[x].verdict)
        \/ JobBecomes(x, "release", job[x].intent, job[x].session, job[x].verdict)
        \/ JobBecomes(x, "idle", None, None, "none")
    BY <1>14, StepReceipt
  <2>2. UNCHANGED <<intent, stripe>>
    BY <1>14, StepReceipt
  <2>3. \A y \in Workers \ {x} : Sure(y)'
    BY <2>1, <2>2, SureStays DEF JobBecomes
  <2>4. Sure(x)'
    BY <2>1 DEF JobBecomes, Sure, Activating
  <2> QED
    BY <2>3, <2>4 DEF HoldersSure
<1>15. ASSUME NEW x \in Workers, NEW i \in Intents, RefundStart(x, i)
      PROVE  HoldersSure'
  <2>1. \A y \in Workers \ {x} : Sure(y)'
    BY <1>15, StepRefundStart, SureStays DEF JobBecomes
  <2>2. Sure(x)'
    BY <1>15, StepRefundStart DEF JobBecomes, Sure, Activating, RefundAllowed
  <2> QED
    BY <2>1, <2>2 DEF HoldersSure
<1>16. ASSUME NEW x \in Workers, RefundCall(x)
      PROVE  HoldersSure'
  <2>1. \A y \in Workers \ {x} : Sure(y)'
    BY <1>16, RefundCallMoves, SureStays DEF SessionsStay, JobsNamed, WithSession
  <2>2. Sure(x)'
    BY <1>16, RefundCallMoves DEF Sure, Activating, HoldersSure, RefundAllowed, SessionsStay
  <2> QED
    BY <2>1, <2>2 DEF HoldersSure
<1>17. ASSUME NEW x \in Workers, RefundCommit(x)
      PROVE  HoldersSure'
  <2>1. \A y \in Workers \ {x} : Sure(y)'
    BY <1>17, StepRefundCommit, SureStays DEF JobBecomes, IntentBecomes, JobsNamed, LocksHeld,
     HoldsIntent, Activating
  <2>2. Sure(x)'
    BY <1>17, StepRefundCommit DEF JobBecomes, Sure, Activating
  <2> QED
    BY <2>1, <2>2 DEF HoldersSure
<1>18. ASSUME NEW x \in Workers, EditCommit(x)
      PROVE  HoldersSure'
  <2>1. \A y \in Workers \ {x} : Sure(y)'
    BY <1>18, StepEditCommit, SureStays DEF JobBecomes
  <2>2. Sure(x)'
    BY <1>18, StepEditCommit DEF JobBecomes, Sure, Activating
  <2> QED
    BY <2>1, <2>2 DEF HoldersSure
<1>19. ASSUME NEW x \in Workers, Fail(x)
      PROVE  HoldersSure'
  <2>1. \A y \in Workers \ {x} : Sure(y)'
    BY <1>19, StepFail, SureStays DEF JobBecomes
  <2>2. Sure(x)'
    BY <1>19, StepFail DEF JobBecomes, Sure, Activating
  <2> QED
    BY <2>1, <2>2 DEF HoldersSure
<1>20. ASSUME NEW s \in Sessions, Decline(s) \/ Pay(s) \/ Expire(s)
      PROVE  HoldersSure'
  <2>1. \A y \in Workers : Sure(y)'
    BY <1>20, StripeSteps, StepStripe, SureStays DEF SessionsStay, JobsNamed, WithSession
  <2> QED
    BY <2>1 DEF HoldersSure
<1>21. ASSUME NEW s \in Sessions, DeliverFailed(s) \/ DeliverExpired(s)
      PROVE  HoldersSure'
  <2>1. \A y \in Workers : Sure(y)'
    BY <1>21, StepDeliverEvent, SureStays DEF IntentBecomes, JobsNamed, LocksHeld, HoldsIntent,
     Activating
  <2> QED
    BY <2>1 DEF HoldersSure
<1>22. ASSUME NEW s \in Sessions, NEW st \in RiskStatuses, DeliverRisk(s, st)
      PROVE  HoldersSure'
  <2>1. \A y \in Workers : Sure(y)'
    BY <1>22, StepDeliverRisk, SureStays DEF IntentBecomes, JobsNamed, LocksHeld, HoldsIntent,
     Activating
  <2> QED
    BY <2>1 DEF HoldersSure
<1>23. ASSUME NEW b \in Buyers, Ban(b)
      PROVE  HoldersSure'
  <2>1. \A y \in Workers : Sure(y)'
    BY <1>23, StepBan, SureStays DEF HoldersSure
  <2> QED
    BY <2>1 DEF HoldersSure
<1>24. CASE UNCHANGED vars
  <2>1. \A y \in Workers : Sure(y)'
    BY <1>24, SureStays DEF vars, dbVars
  <2> QED
    BY <2>1 DEF HoldersSure
<1> QED
  BY <1>1, <1>2, <1>3, <1>4, <1>5, <1>6, <1>7, <1>8, <1>9, <1>10, <1>11, <1>12, <1>13, <1>14,
     <1>15, <1>16, <1>17, <1>18, <1>19, <1>20, <1>21, <1>22, <1>23, <1>24 DEF Next, Start, Step, StripeStep

LEMMA PaymentsKnownStep ==
  ASSUME Known, JobsNamed, SessionsNamed,
         Creating, HoldersSure, PaymentsKnown, [Next]_vars
  PROVE  PaymentsKnown'
<1> USE DEF PaymentsKnown, Collected, Risk
<1>1. ASSUME NEW x \in Workers, QuietStep(x)
      PROVE  PaymentsKnown'
  BY <1>1, QuietSteps
<1>2. ASSUME NEW x \in Workers, CheckoutCreate(x)
      PROVE  PaymentsKnown'
  BY <1>2, StepCheckoutCreate DEF JobBecomes, IntentBecomes
<1>3. ASSUME NEW x \in Workers, NEW s \in Sessions, CreateCheckout(x, s)
      PROVE  PaymentsKnown'
  BY <1>3, StepCreateCheckout DEF JobBecomes, StripeBecomes
<1>4. ASSUME NEW x \in Workers, AttachSession(x)
      PROVE  PaymentsKnown'
  BY <1>4, StepAttachSession DEF JobBecomes, IntentBecomes
<1>5. ASSUME NEW x \in Workers, ReopenCommit(x)
      PROVE  PaymentsKnown'
  BY <1>5, StepReopenCommit DEF JobBecomes, IntentBecomes, Frees
<1>6. ASSUME NEW x \in Workers, ActivateCommit(x)
      PROVE  PaymentsKnown'
  BY <1>6, StepActivateCommit DEF JobBecomes, IntentBecomes, Frees, FreesPerson
<1>7. ASSUME NEW x \in Workers, RefundCall(x)
      PROVE  PaymentsKnown'
  BY <1>7, RefundCallMoves
<1>8. ASSUME NEW x \in Workers, RefundCommit(x)
      PROVE  PaymentsKnown'
  BY <1>8, StepRefundCommit DEF JobBecomes, IntentBecomes, Frees, HoldersSure, Sure, RefundAllowed
<1>9. ASSUME NEW s \in Sessions, Decline(s) \/ Pay(s) \/ Expire(s)
      PROVE  PaymentsKnown'
  <2>1. SessionsStay /\ UNCHANGED <<intent, delivered, placed, lock, plock, job>>
    BY <1>9, StripeSteps, StepStripe
  <2> QED
    BY <2>1 DEF SessionsStay
<1>10. ASSUME NEW s \in Sessions, DeliverFailed(s) \/ DeliverExpired(s)
      PROVE  PaymentsKnown'
  BY <1>10, StepDeliverEvent DEF IntentBecomes
<1>11. ASSUME NEW s \in Sessions, NEW st \in RiskStatuses, DeliverRisk(s, st)
      PROVE  PaymentsKnown'
  BY <1>11, StepDeliverRisk DEF IntentBecomes
<1>12. ASSUME NEW b \in Buyers, Ban(b)
      PROVE  PaymentsKnown'
  BY <1>12, StepBan
<1>13. CASE UNCHANGED vars
  BY <1>13 DEF vars, dbVars
<1> QED
  BY <1>1, <1>2, <1>3, <1>4, <1>5, <1>6, <1>7, <1>8, <1>9, <1>10, <1>11, <1>12, <1>13 DEF Next,
     Start, Step, StripeStep, QuietStep

LEMMA DeliveredStaysStep ==
  ASSUME Known, JobsNamed, SessionsNamed,
         Creating, HoldersSure, DeliveredStays, delivered \subseteq Sessions, [Next]_vars
  PROVE  DeliveredStays'
<1> USE DEF DeliveredStays, Risk
<1>1. ASSUME NEW x \in Workers, QuietStep(x)
      PROVE  DeliveredStays'
  BY <1>1, QuietSteps
<1>2. ASSUME NEW x \in Workers, CheckoutCreate(x)
      PROVE  DeliveredStays'
  BY <1>2, StepCheckoutCreate DEF JobBecomes, IntentBecomes, Creating
<1>3. ASSUME NEW x \in Workers, NEW s \in Sessions, CreateCheckout(x, s)
      PROVE  DeliveredStays'
  BY <1>3, StepCreateCheckout DEF JobBecomes, StripeBecomes, SessionsNamed
<1>4. ASSUME NEW x \in Workers, AttachSession(x)
      PROVE  DeliveredStays'
  BY <1>4, StepAttachSession DEF JobBecomes, IntentBecomes
<1>5. ASSUME NEW x \in Workers, ReopenCommit(x)
      PROVE  DeliveredStays'
  BY <1>5, StepReopenCommit DEF JobBecomes, IntentBecomes, Frees, HoldersSure, Sure, Resumable
<1>6. ASSUME NEW x \in Workers, ActivateCommit(x)
      PROVE  DeliveredStays'
  BY <1>6, StepActivateCommit DEF JobBecomes, IntentBecomes, Frees, FreesPerson, HoldersSure,
     Sure, JobsNamed, WithSession, Activating
<1>7. ASSUME NEW x \in Workers, RefundCall(x)
      PROVE  DeliveredStays'
  BY <1>7, RefundCallMoves DEF SessionsStay
<1>8. ASSUME NEW x \in Workers, RefundCommit(x)
      PROVE  DeliveredStays'
  BY <1>8, StepRefundCommit DEF JobBecomes, IntentBecomes, Frees
<1>9. ASSUME NEW s \in Sessions, Decline(s) \/ Pay(s) \/ Expire(s)
      PROVE  DeliveredStays'
  <2>1. SessionsStay /\ UNCHANGED <<intent, delivered, placed, lock, plock, job>>
    BY <1>9, StripeSteps, StepStripe
  <2> QED
    BY <2>1 DEF SessionsStay
<1>10. ASSUME NEW s \in Sessions, DeliverFailed(s) \/ DeliverExpired(s)
      PROVE  DeliveredStays'
  BY <1>10, StepDeliverEvent DEF IntentBecomes
<1>11. ASSUME NEW s \in Sessions, NEW st \in RiskStatuses, DeliverRisk(s, st)
      PROVE  DeliveredStays'
  BY <1>11, StepDeliverRisk DEF IntentBecomes
<1>12. ASSUME NEW b \in Buyers, Ban(b)
      PROVE  DeliveredStays'
  BY <1>12, StepBan
<1>13. CASE UNCHANGED vars
  BY <1>13 DEF vars, dbVars
<1> QED
  BY <1>1, <1>2, <1>3, <1>4, <1>5, <1>6, <1>7, <1>8, <1>9, <1>10, <1>11, <1>12, <1>13 DEF Next,
     Start, Step, StripeStep, QuietStep

LEMMA DeliveredIsPaidStep ==
  ASSUME Known, JobsNamed, SessionsNamed,
         Creating, HoldersSure, DeliveredStays, DeliveredIsPaid, delivered \subseteq Sessions, [Next]_vars
  PROVE  DeliveredIsPaid'
<1> USE DEF DeliveredIsPaid, DeliveredStays
<1>1. ASSUME NEW x \in Workers, QuietStep(x)
      PROVE  DeliveredIsPaid'
  BY <1>1, QuietSteps
<1>2. ASSUME NEW x \in Workers, CheckoutCreate(x)
      PROVE  DeliveredIsPaid'
  BY <1>2, StepCheckoutCreate DEF JobBecomes, IntentBecomes
<1>3. ASSUME NEW x \in Workers, NEW s \in Sessions, CreateCheckout(x, s)
      PROVE  DeliveredIsPaid'
  BY <1>3, StepCreateCheckout DEF JobBecomes, StripeBecomes
<1>4. ASSUME NEW x \in Workers, AttachSession(x)
      PROVE  DeliveredIsPaid'
  BY <1>4, StepAttachSession DEF JobBecomes, IntentBecomes
<1>5. ASSUME NEW x \in Workers, ReopenCommit(x)
      PROVE  DeliveredIsPaid'
  BY <1>5, StepReopenCommit DEF JobBecomes, IntentBecomes, Frees
<1>6. ASSUME NEW x \in Workers, ActivateCommit(x)
      PROVE  DeliveredIsPaid'
  BY <1>6, StepActivateCommit DEF JobBecomes, IntentBecomes, Frees, FreesPerson, HoldersSure,
     Sure, JobsNamed, WithSession, Activating, Risk, Buyer
<1>7. ASSUME NEW x \in Workers, RefundCall(x)
      PROVE  DeliveredIsPaid'
  BY <1>7, RefundCallMoves DEF SessionsStay
<1>8. ASSUME NEW x \in Workers, RefundCommit(x)
      PROVE  DeliveredIsPaid'
  BY <1>8, StepRefundCommit DEF JobBecomes, IntentBecomes, Frees
<1>9. ASSUME NEW s \in Sessions, Decline(s) \/ Pay(s) \/ Expire(s)
      PROVE  DeliveredIsPaid'
  <2>1. SessionsStay /\ UNCHANGED <<intent, delivered, placed, lock, plock, job>>
    BY <1>9, StripeSteps, StepStripe
  <2> QED
    BY <2>1 DEF SessionsStay
<1>10. ASSUME NEW s \in Sessions, DeliverFailed(s) \/ DeliverExpired(s)
      PROVE  DeliveredIsPaid'
  BY <1>10, StepDeliverEvent DEF IntentBecomes, Risk
<1>11. ASSUME NEW s \in Sessions, NEW st \in RiskStatuses, DeliverRisk(s, st)
      PROVE  DeliveredIsPaid'
  BY <1>11, StepDeliverRisk DEF IntentBecomes
<1>12. ASSUME NEW b \in Buyers, Ban(b)
      PROVE  DeliveredIsPaid'
  BY <1>12, StepBan
<1>13. CASE UNCHANGED vars
  BY <1>13 DEF vars, dbVars
<1> QED
  BY <1>1, <1>2, <1>3, <1>4, <1>5, <1>6, <1>7, <1>8, <1>9, <1>10, <1>11, <1>12, <1>13 DEF Next,
     Start, Step, StripeStep, QuietStep

\* A closed purchase stays closed, a known payment stays the purchase's.
RiskStays == \A i \in Intents : intent[i].status \in Risk => intent'[i].status \in Risk

PaymentStays == \A i \in Intents : intent[i].status \in Collected => intent'[i].pay = intent[i].pay

LEMMA RiskStaysStep ==
  ASSUME Known, JobsNamed, SessionsNamed,
         Creating, HoldersSure, [Next]_vars
  PROVE  RiskStays
<1> USE DEF RiskStays
<1>1. ASSUME NEW x \in Workers, QuietStep(x)
      PROVE  RiskStays
  BY <1>1, QuietSteps
<1>2. ASSUME NEW x \in Workers, CheckoutCreate(x)
      PROVE  RiskStays
  BY <1>2, StepCheckoutCreate DEF JobBecomes, IntentBecomes, Creating, Risk
<1>3. ASSUME NEW x \in Workers, NEW s \in Sessions, CreateCheckout(x, s)
      PROVE  RiskStays
  BY <1>3, StepCreateCheckout DEF JobBecomes, StripeBecomes
<1>4. ASSUME NEW x \in Workers, AttachSession(x)
      PROVE  RiskStays
  BY <1>4, StepAttachSession DEF JobBecomes, IntentBecomes
<1>5. ASSUME NEW x \in Workers, ReopenCommit(x)
      PROVE  RiskStays
  BY <1>5, StepReopenCommit DEF JobBecomes, IntentBecomes, Frees, HoldersSure, Sure, Resumable,
     Risk
<1>6. ASSUME NEW x \in Workers, ActivateCommit(x)
      PROVE  RiskStays
  BY <1>6, StepActivateCommit DEF JobBecomes, IntentBecomes, Frees, FreesPerson, HoldersSure,
     Sure, Activating, Risk
<1>7. ASSUME NEW x \in Workers, RefundCall(x)
      PROVE  RiskStays
  BY <1>7, RefundCallMoves
<1>8. ASSUME NEW x \in Workers, RefundCommit(x)
      PROVE  RiskStays
  BY <1>8, StepRefundCommit DEF JobBecomes, IntentBecomes, Frees, Risk
<1>9. ASSUME NEW s \in Sessions, Decline(s) \/ Pay(s) \/ Expire(s)
      PROVE  RiskStays
  BY <1>9, StepStripe
<1>10. ASSUME NEW s \in Sessions, DeliverFailed(s) \/ DeliverExpired(s)
      PROVE  RiskStays
  BY <1>10, StepDeliverEvent DEF IntentBecomes, Risk
<1>11. ASSUME NEW s \in Sessions, NEW st \in RiskStatuses, DeliverRisk(s, st)
      PROVE  RiskStays
  BY <1>11, StepDeliverRisk DEF IntentBecomes
<1>12. ASSUME NEW b \in Buyers, Ban(b)
      PROVE  RiskStays
  BY <1>12, StepBan
<1>13. CASE UNCHANGED vars
  BY <1>13 DEF vars, dbVars
<1> QED
  BY <1>1, <1>2, <1>3, <1>4, <1>5, <1>6, <1>7, <1>8, <1>9, <1>10, <1>11, <1>12, <1>13 DEF Next,
     Start, Step, StripeStep, QuietStep

LEMMA PaymentStaysStep ==
  ASSUME Known, JobsNamed, SessionsNamed,
         Creating, HoldersSure, PaymentsKnown, [Next]_vars
  PROVE  PaymentStays
<1> USE DEF PaymentStays
<1>1. ASSUME NEW x \in Workers, QuietStep(x)
      PROVE  PaymentStays
  BY <1>1, QuietSteps
<1>2. ASSUME NEW x \in Workers, CheckoutCreate(x)
      PROVE  PaymentStays
  BY <1>2, StepCheckoutCreate DEF JobBecomes, IntentBecomes
<1>3. ASSUME NEW x \in Workers, NEW s \in Sessions, CreateCheckout(x, s)
      PROVE  PaymentStays
  BY <1>3, StepCreateCheckout DEF JobBecomes, StripeBecomes
<1>4. ASSUME NEW x \in Workers, AttachSession(x)
      PROVE  PaymentStays
  BY <1>4, StepAttachSession DEF JobBecomes, IntentBecomes
<1>5. ASSUME NEW x \in Workers, ReopenCommit(x)
      PROVE  PaymentStays
  BY <1>5, StepReopenCommit DEF JobBecomes, IntentBecomes, Frees
<1>6. ASSUME NEW x \in Workers, ActivateCommit(x)
      PROVE  PaymentStays
  BY <1>6, StepActivateCommit DEF JobBecomes, IntentBecomes, Frees, FreesPerson, HoldersSure,
     Sure, Activating, Risk, Collected, MatchesIntent, PaymentsKnown
<1>7. ASSUME NEW x \in Workers, RefundCall(x)
      PROVE  PaymentStays
  BY <1>7, RefundCallMoves
<1>8. ASSUME NEW x \in Workers, RefundCommit(x)
      PROVE  PaymentStays
  BY <1>8, StepRefundCommit DEF JobBecomes, IntentBecomes, Frees
<1>9. ASSUME NEW s \in Sessions, Decline(s) \/ Pay(s) \/ Expire(s)
      PROVE  PaymentStays
  BY <1>9, StepStripe
<1>10. ASSUME NEW s \in Sessions, DeliverFailed(s) \/ DeliverExpired(s)
      PROVE  PaymentStays
  BY <1>10, StepDeliverEvent DEF IntentBecomes, Risk, Collected
<1>11. ASSUME NEW s \in Sessions, NEW st \in RiskStatuses, DeliverRisk(s, st)
      PROVE  PaymentStays
  BY <1>11, StepDeliverRisk DEF IntentBecomes
<1>12. ASSUME NEW b \in Buyers, Ban(b)
      PROVE  PaymentStays
  BY <1>12, StepBan
<1>13. CASE UNCHANGED vars
  BY <1>13 DEF vars, dbVars
<1> QED
  BY <1>1, <1>2, <1>3, <1>4, <1>5, <1>6, <1>7, <1>8, <1>9, <1>10, <1>11, <1>12, <1>13 DEF Next,
     Start, Step, StripeStep, QuietStep

\* A refund stays marked as long as its purchase stays closed and its handler at work.
LEMMA MarksStay ==
  ASSUME RefundsMarked, SessionsNamed, RiskStays,
         \A t \in Sessions : /\ stripe'[t].refunded = stripe[t].refunded
                             /\ stripe[t].refunded => stripe'[t].of = stripe[t].of,
         \A x \in Workers : job[x].pc = "refunded" => job'[x] = job[x]
  PROVE  RefundsMarked'
<1>1. \A t \in Sessions : stripe[t].refunded => stripe[t].of \in Intents
  BY DEF SessionsNamed
<1> QED
  BY <1>1 DEF RefundsMarked, RiskStays

LEMMA RefundsMarkedStep ==
  ASSUME Known, JobsNamed, SessionsNamed,
         Creating, LocksHeld, HoldersSure, RefundsMarked, [Next]_vars
  PROVE  RefundsMarked'
<1>0. RiskStays
  BY RiskStaysStep
<1>1. ASSUME NEW x \in Workers, NEW i \in Intents,
             CheckoutStart(x, i) \/ ResumeStart(x, i) \/ EditStart(x, i)
      PROVE  RefundsMarked'
  BY <1>1, <1>0, MarksStay, StepBegin DEF JobBecomes
<1>2. ASSUME NEW x \in Workers, CheckoutCreate(x)
      PROVE  RefundsMarked'
  BY <1>2, <1>0, MarksStay, StepCheckoutCreate DEF JobBecomes
<1>3. ASSUME NEW x \in Workers, NEW s \in Sessions, CreateCheckout(x, s)
      PROVE  RefundsMarked'
  BY <1>3, <1>0, MarksStay, StepCreateCheckout DEF JobBecomes, StripeBecomes, SessionsNamed
<1>4. ASSUME NEW x \in Workers, AttachSession(x)
      PROVE  RefundsMarked'
  BY <1>4, <1>0, MarksStay, StepAttachSession DEF JobBecomes
<1>5. ASSUME NEW x \in Workers, ReopenLock(x)
      PROVE  RefundsMarked'
  BY <1>5, <1>0, MarksStay, StepReopenLock DEF JobBecomes
<1>6. ASSUME NEW x \in Workers, ReopenCommit(x)
      PROVE  RefundsMarked'
  BY <1>6, <1>0, MarksStay, StepReopenCommit DEF JobBecomes
<1>7. ASSUME NEW x \in Workers, NEW s \in Sessions, DeliverPaid(x, s)
      PROVE  RefundsMarked'
  BY <1>7, <1>0, MarksStay, StepDeliverPaid DEF JobBecomes
<1>8. ASSUME NEW x \in Workers, NEW i \in Intents, SweepList(x, i)
      PROVE  RefundsMarked'
  BY <1>8, <1>0, MarksStay, StepSweepList DEF JobBecomes
<1>9. ASSUME NEW x \in Workers, SweepAsk(x)
      PROVE  RefundsMarked'
  BY <1>9, <1>0, MarksStay, StepSweepAsk DEF JobBecomes
<1>10. ASSUME NEW x \in Workers, ActivateLock(x)
      PROVE  RefundsMarked'
  BY <1>10, <1>0, MarksStay, StepActivateLock DEF JobBecomes
<1>11. ASSUME NEW x \in Workers, ActivatePerson(x)
      PROVE  RefundsMarked'
  BY <1>11, <1>0, MarksStay, StepActivatePerson DEF JobBecomes
<1>12. ASSUME NEW x \in Workers, ActivateDecide(x)
      PROVE  RefundsMarked'
  BY <1>12, <1>0, MarksStay, StepActivateDecide DEF JobBecomes
<1>13. ASSUME NEW x \in Workers, ActivateCommit(x)
      PROVE  RefundsMarked'
  BY <1>13, <1>0, MarksStay, StepActivateCommit DEF JobBecomes
<1>14. ASSUME NEW x \in Workers,
             ReceiptClaim(x) \/ SendEmail(x) \/ SendEmailFails(x) \/ ReceiptRelease(x)
      PROVE  RefundsMarked'
  BY <1>14, <1>0, MarksStay, StepReceipt DEF JobBecomes
<1>15. ASSUME NEW x \in Workers, NEW i \in Intents, RefundStart(x, i)
      PROVE  RefundsMarked'
  BY <1>15, <1>0, MarksStay, StepRefundStart DEF JobBecomes
<1>16. ASSUME NEW x \in Workers, RefundCall(x)
      PROVE  RefundsMarked'
  <2>1. CASE job'[x].pc = "idle"
    BY <1>16, <1>0, <2>1, MarksStay, RefundCallMoves DEF SessionsStay
  <2>2. CASE job'[x].pc = "refunded"
    <3>1. \A t \in Sessions : stripe[t].refunded => stripe[t].of \in Intents
      BY DEF SessionsNamed
    <3> QED
      BY <1>16, <1>0, <2>2, <3>1, RefundCallMoves DEF SessionsStay, RefundsMarked, RiskStays
  <2> QED
    BY <1>16, <2>1, <2>2, RefundCallMoves
<1>17. ASSUME NEW x \in Workers, RefundCommit(x)
      PROVE  RefundsMarked'
  <2>1. \A t \in Sessions : stripe[t].refunded => stripe[t].of \in Intents
    BY DEF SessionsNamed
  <2>2. stripe[job[x].session].of = job[x].intent /\ intent'[job[x].intent].status \in Risk
    BY <1>17, StepRefundCommit DEF JobsNamed, WithSession, IntentBecomes, Risk
  <2>3. \A y \in Workers \ {x} : job'[y] = job[y]
    BY <1>17, StepRefundCommit DEF JobBecomes
  <2>4. UNCHANGED stripe
    BY <1>17, StepRefundCommit
  <2> QED
    BY <1>0, <2>1, <2>2, <2>3, <2>4 DEF RefundsMarked, RiskStays
<1>18. ASSUME NEW x \in Workers, EditCommit(x)
      PROVE  RefundsMarked'
  BY <1>18, <1>0, MarksStay, StepEditCommit DEF JobBecomes
<1>19. ASSUME NEW x \in Workers, Fail(x)
      PROVE  RefundsMarked'
  <2>1. CASE "refundCommitFails" \in Happens
    BY <2>1 DEF RefundsMarked
  <2>2. CASE "refundCommitFails" \notin Happens
    BY <1>19, <1>0, <2>2, MarksStay, StepFail DEF JobBecomes
  <2> QED
    BY <2>1, <2>2
<1>20. ASSUME NEW s \in Sessions, Decline(s) \/ Pay(s) \/ Expire(s)
      PROVE  RefundsMarked'
  BY <1>20, <1>0, StripeSteps, StepStripe, MarksStay DEF SessionsStay
<1>21. ASSUME NEW s \in Sessions, DeliverFailed(s) \/ DeliverExpired(s)
      PROVE  RefundsMarked'
  BY <1>21, <1>0, MarksStay, StepDeliverEvent
<1>22. ASSUME NEW s \in Sessions, NEW st \in RiskStatuses, DeliverRisk(s, st)
      PROVE  RefundsMarked'
  BY <1>22, <1>0, MarksStay, StepDeliverRisk
<1>23. ASSUME NEW b \in Buyers, Ban(b)
      PROVE  RefundsMarked'
  BY <1>23, <1>0, MarksStay, StepBan
<1>24. CASE UNCHANGED vars
  BY <1>24, <1>0, MarksStay DEF vars, dbVars
<1> QED
  BY <1>1, <1>2, <1>3, <1>4, <1>5, <1>6, <1>7, <1>8, <1>9, <1>10, <1>11, <1>12, <1>13, <1>14,
     <1>15, <1>16, <1>17, <1>18, <1>19, <1>20, <1>21, <1>22, <1>23, <1>24 DEF Next, Start, Step, StripeStep

LEMMA ReceiptsClaimedStep ==
  ASSUME Known, JobsNamed, SessionsNamed,
         HoldersSure, TypeOK, ReceiptsClaimed, [Next]_vars
  PROVE  ReceiptsClaimed'
<1> USE DEF ReceiptsClaimed, Mailing
<1> claimed \in [Intents -> BOOLEAN] /\ receipts \in [Intents -> Nat]
  BY DEF TypeOK
<1>1. ASSUME NEW x \in Workers, NEW i \in Intents,
             CheckoutStart(x, i) \/ ResumeStart(x, i) \/ EditStart(x, i)
      PROVE  ReceiptsClaimed'
  BY <1>1, StepBegin DEF JobBecomes, TakesPerson
<1>2. ASSUME NEW x \in Workers, CheckoutCreate(x)
      PROVE  ReceiptsClaimed'
  BY <1>2, StepCheckoutCreate DEF JobBecomes, IntentBecomes
<1>3. ASSUME NEW x \in Workers, NEW s \in Sessions, CreateCheckout(x, s)
      PROVE  ReceiptsClaimed'
  BY <1>3, StepCreateCheckout DEF JobBecomes, StripeBecomes
<1>4. ASSUME NEW x \in Workers, AttachSession(x)
      PROVE  ReceiptsClaimed'
  BY <1>4, StepAttachSession DEF JobBecomes, IntentBecomes
<1>5. ASSUME NEW x \in Workers, ReopenLock(x)
      PROVE  ReceiptsClaimed'
  BY <1>5, StepReopenLock DEF JobBecomes, Takes
<1>6. ASSUME NEW x \in Workers, ReopenCommit(x)
      PROVE  ReceiptsClaimed'
  BY <1>6, StepReopenCommit DEF JobBecomes, IntentBecomes, Frees
<1>7. ASSUME NEW x \in Workers, NEW s \in Sessions, DeliverPaid(x, s)
      PROVE  ReceiptsClaimed'
  BY <1>7, StepDeliverPaid DEF JobBecomes
<1>8. ASSUME NEW x \in Workers, NEW i \in Intents, SweepList(x, i)
      PROVE  ReceiptsClaimed'
  BY <1>8, StepSweepList DEF JobBecomes
<1>9. ASSUME NEW x \in Workers, SweepAsk(x)
      PROVE  ReceiptsClaimed'
  BY <1>9, StepSweepAsk DEF JobBecomes
<1>10. ASSUME NEW x \in Workers, ActivateLock(x)
      PROVE  ReceiptsClaimed'
  BY <1>10, StepActivateLock DEF JobBecomes, Takes
<1>11. ASSUME NEW x \in Workers, ActivatePerson(x)
      PROVE  ReceiptsClaimed'
  BY <1>11, StepActivatePerson DEF JobBecomes, TakesPerson
<1>12. ASSUME NEW x \in Workers, ActivateDecide(x)
      PROVE  ReceiptsClaimed'
  BY <1>12, StepActivateDecide DEF JobBecomes
<1>13. ASSUME NEW x \in Workers, ActivateCommit(x)
      PROVE  ReceiptsClaimed'
  BY <1>13, StepActivateCommit DEF JobBecomes, IntentBecomes, Frees, FreesPerson
<1>14. ASSUME NEW x \in Workers,
             ReceiptClaim(x) \/ SendEmail(x) \/ SendEmailFails(x) \/ ReceiptRelease(x)
      PROVE  ReceiptsClaimed'
  <2>1. CASE ReceiptClaim(x)
    BY <2>1, StepReceipt DEF JobBecomes, JobsNamed
  <2>2. CASE SendEmail(x)
    BY <2>2, StepReceipt DEF JobBecomes, JobsNamed
  <2>3. CASE SendEmailFails(x)
    BY <2>3, StepReceipt DEF JobBecomes, JobsNamed
  <2>4. CASE ReceiptRelease(x)
    BY <2>4, StepReceipt DEF JobBecomes, JobsNamed
  <2> QED
    BY <1>14, <2>1, <2>2, <2>3, <2>4
<1>15. ASSUME NEW x \in Workers, NEW i \in Intents, RefundStart(x, i)
      PROVE  ReceiptsClaimed'
  BY <1>15, StepRefundStart DEF JobBecomes, Takes
<1>16. ASSUME NEW x \in Workers, RefundCall(x)
      PROVE  ReceiptsClaimed'
  BY <1>16, RefundCallMoves
<1>17. ASSUME NEW x \in Workers, RefundCommit(x)
      PROVE  ReceiptsClaimed'
  BY <1>17, StepRefundCommit DEF JobBecomes, IntentBecomes, Frees
<1>18. ASSUME NEW x \in Workers, EditCommit(x)
      PROVE  ReceiptsClaimed'
  BY <1>18, StepEditCommit DEF JobBecomes, FreesPerson
<1>19. ASSUME NEW x \in Workers, Fail(x)
      PROVE  ReceiptsClaimed'
  BY <1>19, StepFail DEF JobBecomes, Frees, FreesPerson
<1>20. ASSUME NEW s \in Sessions, Decline(s) \/ Pay(s) \/ Expire(s)
      PROVE  ReceiptsClaimed'
  <2>1. UNCHANGED <<claimed, receipts, job>>
    BY <1>20, StepStripe
  <2> QED
    BY <2>1
<1>21. ASSUME NEW s \in Sessions, DeliverFailed(s) \/ DeliverExpired(s)
      PROVE  ReceiptsClaimed'
  BY <1>21, StepDeliverEvent DEF IntentBecomes
<1>22. ASSUME NEW s \in Sessions, NEW st \in RiskStatuses, DeliverRisk(s, st)
      PROVE  ReceiptsClaimed'
  BY <1>22, StepDeliverRisk DEF IntentBecomes
<1>23. ASSUME NEW b \in Buyers, Ban(b)
      PROVE  ReceiptsClaimed'
  BY <1>23, StepBan
<1>24. CASE UNCHANGED vars
  BY <1>24 DEF vars, dbVars
<1> QED
  BY <1>1, <1>2, <1>3, <1>4, <1>5, <1>6, <1>7, <1>8, <1>9, <1>10, <1>11, <1>12, <1>13, <1>14,
     <1>15, <1>16, <1>17, <1>18, <1>19, <1>20, <1>21, <1>22, <1>23, <1>24 DEF Next, Start, Step, StripeStep

-----------------------------------------------------------------------------
(* The theorems.                                                           *)

LEMMA InitInvariant == Init => IInv
<1> SUFFICES ASSUME Init PROVE IInv
  OBVIOUS
<1>1. /\ \A x \in Workers : job[x].pc = "idle"
      /\ \A i \in Intents : intent[i].status = "none" /\ intent[i].session = None /\ intent[i].pay = None
      /\ \A s \in Sessions : stripe[s].state = "none" /\ stripe[s].of = None
                             /\ ~stripe[s].declined /\ ~stripe[s].refunded
      /\ delivered = {} /\ receipts = [i \in Intents |-> 0] /\ claimed = [i \in Intents |-> FALSE]
      /\ plock = [b \in Buyers |-> None]
  BY DEF Init, IdleJob
<1>2. TypeOK
  BY TypeInit
<1>3. JobsNamed /\ SessionsNamed /\ Creating /\ LocksHeld /\ PersonsHeld
  BY <1>1 DEF JobsNamed, SessionsNamed, Creating, LocksHeld, PersonsHeld, WithSession, HoldsIntent,
     Activating
<1>4. HoldersSure /\ PaymentsKnown /\ DeliveredStays /\ DeliveredIsPaid
  BY <1>1 DEF HoldersSure, Sure, Activating, PaymentsKnown, Collected, Risk, DeliveredStays,
     DeliveredIsPaid
<1>5. RefundsMarked /\ ReceiptsClaimed
  BY <1>1 DEF RefundsMarked, ReceiptsClaimed, Mailing
<1> QED
  BY <1>2, <1>3, <1>4, <1>5 DEF IInv

LEMMA StepInvariant == IInv /\ [Next]_vars => IInv'
<1> SUFFICES ASSUME IInv, [Next]_vars PROVE IInv'
  OBVIOUS
<1>1. /\ Known /\ TypeOK /\ JobsNamed /\ SessionsNamed /\ Creating /\ LocksHeld /\ PersonsHeld
      /\ HoldersSure /\ PaymentsKnown /\ DeliveredStays /\ DeliveredIsPaid /\ RefundsMarked
      /\ ReceiptsClaimed /\ delivered \subseteq Sessions
  BY DEF IInv, Known, TypeOK
<1>2. TypeOK' /\ JobsNamed' /\ SessionsNamed' /\ Creating' /\ LocksHeld' /\ PersonsHeld'
  BY <1>1, TypeStep, JobsNamedStep, SessionsNamedStep, CreatingStep, LocksHeldStep, PersonsHeldStep
<1>3. HoldersSure' /\ PaymentsKnown' /\ DeliveredStays' /\ DeliveredIsPaid'
  BY <1>1, HoldersSureStep, PaymentsKnownStep, DeliveredStaysStep, DeliveredIsPaidStep
<1>4. RefundsMarked' /\ ReceiptsClaimed'
  BY <1>1, RefundsMarkedStep, ReceiptsClaimedStep
<1> QED
  BY <1>2, <1>3, <1>4 DEF IInv

\* The inductive invariant holds for ever.
THEOREM Invariance == Spec => []IInv
<1>1. Init => IInv
  BY InitInvariant
<1>2. IInv /\ [Next]_vars => IInv'
  BY StepInvariant
<1> QED
  BY <1>1, <1>2, PTL DEF Spec

\* Type correctness of the purchase rows, the locks and the handlers' local state.
THEOREM TypeCorrect == Spec => []TypeOK
<1>1. IInv => TypeOK
  BY DEF IInv
<1> QED
  BY <1>1, Invariance, PTL

\* activatePaidPurchase delivers a package, its inflow and its PV only for a payment
\* Stripe collected and the purchase names, to a buyer who is placed in the tree.
THEOREM DeliveredPaid == Spec => []DeliveredIsPaid
<1>1. IInv => DeliveredIsPaid
  BY DEF IInv
<1> QED
  BY <1>1, Invariance, PTL

\* afterPaymentConfirmed mails at most one receipt of a purchase, through any number of
\* webhook deliveries, sweeps and later activations.
THEOREM ReceiptsOnce == Spec => []ReceiptOnce
<1>1. IInv => ReceiptOnce
  BY DEF IInv, ReceiptsClaimed, ReceiptOnce, TypeOK
<1> QED
  BY <1>1, Invariance, PTL

\* Without an admin's edit of the person, the locks of purchase_intent and mlm.person
\* are taken in one order and no two handlers wait for each other.
THEOREM NoCycle == Spec => []("edit" \notin Happens => NoLockCycle)
<1>1. IInv => ("edit" \notin Happens => NoLockCycle)
  <2> SUFFICES ASSUME IInv, "edit" \notin Happens, NEW x \in Workers, NEW y \in Workers,
                      WaitsForPerson(x), plock[Buyer(x)] = y, WaitsForIntent(y)
               PROVE  FALSE
    BY DEF NoLockCycle
  <2>1. Buyer(x) \in Buyers
    BY DEF IInv, JobsNamed, WaitsForPerson, Buyer
  <2>2. job[y].pc \in HoldsPerson /\ job[y].pc # "edit"
    BY <2>1 DEF IInv, PersonsHeld
  <2> QED
    BY <2>2 DEF HoldsPerson, WaitsForIntent
<1> QED
  BY <1>1, Invariance, PTL

\* A refunded, blocked, disputed or charged back purchase is never reopened by the
\* activation, the resumed cart or an event.
THEOREM ClosedStaysClosed == Spec => RiskIsKept
<1>1. IInv /\ [Next]_vars => [RiskStays]_vars
  BY RiskStaysStep DEF IInv, Known
<1> QED
  BY <1>1, Invariance, PTL DEF RiskIsKept, RiskStays, Spec

\* The activation never replaces the payment of a purchase by another session's.
THEOREM PaymentIsKept == Spec => PaymentKept
<1>1. IInv /\ [Next]_vars => [PaymentStays]_vars
  BY PaymentStaysStep DEF IInv, Known
<1> QED
  BY <1>1, Invariance, PTL DEF PaymentKept, PaymentStays, Spec

\* The refund keeps the purchase's row locked while it calls Stripe, so that no activation
\* delivers a package for a refunded payment (unless the refund's own commit is lost).
THEOREM RefundStops == ("refundCommitFails" \notin Happens) => (Spec => RefundStopsDelivery)
<1> SUFFICES ASSUME "refundCommitFails" \notin Happens PROVE Spec => RefundStopsDelivery
  OBVIOUS
<1> DEFINE NoRefunded == \A s \in delivered' \ delivered : ~stripe[s].refunded
<1>1. IInv /\ [Next]_vars => [NoRefunded]_vars
  <2> SUFFICES ASSUME IInv, [Next]_vars, NEW s \in delivered' \ delivered PROVE ~stripe[s].refunded
    OBVIOUS
  <2>1. Known /\ HoldersSure
    BY DEF IInv, Known
  <2>2. PICK x \in Workers : ActivateCommit(x)
    <3> USE DEF dbVars
    <3>1. ASSUME NEW x \in Workers, QuietStep(x) PROVE UNCHANGED delivered
      BY <3>1, QuietSteps
    <3>2. ASSUME NEW x \in Workers, NEW t \in Sessions, CreateCheckout(x, t)
          PROVE  UNCHANGED delivered
      BY <3>2 DEF CreateCheckout
    <3>3. ASSUME NEW x \in Workers,
                 CheckoutCreate(x) \/ AttachSession(x) \/ ReopenCommit(x)
                 \/ RefundCall(x) \/ RefundCommit(x)
          PROVE  UNCHANGED delivered
      BY <3>3 DEF CheckoutCreate, AttachSession, ReopenCommit, RefundCall, RefundCommit
    <3>4. ASSUME NEW t \in Sessions, StripeStep(t) PROVE UNCHANGED delivered
      BY <3>4 DEF StripeStep, Decline, Pay, Expire, DeliverFailed, DeliverExpired, DeliverRisk
    <3>5. ASSUME NEW b \in Buyers, Ban(b) PROVE UNCHANGED delivered
      BY <3>5 DEF Ban
    <3>6. CASE UNCHANGED vars
      BY <3>6 DEF vars
    <3> QED
      BY <3>1, <3>2, <3>3, <3>4, <3>5, <3>6 DEF Next, Start, Step, QuietStep
  <2> DEFINE i == job[x].intent
  <2>3. job[x].pc = "commit" /\ i \in Intents /\ s = job[x].session /\ s \in Sessions
    BY <2>1, <2>2, StepActivateCommit
  <2>4. intent[i].status \notin Risk /\ lock[i] = x /\ stripe[s].of = i
    BY <2>1, <2>3 DEF HoldersSure, Sure, Activating, Risk, IInv, LocksHeld, HoldsIntent, JobsNamed,
       WithSession
  <2>5. ASSUME NEW y \in Workers, job[y].pc = "refunded", job[y].session = s PROVE FALSE
    BY <2>3, <2>4, <2>5 DEF IInv, LocksHeld, HoldsIntent, JobsNamed, WithSession
  <2> QED
    BY <2>3, <2>4, <2>5 DEF IInv, RefundsMarked
<1> QED
  BY <1>1, Invariance, PTL DEF RefundStopsDelivery, Spec
=============================================================================
