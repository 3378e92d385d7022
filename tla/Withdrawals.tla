---------------------------- MODULE Withdrawals ----------------------------
(***************************************************************************)
(* The withdrawal service (vp-engine/internal/withdrawals) over its        *)
(* PostgreSQL database: members request withdrawals, admins approve,       *)
(* reject, cancel or pay them, operations freezes credits and bans members *)
(* behind the service's back, and the external BMP platform says who can   *)
(* be paid.                                                                *)
(*                                                                         *)
(* Every handler is split where another process can run: at each call to   *)
(* BMP, at each statement outside a transaction, at each statement of the  *)
(* READ COMMITTED payment transaction (every statement has a snapshot of   *)
(* its own) and between a SERIALIZABLE transaction's snapshot and its      *)
(* commit.  What a transaction writes becomes visible when it commits.     *)
(***************************************************************************)
EXTENDS WithdrawalRules, FiniteSets, FiniteSetsExt

CONSTANTS
  Members, Mails, SessionMail,   \* members, e-mails, the session e-mail of each member
  Sessions, Admins, Registered,  \* request handlers, admins, admins with a mlm.person row
  Rows, Links,                   \* ids of withdrawal_request and bmp_account_link
  Credits, CreditOwner, CreditAmount, \* positive wallet movements
  Amounts, MinWithdrawal,        \* quantized amounts a member may ask for
  RawAnswers,                    \* the states a BMP account may be in
  RequireBMP, BMPEnabled,        \* configuration
  BMPFreshness, MaxClock,
  Freezable, Bannable,           \* credits and members operations may touch
  OpsAvoids,                     \* the in-flight work operations stays out of
  None

ASSUME ConstantsAssumption ==
  /\ SessionMail \in [Members -> Mails]
  /\ CreditOwner \in [Credits -> Members]
  /\ CreditAmount \in [Credits -> Nat]
  /\ IsFiniteSet(Rows) /\ IsFiniteSet(Credits)
  /\ Amounts \subseteq Nat /\ MinWithdrawal \in Nat
  /\ RawAnswers \subseteq RawAnswer
  /\ Registered \subseteq Admins
  /\ Freezable \subseteq Credits /\ Bannable \subseteq Members
  /\ BMPFreshness \in Nat /\ MaxClock \in Nat
  /\ RequireBMP \in BOOLEAN /\ BMPEnabled \in BOOLEAN
  /\ OpsAvoids \subseteq {"request", "payment"}
  /\ None \notin Members \cup Mails \cup Admins

VARIABLES
  status, approver, row, ev,     \* the columns of withdrawal_request
  debits,                        \* number of 'withdrawal:<id>' debit movements
  lock,                          \* row lock of withdrawal_request
  credit, banned,                \* wallet movements, suspended members
  link,                          \* bmp_account_link
  said, clock,                   \* the positive answers of BMP so far, time
  req, adm,                      \* local state of the handlers
  balance                        \* ... and the balance a payment has read

rowVars == <<status, approver, row, ev, debits>>
opsVars == <<credit, banned>>
bmpVars == <<said, clock>>
vars == <<rowVars, lock, opsVars, link, bmpVars, req, adm, balance>>

IdleReq == [pc |-> "idle", member |-> None, amount |-> 0, mail |-> None,
            verdict |-> "unavailable", at |-> 0, seen |-> {}]
IdleAdm == [pc |-> "idle", row |-> None, to |-> "none", mail |-> None,
            verdict |-> "unavailable", at |-> 0]

Init ==
  /\ status = [w \in Rows |-> "none"]
  /\ approver = [w \in Rows |-> None]
  /\ row = [w \in Rows |-> [member |-> None, amount |-> 0]]
  /\ ev = [w \in Rows |-> [verdict |-> "unavailable", at |-> 0, mail |-> None]]
  /\ debits = [w \in Rows |-> 0]
  /\ lock = [w \in Rows |-> None]
  /\ credit \in [Credits -> {"maturing", "available"}]
  /\ banned = {}
  /\ link = [l \in Links |-> [status |-> "none", member |-> None, mail |-> None]]
  /\ said = {}
  /\ clock = 0
  /\ req = [s \in Sessions |-> IdleReq]
  /\ adm = [a \in Admins |-> IdleAdm]
  /\ balance = [a \in Admins |-> 0]

-----------------------------------------------------------------------------
(* What the SQL constants of balance.go compute on the committed state.    *)

RowsOf(m) == {w \in Rows : status[w] # "none" /\ row[w].member = m}

OpenRows(m) == {w \in RowsOf(m) : status[w] \in Open}

Amount == [w \in Rows |-> row[w].amount]

Debit == [w \in Rows |-> debits[w] * row[w].amount]

Debited(m) == SumFunctionOnSet(Debit, RowsOf(m))

Credited(m, states) ==
  SumFunctionOnSet(CreditAmount, {c \in Credits : CreditOwner[c] = m /\ credit[c] \in states})

\* AvailableBalanceSQL: matured, unfrozen movements, withdrawal debits included.
Available(m) == Credited(m, {"available"}) - Debited(m)

\* PendingWithdrawalsSQL
Pending(m) == SumFunctionOnSet(Amount, OpenRows(m))

\* PendingWithdrawalsExcludingSQL
PendingExcluding(m, w) == SumFunctionOnSet(Amount, OpenRows(m) \ {w})

\* Bug: the link is used before an admin approved it.
BugMailOfAnyLink(m) ==
  IF \E l \in Links : link[l].member = m
  THEN link[CHOOSE l \in Links : link[l].member = m].mail
  ELSE None

\* ApprovedBMPEmail: at most one approved link per affiliate (unique index).
ApprovedMail(m) ==
  IF \E l \in Links : link[l].status = "approved" /\ link[l].member = m
  THEN link[CHOOSE l \in Links : link[l].status = "approved" /\ link[l].member = m].mail
  ELSE None

\* What bmpEmailFor may return: it falls back to the session e-mail when there is
\* no approved link and also when the database cannot say.
bmpEmailFor(m) == {SessionMail[m], Coalesce(ApprovedMail(m), SessionMail[m], None)}

\* EmailByWithdrawalID
EmailByWithdrawalID(w) ==
  LET m == row[w].member
  IN Coalesce(ev[w].mail, Coalesce(ApprovedMail(m), SessionMail[m], None), None)

\* BMP's accounts change at any time, so a call may find any state of one; and
\* there may be no answer.
VerifyUser == {"unavailable"} \cup {translate(raw) : raw \in RawAnswers}

Heard(mail, v) == IF v = "allowed" THEN said \cup {<<mail, clock>>} ELSE said

-----------------------------------------------------------------------------
(* handleWithdraw and RequestWithdrawalWithBMP.                            *)

NewRequest(m, amount, mail) ==
  [IdleReq EXCEPT !.pc = IF BMPEnabled THEN "verify" ELSE "begin",
                  !.member = m, !.amount = amount, !.mail = mail, !.at = clock]

\* The suspension check lets the request through when it cannot be made.
RequestStart(s, m, amount) ==
  /\ req[s].pc = "idle"
  /\ \E suspensionError \in BOOLEAN : suspensionError \/ m \notin banned
  /\ \E mail \in bmpEmailFor(m) : req' = [req EXCEPT ![s] = NewRequest(m, amount, mail)]
  /\ UNCHANGED <<rowVars, lock, opsVars, link, bmpVars, adm, balance>>

\* BMP is asked; without an answer the request goes on as "unavailable".
RequestVerify(s) ==
  /\ req[s].pc = "verify"
  /\ \E v \in VerifyUser :
       /\ req' = [req EXCEPT ![s] = [@ EXCEPT !.pc = "begin", !.verdict = v, !.at = clock]]
       /\ said' = Heard(req[s].mail, v)
  /\ UNCHANGED <<rowVars, lock, opsVars, link, clock, adm, balance>>

\* The snapshot of the SERIALIZABLE transaction: minimum and balance.
RequestSnapshot(s) ==
  LET m == req[s].member IN
  /\ req[s].pc = "begin"
  /\ IF /\ req[s].amount >= MinWithdrawal
        /\ req[s].amount <= Available(m) - Pending(m)
     THEN req' = [req EXCEPT ![s] = [@ EXCEPT !.pc = "insert", !.seen = RowsOf(m)]]
     ELSE req' = [req EXCEPT ![s] = IdleReq]
  /\ UNCHANGED <<rowVars, lock, opsVars, link, bmpVars, adm, balance>>

\* Bug: the request runs at READ COMMITTED.
BugReadCommitted(s) == TRUE

\* PostgreSQL aborts the second of two overlapping SERIALIZABLE requests of a
\* member: each one read the rows the other one adds to.
Serializable(s) == RowsOf(req[s].member) = req[s].seen

\* The INSERT and its COMMIT.  Nothing is said about a mail BMP did not answer for.
RequestCommit(s, w) ==
  /\ req[s].pc = "insert"
  /\ status[w] = "none"
  /\ Serializable(s)
  /\ status' = [status EXCEPT ![w] = "requested"]
  /\ row' = [row EXCEPT ![w] = [member |-> req[s].member, amount |-> req[s].amount]]
  /\ ev' = [ev EXCEPT ![w] =
              [verdict |-> req[s].verdict, at |-> req[s].at,
               mail |-> IF req[s].verdict = "unavailable" THEN None ELSE req[s].mail]]
  /\ req' = [req EXCEPT ![s] = IdleReq]
  /\ UNCHANGED <<approver, debits, lock, opsVars, link, bmpVars, adm, balance>>

\* A serialization failure, a database error, a closed financial guard, a lost
\* connection: the transaction leaves nothing behind.
RequestFail(s) ==
  /\ req[s].pc \in {"verify", "begin", "insert"}
  /\ req' = [req EXCEPT ![s] = IdleReq]
  /\ UNCHANGED <<rowVars, lock, opsVars, link, bmpVars, adm, balance>>

-----------------------------------------------------------------------------
(* handleBMPLinkRequest / RequestBMPLink: verified first, then inserted;   *)
(* the partial unique index admits one pending link per affiliate.         *)

LinkStart(s, m, mail) ==
  /\ Links # {}
  /\ req[s].pc = "idle" /\ BMPEnabled
  /\ \E v \in VerifyUser :
       /\ v \notin {"unavailable", "not_registered"}
       /\ req' = [req EXCEPT ![s] = [IdleReq EXCEPT !.pc = "link", !.member = m, !.mail = mail]]
       /\ said' = Heard(mail, v)
  /\ UNCHANGED <<rowVars, lock, opsVars, link, clock, adm, balance>>

LinkTaken(m, st) == \E l \in Links : link[l].member = m /\ link[l].status = st

LinkInsert(s) ==
  /\ req[s].pc = "link"
  /\ \/ /\ ~LinkTaken(req[s].member, "pending_admin")
        /\ \E l \in Links :
             /\ link[l].status = "none"
             /\ link' = [link EXCEPT ![l] = [status |-> "pending_admin",
                                             member |-> req[s].member, mail |-> req[s].mail]]
     \/ UNCHANGED link            \* ErrLinkPending, or a database error
  /\ req' = [req EXCEPT ![s] = IdleReq]
  /\ UNCHANGED <<rowVars, lock, opsVars, bmpVars, adm, balance>>

\* ReviewBMPLink: one guarded UPDATE, bounced by the one-approved index.
LinkReview(a, l, to) ==
  /\ adm[a].pc = "idle"
  /\ link[l].status = "pending_admin"
  /\ to = "approved" => ~LinkTaken(link[l].member, "approved")
  /\ link' = [link EXCEPT ![l].status = to]
  /\ UNCHANGED <<rowVars, lock, opsVars, bmpVars, req, adm, balance>>

-----------------------------------------------------------------------------
(* handleAdminWithdrawalAction and SetWithdrawalStatus.                    *)

GoTo(a, pc) == adm' = [adm EXCEPT ![a].pc = pc]

NewAction(w, to) ==
  IF to = "paid" /\ BMPEnabled
  THEN [IdleAdm EXCEPT !.pc = "verify", !.row = w, !.to = to, !.mail = EmailByWithdrawalID(w)]
  ELSE [IdleAdm EXCEPT !.pc = "set", !.row = w, !.to = to]

\* An admin acts on a row of the queue, in whatever status it is by now.  Only
\* "pay" resolves the e-mail BMP is asked about.
AdminStart(a, w, to) ==
  /\ adm[a].pc = "idle"
  /\ status[w] # "none"
  /\ adm' = [adm EXCEPT ![a] = NewAction(w, to)]
  /\ UNCHANGED <<rowVars, lock, opsVars, link, bmpVars, req, balance>>

\* No answer: logged, and the handler goes on without refreshing the row.
AdminVerify(a) ==
  /\ adm[a].pc = "verify"
  /\ \E v \in VerifyUser :
       /\ adm' = [adm EXCEPT ![a] = [@ EXCEPT !.pc = IF v = "unavailable" THEN "set" ELSE "refresh",
                                               !.verdict = v, !.at = clock]]
       /\ said' = Heard(adm[a].mail, v)
  /\ UNCHANGED <<rowVars, lock, opsVars, link, clock, req, balance>>

\* RefreshBMPVerification, whatever the row's status; an error is only logged.
AdminRefresh(a) ==
  LET w == adm[a].row IN
  /\ adm[a].pc = "refresh"
  /\ \/ /\ lock[w] = None
        /\ ev' = [ev EXCEPT ![w] = [@ EXCEPT !.verdict = adm[a].verdict, !.at = adm[a].at]]
     \/ UNCHANGED ev
  /\ GoTo(a, "set")
  /\ UNCHANGED <<status, approver, row, debits, lock, opsVars, link, bmpVars, req, balance>>

\* PersonSuspendedByWithdrawalID
SuspendedOwner(w) == row[w].member \in banned

\* D10, before the transaction: a suspended owner ends the payment.
AdminCheckSuspension(a) ==
  LET w == adm[a].row IN
  /\ adm[a].pc = "set"
  /\ IF adm[a].to = "paid"
     THEN IF SuspendedOwner(w)
          THEN adm' = [adm EXCEPT ![a] = IdleAdm]
          ELSE GoTo(a, "bmp")
     ELSE GoTo(a, "update")
  /\ UNCHANGED <<rowVars, lock, opsVars, link, bmpVars, req, balance>>

\* assertBMPFresh, also before the transaction; it blocks only when required.
AdminAssertBMP(a) ==
  LET e == ev[adm[a].row] IN
  /\ adm[a].pc = "bmp"
  /\ IF RequireBMP => IsFresh(e.verdict, e.at, clock, BMPFreshness)
     THEN GoTo(a, "update")
     ELSE adm' = [adm EXCEPT ![a] = IdleAdm]
  /\ UNCHANGED <<rowVars, lock, opsVars, link, bmpVars, req, balance>>

\* The guarded UPDATE waits for the row lock and re-reads the committed status.
Unlocked(w) == lock[w] = None

AdminUpdate(a) ==
  LET w == adm[a].row IN
  /\ adm[a].pc = "update"
  /\ Unlocked(w)
  /\ IF status[w] \in withdrawalTransitions[adm[a].to]
     THEN /\ lock' = [lock EXCEPT ![w] = a]
          /\ GoTo(a, IF adm[a].to = "paid" THEN "avail" ELSE "commit")
     ELSE /\ adm' = [adm EXCEPT ![a] = IdleAdm]
          /\ UNCHANGED lock
  /\ UNCHANGED <<rowVars, opsVars, link, bmpVars, req, balance>>

\* First statement of the re-validation: the balance.
PayReadAvailable(a) ==
  /\ adm[a].pc = "avail"
  /\ balance' = [balance EXCEPT ![a] = Available(row[adm[a].row].member)]
  /\ GoTo(a, "pending")
  /\ UNCHANGED <<rowVars, lock, opsVars, link, bmpVars, req>>

\* Bug: the re-validation forgets what the other withdrawals reserve.
BugIgnoresOthers(a) == row[adm[a].row].amount <= balance[a]

Covered(a) ==
  LET w == adm[a].row
  IN row[w].amount <= balance[a] - PendingExcluding(row[w].member, w)

Release(a) == lock' = [lock EXCEPT ![adm[a].row] = None]

\* Second statement, with a later snapshot: the other open withdrawals.
PayReadPending(a) ==
  /\ adm[a].pc = "pending"
  /\ IF Covered(a)
     THEN GoTo(a, "commit") /\ UNCHANGED lock
     ELSE adm' = [adm EXCEPT ![a] = IdleAdm] /\ Release(a)
  /\ balance' = [balance EXCEPT ![a] = 0]
  /\ UNCHANGED <<rowVars, opsVars, link, bmpVars, req>>

\* Bug (fixed in admin.go): the payer overwrites the approver.
BugPayerOverwrites(a) == IF a \in Registered THEN a ELSE approver[adm[a].row]

\* approved_by_person_id is written by an approval only, and kept when the
\* approving admin has no person row.
ApproverAfter(a) ==
  LET w == adm[a].row IN
  IF adm[a].to = "approved" /\ a \in Registered THEN a ELSE approver[w]

\* external_ref is unique: ON CONFLICT DO NOTHING.
DebitsAfter(a) ==
  LET w == adm[a].row IN
  IF adm[a].to = "paid" /\ debits[w] = 0 THEN 1 ELSE debits[w]

\* Status, approver and debit become visible together, and the lock is freed.
AdminCommit(a) ==
  LET w == adm[a].row IN
  /\ adm[a].pc = "commit"
  /\ status' = [status EXCEPT ![w] = adm[a].to]
  /\ approver' = [approver EXCEPT ![w] = ApproverAfter(a)]
  /\ debits' = [debits EXCEPT ![w] = DebitsAfter(a)]
  /\ Release(a)
  /\ adm' = [adm EXCEPT ![a] = IdleAdm]
  /\ UNCHANGED <<row, ev, opsVars, link, bmpVars, req, balance>>

\* A failed read, a closed guard, a dead connection or process: rollback.
AdminFail(a) ==
  /\ adm[a].pc # "idle"
  /\ lock' = [w \in Rows |-> IF lock[w] = a THEN None ELSE lock[w]]
  /\ adm' = [adm EXCEPT ![a] = IdleAdm]
  /\ balance' = [balance EXCEPT ![a] = 0]
  /\ UNCHANGED <<rowVars, opsVars, link, bmpVars, req>>

AdminStep(a) ==
  \/ AdminVerify(a) \/ AdminRefresh(a) \/ AdminCheckSuspension(a) \/ AdminAssertBMP(a)
  \/ AdminUpdate(a) \/ PayReadAvailable(a) \/ PayReadPending(a) \/ AdminCommit(a)

-----------------------------------------------------------------------------
(* The world around the service: operations, BMP and time.                 *)

Requesting(m) == \E s \in Sessions : req[s].pc = "insert" /\ req[s].member = m

Paying(m, pcs) ==
  \E a \in Admins : /\ adm[a].pc \in pcs /\ adm[a].to = "paid"
                    /\ row[adm[a].row].member = m

\* The console of operations is not tied to the service; OpsAvoids is the
\* discipline a run assumes of it (the empty set: none).
MayFreeze(m) ==
  /\ "request" \in OpsAvoids => ~Requesting(m)
  /\ "payment" \in OpsAvoids => ~Paying(m, {"pending", "commit"})

MayBan(m) ==
  "payment" \in OpsAvoids => ~Paying(m, {"bmp", "update", "avail", "pending", "commit"})

Mature(c) ==
  /\ credit[c] = "maturing"
  /\ credit' = [credit EXCEPT ![c] = "available"]
  /\ UNCHANGED <<rowVars, lock, banned, link, bmpVars, req, adm, balance>>

Freeze(c) ==
  /\ c \in Freezable /\ credit[c] = "available"
  /\ MayFreeze(CreditOwner[c])
  /\ credit' = [credit EXCEPT ![c] = "frozen"]
  /\ UNCHANGED <<rowVars, lock, banned, link, bmpVars, req, adm, balance>>

Unfreeze(c) ==
  /\ credit[c] = "frozen"
  /\ credit' = [credit EXCEPT ![c] = "available"]
  /\ UNCHANGED <<rowVars, lock, banned, link, bmpVars, req, adm, balance>>

Ban(m) ==
  /\ m \in Bannable \ banned
  /\ MayBan(m)
  /\ banned' = banned \cup {m}
  /\ UNCHANGED <<rowVars, lock, credit, link, bmpVars, req, adm, balance>>

Unban(m) ==
  /\ m \in banned
  /\ banned' = banned \ {m}
  /\ UNCHANGED <<rowVars, lock, credit, link, bmpVars, req, adm, balance>>

Tick ==
  /\ clock < MaxClock
  /\ clock' = clock + 1
  /\ UNCHANGED <<rowVars, lock, opsVars, link, said, req, adm, balance>>

Next ==
  \/ \E s \in Sessions, m \in Members, amount \in Amounts : RequestStart(s, m, amount)
  \/ \E s \in Sessions : RequestVerify(s) \/ RequestSnapshot(s) \/ RequestFail(s)
  \/ \E s \in Sessions, w \in Rows : RequestCommit(s, w)
  \/ \E s \in Sessions, m \in Members, mail \in Mails : LinkStart(s, m, mail)
  \/ \E s \in Sessions : LinkInsert(s)
  \/ \E a \in Admins, l \in Links, to \in {"approved", "rejected"} : LinkReview(a, l, to)
  \/ \E a \in Admins, w \in Rows, to \in Targets : AdminStart(a, w, to)
  \/ \E a \in Admins : AdminStep(a) \/ AdminFail(a)
  \/ \E c \in Credits : Mature(c) \/ Freeze(c) \/ Unfreeze(c)
  \/ \E m \in Members : Ban(m) \/ Unban(m)
  \/ Tick

Spec == Init /\ [][Next]_vars

-----------------------------------------------------------------------------
(* Properties.                                                             *)

ReqPc == {"idle", "verify", "begin", "insert", "link"}
AdmPc == {"idle", "verify", "refresh", "set", "bmp", "update", "avail", "pending", "commit"}

Answers == Verdict \cup {"unavailable"}

RowRec == [member : Members \cup {None}, amount : Nat]
EvRec  == [verdict : Answers, at : Nat, mail : Mails \cup {None}]
LinkRec == [status : {"none", "pending_admin", "approved", "rejected"},
            member : Members \cup {None}, mail : Mails \cup {None}]
ReqRec == [pc : ReqPc, member : Members \cup {None}, amount : Nat, mail : Mails \cup {None},
           verdict : Answers, at : Nat, seen : SUBSET Rows]
AdmRec == [pc : AdmPc, row : Rows \cup {None}, to : Targets \cup {"none"},
           mail : Mails \cup {None}, verdict : Answers, at : Nat]

\* Every variable holds a value of the kind the code keeps there.
TypeOK ==
  /\ status \in [Rows -> Status]
  /\ approver \in [Rows -> Registered \cup {None}]
  /\ row \in [Rows -> RowRec]
  /\ ev \in [Rows -> EvRec]
  /\ debits \in [Rows -> {0, 1}]
  /\ lock \in [Rows -> Admins \cup {None}]
  /\ credit \in [Credits -> {"maturing", "available", "frozen"}]
  /\ banned \subseteq Members
  /\ link \in [Links -> LinkRec]
  /\ said \subseteq (Mails \cup {None}) \X Nat
  /\ clock \in Nat
  /\ req \in [Sessions -> ReqRec]
  /\ adm \in [Admins -> AdmRec]
  /\ balance = [a \in Admins |-> balance[a]]

\* A withdrawal is debited once if it is paid, and never otherwise: status and
\* debit are one transaction whatever fails in the middle of SetWithdrawalStatus.
DebitIffPaid == \A w \in Rows : debits[w] = IF status[w] = "paid" THEN 1 ELSE 0

\* The handler that passed the guarded UPDATE holds the row lock until it ends,
\* and nobody moves the row under it: what it will commit is still legal.
HolderMayCommit ==
  \A a \in Admins :
    adm[a].pc \in {"avail", "pending", "commit"} =>
      /\ lock[adm[a].row] = a
      /\ status[adm[a].row] \in withdrawalTransitions[adm[a].to]

\* What a member has earned, frozen or not, always covers what was paid and
\* what is still open: two requests racing for the same balance cannot both
\* reserve it, and a request racing a payment counts the money once.
EarnedCoversReserved ==
  \A m \in Members : Credited(m, {"available", "frozen"}) - Debited(m) >= Pending(m)

\* The e-mails under which BMP may be asked about a member.
OwnMails(m) ==
  {SessionMail[m]} \cup {link[l].mail : l \in {k \in Links : /\ link[k].status = "approved"
                                                             /\ link[k].member = m}}

\* A row is marked allowed, with a date, only if BMP gave that answer at that
\* date for a mail that is the member's own or that an admin approved as such
\* (D2): no admin's stale write and no unreviewed link can make it so.
EvidenceIsReal ==
  \A w \in Rows : ev[w].verdict = "allowed" =>
    \E mail \in OwnMails(row[w].member) : <<mail, ev[w].at>> \in said

Pays(w) == status[w] # "paid" /\ status'[w] = "paid"

\* A payment never takes the available balance below zero, although it reads
\* the balance and the other reservations in two snapshots, and payments,
\* cancellations and requests of the same member run in between.
PayNeverOverdraws ==
  [][\A w \in Rows : Pays(w) => Available(row[w].member)' >= 0]_vars

\* What a payment leaves still covers every other open withdrawal.
PayLeavesCovered ==
  [][\A w \in Rows : Pays(w) => Available(row[w].member)' >= Pending(row[w].member)']_vars

\* The service keeps its promise about every withdrawal.
Promise == INSTANCE WithdrawalPromise
             WITH Rows <- Rows, Admins <- Admins, Registered <- Registered, None <- None,
                  status <- status, approver <- approver, debits <- debits
KeepsPromise == Promise!Spec
=============================================================================
