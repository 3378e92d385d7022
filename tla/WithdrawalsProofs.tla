------------------------- MODULE WithdrawalsProofs -------------------------
(***************************************************************************)
(* Theorems about Withdrawals for any number of members, handlers, admins  *)
(* and withdrawals.  The inductive invariant joins the type invariant, the *)
(* ownership of row locks and the provenance of every BMP answer in        *)
(* flight; DebitIffPaid, HolderMayCommit and EvidenceIsReal follow from it *)
(* and so does the refinement of WithdrawalPromise.  MoneyInv and PayInv   *)
(* carry what a request and a payment know of the balance they read.       *)
(***************************************************************************)
EXTENDS Withdrawals, Sums, TLAPS

\* An admin handler at work is about an existing row and a known transition.
AdminsAtWork ==
  \A a \in Admins : adm[a].pc # "idle" =>
    /\ adm[a].row \in Rows /\ adm[a].to \in Targets
    /\ status[adm[a].row] # "none"

\* A row that exists belongs to a member.
RowsOwned == \A w \in Rows : status[w] # "none" => row[w].member \in Members

\* A row is not debited and has no approver before it is approved, and no
\* verdict before it exists.
RowsFresh ==
  \A w \in Rows :
    /\ status[w] \in {"none", "requested"} => approver[w] = None
    /\ status[w] = "none" => ev[w].verdict = "unavailable"

\* Every mail BMP is asked about, and every positive answer on its way to a
\* row, is the member's.  (The links and the answers are parameters, so that
\* the next state is OwnedIn(m, link') and HeededIn(..., link', said').)
OwnedIn(m, links) ==
  {SessionMail[m]} \cup {links[l].mail : l \in {k \in Links : /\ links[k].status = "approved"
                                                              /\ links[k].member = m}}

HeededIn(m, mail, verdict, at, links, answers) ==
  /\ mail \in OwnedIn(m, links)
  /\ verdict = "allowed" => <<mail, at>> \in answers

RequestsOwned ==
  \A s \in Sessions : req[s].pc \in {"verify", "begin", "insert"} =>
    /\ req[s].member \in Members
    /\ HeededIn(req[s].member, req[s].mail, req[s].verdict, req[s].at, link, said)

ActionsOwned ==
  \A a \in Admins : adm[a].pc \in {"verify", "refresh"} =>
    HeededIn(row[adm[a].row].member, adm[a].mail, adm[a].verdict, adm[a].at, link, said)

RowsOwnMail ==
  \A w \in Rows : status[w] # "none" =>
    ev[w].mail \in OwnedIn(row[w].member, link) \cup {None}

\* EvidenceIsReal in the same terms.
EvidenceOwned ==
  \A w \in Rows : ev[w].verdict = "allowed" =>
    \E mail \in OwnedIn(row[w].member, link) : <<mail, ev[w].at>> \in said

IInv ==
  /\ TypeOK
  /\ AdminsAtWork
  /\ RowsOwned
  /\ RowsFresh
  /\ HolderMayCommit
  /\ DebitIffPaid
  /\ RequestsOwned
  /\ ActionsOwned
  /\ RowsOwnMail
  /\ EvidenceOwned

USE ConstantsAssumption

-----------------------------------------------------------------------------
(* Types.                                                                  *)

LEMMA VerifyUserType == VerifyUser \subseteq Answers
  BY DEF VerifyUser, translate, RawAnswer, Answers, Verdict, Blocked

LEMMA IdleTypes == IdleReq \in ReqRec /\ IdleAdm \in AdmRec
  BY DEF IdleReq, IdleAdm, ReqRec, AdmRec, ReqPc, AdmPc, Answers

\* Moving a handler to another step, or ending it, keeps its record a record.
LEMMA AdmMoves ==
  ASSUME adm \in [Admins -> AdmRec], NEW a \in Admins
  PROVE  /\ \A pc \in AdmPc : GoTo(a, pc) => adm' \in [Admins -> AdmRec]
         /\ adm' = [adm EXCEPT ![a] = IdleAdm] => adm' \in [Admins -> AdmRec]
<1>1. \A pc \in AdmPc : [adm[a] EXCEPT !.pc = pc] \in AdmRec
  BY DEF AdmRec
<1> QED
  BY <1>1, IdleTypes DEF GoTo

\* The mails the database yields are mails.
LEMMA MailTypes ==
  ASSUME TypeOK
  PROVE  /\ \A m \in Members : ApprovedMail(m) \in Mails \cup {None}
         /\ \A m \in Members : bmpEmailFor(m) \subseteq Mails \cup {None}
         /\ \A w \in Rows : row[w].member \in Members => EmailByWithdrawalID(w) \in Mails \cup {None}
<1>1. \A m \in Members : ApprovedMail(m) \in Mails \cup {None}
  BY DEF TypeOK, ApprovedMail, LinkRec
<1>2. \A w \in Rows : ev[w].mail \in Mails \cup {None}
  BY DEF TypeOK, EvRec
<1> QED
  BY <1>1, <1>2 DEF bmpEmailFor, EmailByWithdrawalID, Coalesce

LEMMA TypeInit == Init => TypeOK
  BY IdleTypes DEF Init, TypeOK, RowRec, EvRec, LinkRec, Answers, Status, Open, Final

\* What a call to BMP leaves in a record and in the answers given.
LEMMA HeardType ==
  ASSUME TypeOK, NEW mail \in Mails \cup {None}, NEW v
  PROVE  Heard(mail, v) \subseteq (Mails \cup {None}) \X Nat
  BY DEF TypeOK, Heard

LEMMA TypeRequest ==
  ASSUME TypeOK, NEW s \in Sessions,
         \/ \E m \in Members, amount \in Amounts : RequestStart(s, m, amount)
         \/ RequestVerify(s) \/ RequestSnapshot(s) \/ RequestFail(s)
         \/ \E w \in Rows : RequestCommit(s, w)
  PROVE  TypeOK'
<1> USE DEF rowVars, opsVars, bmpVars
<1>0. req[s] \in ReqRec /\ clock \in Nat
  BY DEF TypeOK
<1>1. ASSUME NEW m \in Members, NEW amount \in Amounts, RequestStart(s, m, amount)
      PROVE  TypeOK'
  <2>1. \A mail \in Mails \cup {None} : NewRequest(m, amount, mail) \in ReqRec
    BY DEF TypeOK, NewRequest, IdleReq, ReqRec, ReqPc, Answers
  <2> QED
    BY <1>1, <2>1, MailTypes DEF RequestStart, TypeOK
<1>2. CASE RequestVerify(s)
  <2>1. PICK v \in Answers :
          /\ req' = [req EXCEPT ![s] = [@ EXCEPT !.pc = "begin", !.verdict = v, !.at = clock]]
          /\ said' = Heard(req[s].mail, v)
    BY <1>2, VerifyUserType DEF RequestVerify
  <2>2. [req[s] EXCEPT !.pc = "begin", !.verdict = v, !.at = clock] \in ReqRec
    BY <1>0 DEF ReqRec, ReqPc
  <2>3. req[s].mail \in Mails \cup {None}
    BY DEF TypeOK, ReqRec
  <2> QED
    BY <1>2, <2>1, <2>2, <2>3, HeardType DEF RequestVerify, TypeOK
<1>3. CASE RequestSnapshot(s)
  <2>1. [req[s] EXCEPT !.pc = "insert", !.seen = RowsOf(req[s].member)] \in ReqRec
    BY <1>0 DEF ReqRec, ReqPc, RowsOf
  <2> QED
    BY <1>3, <2>1, IdleTypes DEF RequestSnapshot, TypeOK
<1>4. CASE RequestFail(s)
  BY <1>4, IdleTypes DEF RequestFail, TypeOK
<1>5. ASSUME NEW w \in Rows, RequestCommit(s, w)
      PROVE  TypeOK'
  <2>1. req[s] \in ReqRec
    BY DEF TypeOK
  <2>2. [member |-> req[s].member, amount |-> req[s].amount] \in RowRec
    BY <2>1 DEF ReqRec, RowRec
  <2>3. [verdict |-> req[s].verdict, at |-> req[s].at,
         mail |-> IF req[s].verdict = "unavailable" THEN None ELSE req[s].mail] \in EvRec
    BY <2>1 DEF ReqRec, EvRec
  <2> QED
    BY <1>5, <2>2, <2>3, IdleTypes DEF RequestCommit, TypeOK, Status, Open
<1> QED
  BY <1>1, <1>2, <1>3, <1>4, <1>5

LEMMA TypeLink ==
  ASSUME TypeOK,
         \/ \E s \in Sessions, m \in Members, mail \in Mails : LinkStart(s, m, mail)
         \/ \E s \in Sessions : LinkInsert(s)
         \/ \E a \in Admins, l \in Links, to \in {"approved", "rejected"} : LinkReview(a, l, to)
  PROVE  TypeOK'
<1> USE DEF rowVars, opsVars, bmpVars
<1>1. ASSUME NEW s \in Sessions, NEW m \in Members, NEW mail \in Mails, LinkStart(s, m, mail)
      PROVE  TypeOK'
  <2>1. [IdleReq EXCEPT !.pc = "link", !.member = m, !.mail = mail] \in ReqRec
    BY DEF IdleReq, ReqRec, ReqPc, Answers
  <2>2. \A v : Heard(mail, v) \subseteq (Mails \cup {None}) \X Nat
    BY HeardType
  <2>3. PICK v \in VerifyUser :
          /\ req' = [req EXCEPT ![s] = [IdleReq EXCEPT !.pc = "link", !.member = m, !.mail = mail]]
          /\ said' = Heard(mail, v)
    BY <1>1 DEF LinkStart
  <2>4. req' \in [Sessions -> ReqRec]
    BY <2>1, <2>3 DEF TypeOK
  <2>5. said' \subseteq (Mails \cup {None}) \X Nat
    BY <2>2, <2>3
  <2> QED
    BY <1>1, <2>4, <2>5 DEF LinkStart, TypeOK
<1>2. ASSUME NEW s \in Sessions, LinkInsert(s)
      PROVE  TypeOK'
  <2>1. [status |-> "pending_admin", member |-> req[s].member, mail |-> req[s].mail] \in LinkRec
    BY DEF TypeOK, ReqRec, LinkRec
  <2> QED
    BY <1>2, <2>1, IdleTypes DEF LinkInsert, TypeOK
<1>3. ASSUME NEW a \in Admins, NEW l \in Links, NEW to \in {"approved", "rejected"},
             LinkReview(a, l, to)
      PROVE  TypeOK'
  <2>1. [link EXCEPT ![l].status = to] \in [Links -> LinkRec]
    BY DEF TypeOK, LinkRec
  <2> QED
    BY <1>3, <2>1 DEF LinkReview, TypeOK
<1> QED
  BY <1>1, <1>2, <1>3

LEMMA TypeAdmin ==
  ASSUME TypeOK, AdminsAtWork, RowsOwned, NEW a \in Admins,
         \/ \E w \in Rows, to \in Targets : AdminStart(a, w, to)
         \/ AdminStep(a) \/ AdminFail(a)
  PROVE  TypeOK'
<1> USE DEF rowVars, opsVars, bmpVars
<1>0. adm[a] \in AdmRec /\ adm \in [Admins -> AdmRec]
  BY DEF TypeOK
<1>1. ASSUME NEW w \in Rows, NEW to \in Targets, AdminStart(a, w, to)
      PROVE  TypeOK'
  <2>1. EmailByWithdrawalID(w) \in Mails \cup {None}
    BY <1>1, MailTypes DEF AdminStart, RowsOwned
  <2>2. NewAction(w, to) \in AdmRec
    BY <2>1 DEF NewAction, IdleAdm, AdmRec, AdmPc, Answers
  <2> QED
    BY <1>1, <2>2 DEF AdminStart, TypeOK
<1>2. CASE AdminVerify(a)
  <2>1. PICK v \in Answers :
          /\ adm' = [adm EXCEPT ![a] = [@ EXCEPT !.pc = IF v = "unavailable" THEN "set" ELSE "refresh",
                                                  !.verdict = v, !.at = clock]]
          /\ said' = Heard(adm[a].mail, v)
    BY <1>2, VerifyUserType DEF AdminVerify
  <2>2. [adm[a] EXCEPT !.pc = IF v = "unavailable" THEN "set" ELSE "refresh",
                       !.verdict = v, !.at = clock] \in AdmRec
    BY <1>0 DEF TypeOK, AdmRec, AdmPc
  <2>3. adm[a].mail \in Mails \cup {None}
    BY <1>0 DEF AdmRec
  <2> QED
    BY <1>2, <2>1, <2>2, <2>3, HeardType DEF AdminVerify, TypeOK
<1>3. CASE AdminRefresh(a)
  <2>0. adm[a].row \in Rows
    BY <1>3 DEF AdminRefresh, AdminsAtWork
  <2>1. [ev[adm[a].row] EXCEPT !.verdict = adm[a].verdict, !.at = adm[a].at] \in EvRec
    <3>1. ev[adm[a].row] \in EvRec
      BY <2>0 DEF TypeOK
    <3>2. adm[a].verdict \in Answers /\ adm[a].at \in Nat
      BY <1>0 DEF AdmRec
    <3> QED
      BY <3>1, <3>2 DEF EvRec
  <2>2. adm' \in [Admins -> AdmRec]
    BY <1>0, <1>3, AdmMoves DEF AdminRefresh, AdmPc
  <2> QED
    BY <1>3, <2>0, <2>1, <2>2 DEF AdminRefresh, TypeOK
<1>4. CASE AdminCheckSuspension(a)
  <2>1. adm' \in [Admins -> AdmRec]
    BY <1>0, <1>4, AdmMoves DEF AdminCheckSuspension, AdmPc
  <2> QED
    BY <1>4, <2>1 DEF AdminCheckSuspension, TypeOK
<1>5. CASE AdminAssertBMP(a)
  <2>1. adm' \in [Admins -> AdmRec]
    BY <1>0, <1>5, AdmMoves DEF AdminAssertBMP, AdmPc
  <2> QED
    BY <1>5, <2>1 DEF AdminAssertBMP, TypeOK
<1>6. CASE AdminUpdate(a)
  <2>1. adm' \in [Admins -> AdmRec]
    BY <1>0, <1>6, AdmMoves DEF AdminUpdate, AdmPc
  <2> QED
    BY <1>6, <2>1 DEF AdminUpdate, TypeOK
<1>7. CASE PayReadAvailable(a)
  <2>1. adm' \in [Admins -> AdmRec]
    BY <1>0, <1>7, AdmMoves DEF PayReadAvailable, AdmPc
  <2> QED
    BY <1>7, <2>1 DEF PayReadAvailable, TypeOK
<1>8. CASE PayReadPending(a)
  <2>1. adm' \in [Admins -> AdmRec]
    BY <1>0, <1>8, AdmMoves DEF PayReadPending, AdmPc
  <2> QED
    BY <1>8, <2>1 DEF PayReadPending, Release, TypeOK
<1>9. CASE AdminCommit(a)
  <2>1. adm[a].to \in Status
    BY <1>0 DEF AdmRec, Targets, Status, Open, Final
  <2>2. ApproverAfter(a) \in Registered \cup {None} /\ DebitsAfter(a) \in {0, 1}
    BY <1>9 DEF AdminCommit, AdminsAtWork, ApproverAfter, DebitsAfter, TypeOK
  <2> QED
    BY <1>9, <2>1, <2>2, IdleTypes DEF AdminCommit, Release, TypeOK
<1>10. CASE AdminFail(a)
  BY <1>10, IdleTypes DEF AdminFail, TypeOK
<1> QED
  BY <1>1, <1>2, <1>3, <1>4, <1>5, <1>6, <1>7, <1>8, <1>9, <1>10 DEF AdminStep

LEMMA TypeWorld ==
  ASSUME TypeOK,
         \/ \E c \in Credits : Mature(c) \/ Freeze(c) \/ Unfreeze(c)
         \/ \E m \in Members : Ban(m) \/ Unban(m)
         \/ Tick \/ UNCHANGED vars
  PROVE  TypeOK'
  BY DEF TypeOK, rowVars, opsVars, bmpVars, vars, Mature, Freeze, Unfreeze, Ban, Unban, Tick

LEMMA TypeStep == TypeOK /\ AdminsAtWork /\ RowsOwned /\ [Next]_vars => TypeOK'
  BY TypeRequest, TypeLink, TypeAdmin, TypeWorld DEF Next

-----------------------------------------------------------------------------
(* What no step undoes: a row stays, its owner stays, an approved link and *)
(* a positive answer stay.                                                 *)

Stays ==
  /\ \A w \in Rows : status[w] # "none" => status'[w] # "none" /\ row'[w] = row[w]
  /\ \A l \in Links : link[l].status = "approved" => link'[l] = link[l]
  /\ said \subseteq said'

LEMMA StaysStep == TypeOK /\ AdminsAtWork /\ [Next]_vars => Stays
<1> SUFFICES ASSUME TypeOK, AdminsAtWork, [Next]_vars PROVE Stays
  OBVIOUS
<1> USE DEF rowVars, opsVars, bmpVars
<1>1. ASSUME NEW s \in Sessions, NEW w \in Rows, RequestCommit(s, w) PROVE Stays
  BY <1>1 DEF RequestCommit, Stays, TypeOK
<1>2. ASSUME NEW s \in Sessions,
             \/ \E m \in Members, amount \in Amounts : RequestStart(s, m, amount)
             \/ RequestVerify(s) \/ RequestSnapshot(s) \/ RequestFail(s)
             \/ \E m \in Members, mail \in Mails : LinkStart(s, m, mail)
      PROVE  Stays
  BY <1>2 DEF RequestStart, RequestVerify, RequestSnapshot, RequestFail, LinkStart, Heard, Stays
<1>3. ASSUME NEW s \in Sessions, LinkInsert(s) PROVE Stays
  BY <1>3 DEF LinkInsert, Stays, TypeOK
<1>4. ASSUME NEW a \in Admins, NEW l \in Links, NEW to \in {"approved", "rejected"},
             LinkReview(a, l, to)
      PROVE  Stays
  BY <1>4 DEF LinkReview, Stays, TypeOK
<1>5. ASSUME NEW a \in Admins, AdminCommit(a) PROVE Stays
  <2>1. adm[a].to \in Targets /\ adm[a].row \in Rows
    BY <1>5 DEF AdminCommit, AdminsAtWork
  <2> QED
    BY <1>5, <2>1 DEF AdminCommit, Stays, TypeOK, Targets
<1>6. ASSUME NEW a \in Admins,
             \/ \E w \in Rows, to \in Targets : AdminStart(a, w, to)
             \/ AdminVerify(a) \/ AdminRefresh(a) \/ AdminCheckSuspension(a)
             \/ AdminAssertBMP(a) \/ AdminUpdate(a) \/ PayReadAvailable(a)
             \/ PayReadPending(a) \/ AdminFail(a)
      PROVE  Stays
  BY <1>6 DEF AdminStart, AdminVerify, AdminRefresh, AdminCheckSuspension, AdminAssertBMP,
     AdminUpdate, PayReadAvailable, PayReadPending, AdminFail, Heard, Stays
<1>7. ASSUME \/ \E c \in Credits : Mature(c) \/ Freeze(c) \/ Unfreeze(c)
             \/ \E m \in Members : Ban(m) \/ Unban(m)
             \/ Tick \/ UNCHANGED vars
      PROVE  Stays
  BY <1>7 DEF Mature, Freeze, Unfreeze, Ban, Unban, Tick, vars, Stays
<1> QED
  BY <1>1, <1>2, <1>3, <1>4, <1>5, <1>6, <1>7 DEF Next, AdminStep

\* The mails of a member stay the member's, and so do the answers about them.
LEMMA HeededStays ==
  Stays => \A m, mail, v, t :
             /\ mail \in OwnedIn(m, link) => mail \in OwnedIn(m, link')
             /\ HeededIn(m, mail, v, t, link, said) => HeededIn(m, mail, v, t, link', said')
<1> SUFFICES ASSUME Stays, NEW m, NEW mail
             PROVE  mail \in OwnedIn(m, link) => mail \in OwnedIn(m, link')
  BY DEF Stays, HeededIn
<1> QED
  BY DEF Stays, OwnedIn

-----------------------------------------------------------------------------
(* Row locks and the lifecycle.                                            *)

\* Only the admin handlers move an admin handler.
LEMMA ActionChanges ==
  ASSUME [Next]_vars
  PROVE  adm' = adm \/ \E a \in Admins : \/ \E w \in Rows, to \in Targets : AdminStart(a, w, to)
                                         \/ AdminStep(a) \/ AdminFail(a)
  BY DEF Next, RequestStart, RequestVerify, RequestSnapshot, RequestFail, RequestCommit,
     LinkStart, LinkInsert, LinkReview, Mature, Freeze, Unfreeze, Ban, Unban, Tick, vars

LEMMA AtWorkStep == TypeOK /\ AdminsAtWork /\ [Next]_vars => AdminsAtWork'
<1> SUFFICES ASSUME TypeOK, AdminsAtWork, [Next]_vars PROVE AdminsAtWork'
  OBVIOUS
<1>1. Stays
  BY StaysStep
<1>3. CASE adm' = adm
  BY <1>1, <1>3 DEF AdminsAtWork, Stays
<1>4. ASSUME NEW a \in Admins, NEW w \in Rows, NEW to \in Targets, AdminStart(a, w, to)
      PROVE  AdminsAtWork'
  <2>1. /\ adm' = [adm EXCEPT ![a] = NewAction(w, to)]
        /\ status' = status /\ status[w] # "none"
    BY <1>4 DEF AdminStart, rowVars
  <2>2. NewAction(w, to).row = w /\ NewAction(w, to).to = to
    BY DEF NewAction, IdleAdm
  <2> QED
    BY <2>1, <2>2 DEF AdminsAtWork, TypeOK
<1>5. ASSUME NEW a \in Admins, AdminStep(a) \/ AdminFail(a)
      PROVE  AdminsAtWork'
  <2>1. /\ \A b \in Admins \ {a} : adm'[b] = adm[b]
        /\ \/ adm'[a].pc = "idle"
           \/ /\ adm[a].pc # "idle"
              /\ adm'[a].row = adm[a].row /\ adm'[a].to = adm[a].to
    <3>1. adm[a] \in AdmRec
      BY DEF TypeOK
    <3>2. CASE AdminVerify(a)
      BY <3>1, <3>2 DEF AdminVerify, AdmRec, TypeOK
    <3>3. CASE adm[a].pc # "idle" /\ \E pc : GoTo(a, pc)
      BY <3>1, <3>3 DEF GoTo, AdmRec, TypeOK
    <3>4. CASE adm' = [adm EXCEPT ![a] = IdleAdm]
      BY <3>4 DEF IdleAdm, TypeOK
    <3> QED
      BY <1>5, <3>2, <3>3, <3>4 DEF AdminStep, AdminFail, AdminRefresh, AdminCheckSuspension,
         AdminAssertBMP, AdminUpdate, PayReadAvailable, PayReadPending, AdminCommit
  <2> QED
    BY <1>1, <2>1 DEF AdminsAtWork, Stays, TypeOK
<1> QED
  BY <1>3, <1>4, <1>5, ActionChanges

\* What a step does to the columns of withdrawal_request: an INSERT, a COMMIT, a
\* refresh of the evidence, or nothing.
LEMMA RowChanges ==
  ASSUME [Next]_vars
  PROVE  \/ \E s \in Sessions, w \in Rows : RequestCommit(s, w)
         \/ \E a \in Admins : AdminCommit(a)
         \/ \E a \in Admins : AdminRefresh(a)
         \/ UNCHANGED rowVars
  BY DEF Next, AdminStep, RequestStart, RequestVerify, RequestSnapshot, RequestFail, LinkStart,
     LinkInsert, LinkReview, AdminStart, AdminVerify, AdminCheckSuspension, AdminAssertBMP,
     AdminUpdate, PayReadAvailable, PayReadPending, AdminFail, Mature, Freeze, Unfreeze, Ban,
     Unban, Tick, vars

LEMMA RowsStep == IInv /\ [Next]_vars => RowsOwned' /\ RowsFresh' /\ DebitIffPaid'
<1> SUFFICES ASSUME IInv, [Next]_vars PROVE RowsOwned' /\ RowsFresh' /\ DebitIffPaid'
  OBVIOUS
<1> USE DEF RowsOwned, RowsFresh, DebitIffPaid
<1>0. TypeOK /\ RowsOwned /\ RowsFresh /\ DebitIffPaid
  BY DEF IInv
<1>1. ASSUME NEW s \in Sessions, NEW w \in Rows, RequestCommit(s, w)
      PROVE  RowsOwned' /\ RowsFresh' /\ DebitIffPaid'
  <2>1. req[s].member \in Members
    BY <1>1 DEF RequestCommit, IInv, RequestsOwned
  <2>2. /\ status' = [status EXCEPT ![w] = "requested"] /\ status[w] = "none"
        /\ approver' = approver /\ debits' = debits
        /\ \A x \in Rows \ {w} : row'[x] = row[x] /\ ev'[x] = ev[x]
        /\ row'[w].member = req[s].member
    BY <1>0, <1>1 DEF RequestCommit, TypeOK
  <2> QED
    BY <1>0, <2>1, <2>2 DEF TypeOK
<1>2. ASSUME NEW a \in Admins, AdminCommit(a)
      PROVE  RowsOwned' /\ RowsFresh' /\ DebitIffPaid'
  <2>1. /\ adm[a].row \in Rows /\ adm[a].to \in Targets /\ status[adm[a].row] # "none"
        /\ status[adm[a].row] \in withdrawalTransitions[adm[a].to]
    BY <1>2 DEF AdminCommit, IInv, AdminsAtWork, HolderMayCommit
  <2>2. status[adm[a].row] # "paid"
    BY <2>1 DEF withdrawalTransitions, Targets
  <2> QED
    BY <1>0, <1>2, <2>1, <2>2
       DEF AdminCommit, ApproverAfter, DebitsAfter, TypeOK, Targets
<1>3. ASSUME NEW a \in Admins, AdminRefresh(a)
      PROVE  RowsOwned' /\ RowsFresh' /\ DebitIffPaid'
  <2>1. adm[a].row \in Rows /\ status[adm[a].row] # "none"
    BY <1>3 DEF AdminRefresh, IInv, AdminsAtWork
  <2>2. \A x \in Rows : status[x] = "none" => ev'[x] = ev[x]
    BY <1>0, <1>3, <2>1 DEF AdminRefresh, TypeOK
  <2> QED
    BY <1>0, <1>3, <2>2 DEF AdminRefresh
<1>4. CASE UNCHANGED rowVars
  BY <1>0, <1>4 DEF rowVars
<1> QED
  BY <1>1, <1>2, <1>3, <1>4, RowChanges

\* The row lock excludes: while a handler is past its guarded UPDATE, no other
\* one changes the row.
LEMMA HolderStep == IInv /\ [Next]_vars => HolderMayCommit'
<1> SUFFICES ASSUME IInv, [Next]_vars, NEW b \in Admins,
                    adm'[b].pc \in {"avail", "pending", "commit"}
             PROVE  /\ lock'[adm'[b].row] = b
                    /\ status'[adm'[b].row] \in withdrawalTransitions[adm'[b].to]
  BY DEF HolderMayCommit
<1>0. TypeOK /\ AdminsAtWork /\ HolderMayCommit
  BY DEF IInv
<1>1. CASE UNCHANGED <<status, lock, adm>>
  BY <1>0, <1>1 DEF HolderMayCommit
<1>2. ASSUME NEW s \in Sessions, NEW w \in Rows, RequestCommit(s, w)
      PROVE  /\ lock'[adm'[b].row] = b
             /\ status'[adm'[b].row] \in withdrawalTransitions[adm'[b].to]
  <2>1. adm[b].row # w
    BY <1>0, <1>2 DEF RequestCommit, AdminsAtWork
  <2> QED
    BY <1>0, <1>2, <2>1 DEF RequestCommit, HolderMayCommit, TypeOK
<1>3. ASSUME NEW a \in Admins, NEW w \in Rows, NEW to \in Targets, AdminStart(a, w, to)
      PROVE  /\ lock'[adm'[b].row] = b
             /\ status'[adm'[b].row] \in withdrawalTransitions[adm'[b].to]
  <2>1. adm' = [adm EXCEPT ![a] = NewAction(w, to)] /\ UNCHANGED <<status, lock>>
    BY <1>3 DEF AdminStart, rowVars
  <2>2. NewAction(w, to).pc \in {"verify", "set"}
    BY DEF NewAction, IdleAdm
  <2> QED
    BY <1>0, <2>1, <2>2 DEF HolderMayCommit, TypeOK
<1>4. ASSUME NEW a \in Admins,
             AdminVerify(a) \/ AdminRefresh(a) \/ AdminCheckSuspension(a) \/ AdminAssertBMP(a)
      PROVE  /\ lock'[adm'[b].row] = b
             /\ status'[adm'[b].row] \in withdrawalTransitions[adm'[b].to]
  <2>1. UNCHANGED <<status, lock>>
    BY <1>4 DEF AdminVerify, AdminRefresh, AdminCheckSuspension, AdminAssertBMP, rowVars
  <2>2. adm[a] \in AdmRec
    BY <1>0 DEF TypeOK
  <2>3. adm'[a].pc \notin {"avail", "pending", "commit"} /\ \A c \in Admins \ {a} : adm'[c] = adm[c]
    <3>1. CASE AdminVerify(a)
      BY <1>0, <2>2, <3>1 DEF AdminVerify, TypeOK, AdmRec
    <3>2. CASE \E pc \in {"set", "bmp", "update"} : GoTo(a, pc)
      BY <1>0, <2>2, <3>2 DEF GoTo, TypeOK, AdmRec
    <3>3. CASE adm' = [adm EXCEPT ![a] = IdleAdm]
      BY <1>0, <3>3 DEF IdleAdm, TypeOK
    <3> QED
      BY <1>4, <3>1, <3>2, <3>3 DEF AdminRefresh, AdminCheckSuspension, AdminAssertBMP
  <2> QED
    BY <1>0, <2>1, <2>3 DEF HolderMayCommit
<1>5. ASSUME NEW a \in Admins, AdminUpdate(a)
      PROVE  /\ lock'[adm'[b].row] = b
             /\ status'[adm'[b].row] \in withdrawalTransitions[adm'[b].to]
  <2>1. adm[a] \in AdmRec /\ adm[a].row \in Rows /\ lock[adm[a].row] = None /\ status' = status
    BY <1>0, <1>5 DEF AdminUpdate, AdminsAtWork, Unlocked, TypeOK, rowVars
  <2>2. CASE b = a
    <3>1. /\ status[adm[a].row] \in withdrawalTransitions[adm[a].to]
          /\ lock' = [lock EXCEPT ![adm[a].row] = a]
          /\ adm'[a].row = adm[a].row /\ adm'[a].to = adm[a].to
      BY <1>0, <1>5, <2>1, <2>2 DEF AdminUpdate, GoTo, TypeOK, AdmRec, IdleAdm
    <3> QED
      BY <1>0, <2>1, <2>2, <3>1 DEF TypeOK
  <2>3. CASE b # a
    <3>1. adm'[b] = adm[b]
      BY <1>0, <1>5, <2>3 DEF AdminUpdate, GoTo, TypeOK
    <3>2. lock[adm[b].row] = b /\ status[adm[b].row] \in withdrawalTransitions[adm[b].to]
      BY <1>0, <3>1 DEF HolderMayCommit
    <3>3. adm[b].row # adm[a].row
      BY <2>1, <3>2
    <3>4. adm[b].row \in Rows
      BY <1>0, <3>1 DEF AdminsAtWork
    <3>5. lock'[adm[b].row] = lock[adm[b].row]
      BY <1>0, <1>5, <2>1, <3>3, <3>4 DEF AdminUpdate, TypeOK
    <3> QED
      BY <2>1, <3>1, <3>2, <3>5
  <2> QED
    BY <2>2, <2>3
<1>6. ASSUME NEW a \in Admins, PayReadAvailable(a) \/ PayReadPending(a) \/ AdminCommit(a) \/ AdminFail(a)
      PROVE  /\ lock'[adm'[b].row] = b
             /\ status'[adm'[b].row] \in withdrawalTransitions[adm'[b].to]
  <2>1. adm[a] \in AdmRec
    BY <1>0 DEF TypeOK
  <2>2. CASE b = a
    <3>1. /\ lock[adm[a].row] = a /\ status[adm[a].row] \in withdrawalTransitions[adm[a].to]
          /\ UNCHANGED <<status, lock>>
          /\ adm'[a].row = adm[a].row /\ adm'[a].to = adm[a].to
      BY <1>0, <1>6, <2>1, <2>2
         DEF PayReadAvailable, PayReadPending, AdminCommit, AdminFail, GoTo, IdleAdm, TypeOK,
             AdmRec, HolderMayCommit, rowVars
    <3> QED
      BY <2>2, <3>1
  <2>3. CASE b # a
    <3>1. adm'[b] = adm[b]
      BY <1>0, <1>6, <2>3 DEF PayReadAvailable, PayReadPending, AdminCommit, AdminFail, GoTo, TypeOK
    <3>2. lock[adm[b].row] = b /\ status[adm[b].row] \in withdrawalTransitions[adm[b].to]
      BY <1>0, <3>1 DEF HolderMayCommit
    <3>3. adm[b].row \in Rows
      BY <1>0, <3>1 DEF AdminsAtWork
    <3>4. lock'[adm[b].row] = b /\ status'[adm[b].row] = status[adm[b].row]
      <4>1. CASE PayReadAvailable(a) \/ AdminFail(a)
        BY <1>0, <2>3, <3>2, <3>3, <4>1 DEF PayReadAvailable, AdminFail, TypeOK, rowVars
      <4>2. CASE PayReadPending(a) \/ AdminCommit(a)
        <5>1. lock[adm[a].row] = a
          BY <1>0, <4>2 DEF PayReadPending, AdminCommit, HolderMayCommit
        <5>2. adm[a].row # adm[b].row
          BY <2>3, <3>2, <5>1
        <5> QED
          BY <1>0, <3>2, <3>3, <4>2, <5>2 DEF PayReadPending, AdminCommit, Release, TypeOK, rowVars
      <4> QED
        BY <1>6, <4>1, <4>2
    <3> QED
      BY <3>1, <3>2, <3>4
  <2> QED
    BY <2>2, <2>3
<1> QED
  BY <1>1, <1>2, <1>3, <1>4, <1>5, <1>6 DEF Next, AdminStep, RequestStart, RequestVerify,
     RequestSnapshot, RequestFail, LinkStart, LinkInsert, LinkReview, Mature, Freeze, Unfreeze,
     Ban, Unban, Tick, vars, rowVars

-----------------------------------------------------------------------------
(* Where BMP's answers come from.                                          *)

\* The mails the code looks up are the member's.
LEMMA LookedUpMails ==
  ASSUME TypeOK, RowsOwned, RowsOwnMail
  PROVE  /\ \A m \in Members : \A mail \in bmpEmailFor(m) : mail \in OwnedIn(m, link)
         /\ \A w \in Rows : status[w] # "none" =>
              EmailByWithdrawalID(w) \in OwnedIn(row[w].member, link)
<1>1. \A m \in Members : ApprovedMail(m) \in OwnedIn(m, link) \cup {None}
  BY DEF ApprovedMail, OwnedIn
<1>2. \A m \in Members : SessionMail[m] \in OwnedIn(m, link)
  BY DEF OwnedIn
<1>3. \A m \in Members : \A mail \in bmpEmailFor(m) : mail \in OwnedIn(m, link)
  BY <1>1, <1>2 DEF bmpEmailFor, Coalesce
<1>4. ASSUME NEW w \in Rows, status[w] # "none"
      PROVE  EmailByWithdrawalID(w) \in OwnedIn(row[w].member, link)
  <2>1. row[w].member \in Members
    BY <1>4 DEF RowsOwned
  <2>2. Coalesce(ApprovedMail(row[w].member), SessionMail[row[w].member], None)
          \in OwnedIn(row[w].member, link)
    BY <1>1, <1>2, <2>1 DEF Coalesce
  <2>3. ev[w].mail \in OwnedIn(row[w].member, link) \cup {None}
    BY <1>4 DEF RowsOwnMail
  <2> QED
    BY <2>2, <2>3 DEF EmailByWithdrawalID, Coalesce
<1> QED
  BY <1>3, <1>4

LEMMA RequestsStep == IInv /\ [Next]_vars => RequestsOwned'
<1> SUFFICES ASSUME IInv, [Next]_vars, NEW s \in Sessions,
                    req'[s].pc \in {"verify", "begin", "insert"}
             PROVE  /\ req'[s].member \in Members
                    /\ HeededIn(req'[s].member, req'[s].mail, req'[s].verdict, req'[s].at,
                                link', said')
  BY DEF RequestsOwned
<1>0. TypeOK /\ RequestsOwned /\ Stays /\ req[s] \in ReqRec /\ RowsOwned /\ RowsOwnMail
  BY StaysStep DEF IInv, TypeOK
<1>1. CASE req'[s] = req[s]
  BY <1>0, <1>1, HeededStays DEF RequestsOwned
<1>2. ASSUME NEW m \in Members, NEW amount \in Amounts, RequestStart(s, m, amount)
      PROVE  /\ req'[s].member \in Members
             /\ HeededIn(req'[s].member, req'[s].mail, req'[s].verdict, req'[s].at, link', said')
  <2>1. PICK mail \in bmpEmailFor(m) : req'[s] = NewRequest(m, amount, mail)
    BY <1>0, <1>2 DEF RequestStart, TypeOK
  <2>2. req'[s].member = m /\ req'[s].mail = mail /\ req'[s].verdict = "unavailable"
    BY <2>1 DEF NewRequest, IdleReq
  <2>3. mail \in OwnedIn(m, link')
    BY <1>0, HeededStays, LookedUpMails
  <2> QED
    BY <2>2, <2>3 DEF HeededIn
<1>3. CASE RequestVerify(s)
  <2>1. PICK v \in Answers :
          /\ req'[s] = [req[s] EXCEPT !.pc = "begin", !.verdict = v, !.at = clock]
          /\ said' = Heard(req[s].mail, v)
    BY <1>0, <1>3, VerifyUserType DEF RequestVerify, TypeOK
  <2>2. /\ req'[s].member = req[s].member /\ req'[s].mail = req[s].mail
        /\ req'[s].verdict = v /\ req'[s].at = clock
    BY <1>0, <2>1 DEF ReqRec
  <2>3. req[s].member \in Members /\ req[s].mail \in OwnedIn(req[s].member, link)
    BY <1>0, <1>3 DEF RequestVerify, RequestsOwned, HeededIn
  <2>4. req[s].mail \in OwnedIn(req[s].member, link')
    BY <1>0, <2>3, HeededStays
  <2> QED
    BY <2>1, <2>2, <2>3, <2>4 DEF HeededIn, Heard
<1>4. CASE RequestSnapshot(s)
  <2>1. /\ req'[s].member = req[s].member /\ req'[s].mail = req[s].mail
        /\ req'[s].verdict = req[s].verdict /\ req'[s].at = req[s].at
    <3>1. req'[s] = IdleReq \/ req'[s] = [req[s] EXCEPT !.pc = "insert", !.seen = RowsOf(req[s].member)]
      BY <1>0, <1>4 DEF RequestSnapshot, TypeOK
    <3>2. IdleReq.pc = "idle"
      BY DEF IdleReq
    <3> QED
      BY <1>0, <3>1, <3>2 DEF ReqRec
  <2>2. req[s].member \in Members
        /\ HeededIn(req[s].member, req[s].mail, req[s].verdict, req[s].at, link, said)
    BY <1>0, <1>4 DEF RequestSnapshot, RequestsOwned
  <2> QED
    BY <1>0, <2>1, <2>2, HeededStays
<1>5. \/ req'[s] = req[s] \/ RequestVerify(s) \/ RequestSnapshot(s)
      \/ \E m \in Members, amount \in Amounts : RequestStart(s, m, amount)
  <2>1. ASSUME NEW x \in Sessions,
               \/ \E m \in Members, amount \in Amounts : RequestStart(x, m, amount)
               \/ RequestVerify(x) \/ RequestSnapshot(x)
        PROVE  x = s \/ req'[s] = req[s]
    BY <1>0, <2>1 DEF RequestStart, RequestVerify, RequestSnapshot, TypeOK
  <2>2. ASSUME NEW x \in Sessions, RequestFail(x) \/ LinkInsert(x) \/ \E w \in Rows : RequestCommit(x, w)
        PROVE  req'[s] = req[s]
    BY <1>0, <2>2 DEF RequestFail, LinkInsert, RequestCommit, TypeOK, IdleReq
  <2>3. ASSUME NEW x \in Sessions, NEW m \in Members, NEW mail \in Mails, LinkStart(x, m, mail)
        PROVE  req'[s] = req[s]
    <3>1. [IdleReq EXCEPT !.pc = "link", !.member = m, !.mail = mail].pc = "link"
      BY DEF IdleReq
    <3> QED
      BY <1>0, <2>3, <3>1 DEF LinkStart, TypeOK
  <2>4. ASSUME \/ \E a \in Admins, l \in Links, to \in {"approved", "rejected"} : LinkReview(a, l, to)
               \/ \E a \in Admins, w \in Rows, to \in Targets : AdminStart(a, w, to)
               \/ \E a \in Admins : AdminStep(a) \/ AdminFail(a)
               \/ \E c \in Credits : Mature(c) \/ Freeze(c) \/ Unfreeze(c)
               \/ \E m \in Members : Ban(m) \/ Unban(m)
               \/ Tick \/ UNCHANGED vars
        PROVE  req' = req
    BY <2>4 DEF LinkReview, AdminStart, AdminStep, AdminVerify, AdminRefresh,
       AdminCheckSuspension, AdminAssertBMP, AdminUpdate, PayReadAvailable, PayReadPending,
       AdminCommit, AdminFail, Mature, Freeze, Unfreeze, Ban, Unban, Tick, vars
  <2> QED
    BY <2>1, <2>2, <2>3, <2>4 DEF Next
<1> QED
  BY <1>1, <1>2, <1>3, <1>4, <1>5

LEMMA ActionsStep == IInv /\ [Next]_vars => ActionsOwned'
<1> SUFFICES ASSUME IInv, [Next]_vars, NEW b \in Admins, adm'[b].pc \in {"verify", "refresh"}
             PROVE  HeededIn(row'[adm'[b].row].member, adm'[b].mail, adm'[b].verdict,
                             adm'[b].at, link', said')
  BY DEF ActionsOwned
<1>0. /\ TypeOK /\ ActionsOwned /\ Stays /\ AdminsAtWork /\ RowsOwned /\ RowsOwnMail
      /\ adm[b] \in AdmRec
  BY StaysStep DEF IInv, TypeOK
<1>1. CASE adm'[b] = adm[b]
  <2>1. adm[b].row \in Rows /\ row'[adm[b].row] = row[adm[b].row]
    BY <1>0, <1>1 DEF AdminsAtWork, Stays
  <2> QED
    BY <1>0, <1>1, <2>1, HeededStays DEF ActionsOwned
<1>2. ASSUME NEW w \in Rows, NEW to \in Targets, AdminStart(b, w, to)
      PROVE  HeededIn(row'[adm'[b].row].member, adm'[b].mail, adm'[b].verdict, adm'[b].at, link', said')
  <2>1. adm'[b] = NewAction(w, to) /\ status[w] # "none" /\ row' = row /\ link' = link
    BY <1>0, <1>2 DEF AdminStart, TypeOK, rowVars
  <2>2. adm'[b].row = w /\ adm'[b].verdict = "unavailable"
    BY <2>1 DEF NewAction, IdleAdm
  <2>3. adm'[b].mail = EmailByWithdrawalID(w)
    BY <2>1 DEF NewAction, IdleAdm
  <2> QED
    BY <1>0, <2>1, <2>2, <2>3, LookedUpMails DEF HeededIn
<1>3. CASE AdminVerify(b)
  <2>1. PICK v \in Answers :
          /\ adm'[b] = [adm[b] EXCEPT !.pc = IF v = "unavailable" THEN "set" ELSE "refresh",
                                      !.verdict = v, !.at = clock]
          /\ said' = Heard(adm[b].mail, v) /\ row' = row /\ link' = link
    BY <1>0, <1>3, VerifyUserType DEF AdminVerify, TypeOK, rowVars
  <2>2. /\ adm'[b].row = adm[b].row /\ adm'[b].mail = adm[b].mail
        /\ adm'[b].verdict = v /\ adm'[b].at = clock
    BY <1>0, <2>1 DEF AdmRec
  <2>3. adm[b].mail \in OwnedIn(row[adm[b].row].member, link)
    BY <1>0, <1>3 DEF AdminVerify, ActionsOwned, HeededIn
  <2> QED
    BY <2>1, <2>2, <2>3 DEF HeededIn, Heard
<1>4. ASSUME NEW a \in Admins,
             \/ AdminRefresh(a) \/ AdminCheckSuspension(a)
             \/ AdminAssertBMP(a) \/ AdminUpdate(a) \/ PayReadAvailable(a) \/ PayReadPending(a)
             \/ AdminCommit(a) \/ AdminFail(a)
      PROVE  adm'[b] = adm[b]
  <2>1. a # b
    <3>1. CASE \E pc \in AdmPc \ {"verify", "refresh"} : GoTo(a, pc)
      BY <1>0, <3>1 DEF GoTo, TypeOK, AdmRec
    <3>2. CASE adm' = [adm EXCEPT ![a] = IdleAdm]
      BY <1>0, <3>2 DEF IdleAdm, TypeOK
    <3> QED
      BY <1>4, <3>1, <3>2 DEF AdminRefresh, AdminCheckSuspension, AdminAssertBMP, AdminUpdate,
         PayReadAvailable, PayReadPending, AdminCommit, AdminFail, AdmPc
  <2> QED
    BY <1>0, <1>4, <2>1 DEF AdminRefresh, AdminCheckSuspension, AdminAssertBMP, AdminUpdate,
       PayReadAvailable, PayReadPending, AdminCommit, AdminFail, GoTo, TypeOK
<1>5. ASSUME NEW a \in Admins, AdminVerify(a) \/ \E w \in Rows, to \in Targets : AdminStart(a, w, to)
      PROVE  a = b \/ adm'[b] = adm[b]
  BY <1>0, <1>5 DEF AdminVerify, AdminStart, TypeOK
<1> QED
  BY <1>1, <1>2, <1>3, <1>4, <1>5, ActionChanges DEF AdminStep

\* Evidence reaches a row only from a handler whose answer is about the member.
LEMMA EvidenceStep == IInv /\ [Next]_vars => RowsOwnMail' /\ EvidenceOwned'
<1> SUFFICES ASSUME IInv, [Next]_vars, NEW x \in Rows
             PROVE  /\ status'[x] # "none" => ev'[x].mail \in OwnedIn(row'[x].member, link') \cup {None}
                    /\ ev'[x].verdict = "allowed" =>
                         \E mail \in OwnedIn(row'[x].member, link') : <<mail, ev'[x].at>> \in said'
  BY DEF RowsOwnMail, EvidenceOwned
<1> DEFINE Good == /\ status'[x] # "none" => ev'[x].mail \in OwnedIn(row'[x].member, link') \cup {None}
                   /\ ev'[x].verdict = "allowed" =>
                        \E mail \in OwnedIn(row'[x].member, link') : <<mail, ev'[x].at>> \in said'
<1>0. /\ TypeOK /\ RowsFresh /\ RowsOwnMail /\ EvidenceOwned /\ RequestsOwned /\ ActionsOwned
      /\ AdminsAtWork /\ Stays
  BY StaysStep DEF IInv
<1>1. CASE ev'[x] = ev[x] /\ row'[x] = row[x] /\ status[x] # "none"
  <2>1. ev[x].mail \in OwnedIn(row[x].member, link) \cup {None}
    BY <1>0, <1>1 DEF RowsOwnMail
  <2>2. ev[x].mail \in OwnedIn(row[x].member, link') \cup {None}
    BY <1>0, <2>1, HeededStays
  <2>3. ev[x].verdict = "allowed" =>
          \E mail \in OwnedIn(row[x].member, link') : <<mail, ev[x].at>> \in said'
    BY <1>0, HeededStays DEF EvidenceOwned, Stays
  <2> QED
    BY <1>1, <2>2, <2>3
<1>2. CASE ev'[x] = ev[x] /\ status[x] = "none" /\ status'[x] = "none"
  BY <1>0, <1>2 DEF RowsFresh
<1>3. ASSUME NEW s \in Sessions, NEW w \in Rows, RequestCommit(s, w)
      PROVE  Good
  <2>1. CASE x # w
    BY <1>0, <1>1, <1>2, <1>3, <2>1 DEF RequestCommit, TypeOK
  <2>2. CASE x = w
    <3>1. /\ row'[x] = [member |-> req[s].member, amount |-> req[s].amount]
          /\ ev'[x] = [verdict |-> req[s].verdict, at |-> req[s].at,
                       mail |-> IF req[s].verdict = "unavailable" THEN None ELSE req[s].mail]
      BY <1>0, <1>3, <2>2 DEF RequestCommit, TypeOK
    <3>2. HeededIn(req[s].member, req[s].mail, req[s].verdict, req[s].at, link, said)
      BY <1>0, <1>3 DEF RequestCommit, RequestsOwned
    <3>3. HeededIn(req[s].member, req[s].mail, req[s].verdict, req[s].at, link', said')
      BY <1>0, <3>2, HeededStays
    <3> QED
      BY <3>1, <3>3 DEF HeededIn
  <2> QED
    BY <2>1, <2>2
<1>4. ASSUME NEW a \in Admins, AdminRefresh(a)
      PROVE  Good
  <2>1. /\ adm[a].row \in Rows /\ status[adm[a].row] # "none"
        /\ status' = status /\ row' = row
    BY <1>0, <1>4 DEF AdminRefresh, AdminsAtWork
  <2>2. CASE x # adm[a].row \/ ev' = ev
    <3>1. ev'[x] = ev[x]
      BY <1>0, <1>4, <2>1, <2>2 DEF AdminRefresh, TypeOK
    <3> QED
      BY <1>1, <1>2, <2>1, <3>1
  <2>3. CASE x = adm[a].row /\ ev' # ev
    <3>1. ev'[x] = [ev[x] EXCEPT !.verdict = adm[a].verdict, !.at = adm[a].at]
      BY <1>0, <1>4, <2>1, <2>3 DEF AdminRefresh, TypeOK
    <3>2. ev[x] \in EvRec
      BY <1>0 DEF TypeOK
    <3>3. ev'[x].mail = ev[x].mail /\ ev'[x].verdict = adm[a].verdict /\ ev'[x].at = adm[a].at
      BY <3>1, <3>2 DEF EvRec
    <3>4. HeededIn(row[x].member, adm[a].mail, adm[a].verdict, adm[a].at, link, said)
      BY <1>0, <1>4, <2>3 DEF AdminRefresh, ActionsOwned
    <3>5. HeededIn(row[x].member, adm[a].mail, adm[a].verdict, adm[a].at, link', said')
      BY <1>0, <3>4, HeededStays
    <3>6. ev[x].mail \in OwnedIn(row[x].member, link') \cup {None}
      BY <1>0, <2>1, <2>3, HeededStays DEF RowsOwnMail
    <3> QED
      BY <2>1, <3>3, <3>5, <3>6 DEF HeededIn
  <2> QED
    BY <2>2, <2>3
<1>5. ASSUME NEW a \in Admins, AdminCommit(a)
      PROVE  Good
  <2>1. ev' = ev /\ row' = row
    BY <1>5 DEF AdminCommit
  <2>2. status[x] = "none" => status'[x] = "none"
    BY <1>0, <1>5 DEF AdminCommit, AdminsAtWork, TypeOK
  <2> QED
    BY <1>1, <1>2, <2>1, <2>2
<1>6. CASE UNCHANGED rowVars
  BY <1>1, <1>2, <1>6 DEF rowVars
<1> QED
  BY <1>3, <1>4, <1>5, <1>6, RowChanges

-----------------------------------------------------------------------------
(* The inductive invariant and what follows from it.                       *)

LEMMA InitIInv == Init => IInv
<1> SUFFICES ASSUME Init PROVE IInv
  OBVIOUS
<1>1. TypeOK
  BY TypeInit
<1>2. AdminsAtWork /\ HolderMayCommit /\ ActionsOwned
  BY DEF Init, AdminsAtWork, HolderMayCommit, ActionsOwned, IdleAdm
<1>3. RowsOwned /\ RowsFresh /\ DebitIffPaid /\ RowsOwnMail /\ EvidenceOwned
  BY DEF Init, RowsOwned, RowsFresh, DebitIffPaid, RowsOwnMail, EvidenceOwned
<1>4. RequestsOwned
  BY DEF Init, RequestsOwned, IdleReq
<1> QED
  BY <1>1, <1>2, <1>3, <1>4 DEF IInv

LEMMA Inductive == IInv /\ [Next]_vars => IInv'
<1> SUFFICES ASSUME IInv, [Next]_vars PROVE IInv'
  OBVIOUS
<1>1. TypeOK'
  BY TypeStep DEF IInv
<1>2. AdminsAtWork'
  BY AtWorkStep DEF IInv
<1> QED
  BY <1>1, <1>2, RowsStep, HolderStep, RequestsStep, ActionsStep, EvidenceStep DEF IInv

LEMMA Invariant == Spec => []IInv
  BY InitIInv, Inductive, PTL DEF Spec

\* Types: whatever members, admins and operations do, the columns and the
\* handlers' locals hold the values the code declares for them.
THEOREM TypeCorrect == Spec => []TypeOK
<1>1. IInv => TypeOK
  BY DEF IInv
<1> QED
  BY <1>1, Invariant, PTL

\* SetWithdrawalStatus moves status and debit together: in every reachable state
\* a withdrawal has one debit movement if it is paid and none otherwise.
THEOREM PaidMeansDebitedOnce == Spec => []DebitIffPaid
<1>1. IInv => DebitIffPaid
  BY DEF IInv
<1> QED
  BY <1>1, Invariant, PTL

\* The row lock taken by the guarded UPDATE of SetWithdrawalStatus protects the
\* transition until COMMIT: no other handler moves the row in between.
THEOREM LockProtectsTransition == Spec => []HolderMayCommit
<1>1. IInv => HolderMayCommit
  BY DEF IInv
<1> QED
  BY <1>1, Invariant, PTL

\* bmp_status = 'allowed' is never made up: every row marked so carries the date
\* of a positive answer BMP gave for the member's own or admin-approved mail.
THEOREM EvidenceIsNeverInvented == Spec => []EvidenceIsReal
<1>1. IInv => EvidenceIsReal
  BY DEF IInv, EvidenceOwned, EvidenceIsReal, OwnedIn, OwnMails
<1> QED
  BY <1>1, Invariant, PTL

\* Every step of the handlers is a step of the promise, or none: with its locks,
\* retries and failures the service implements WithdrawalPromise.
THEOREM ServiceKeepsPromise == Spec => KeepsPromise
<1>1. Init => Promise!Init
  BY DEF Init, Promise!Init
<1>2. IInv /\ [Next]_vars => [Promise!Next]_Promise!vars
  <2> SUFFICES ASSUME IInv, [Next]_vars
               PROVE  Promise!Next \/ UNCHANGED <<status, approver, debits>>
    BY DEF Promise!vars
  <2>0. TypeOK /\ RowsFresh /\ DebitIffPaid /\ HolderMayCommit /\ AdminsAtWork
    BY DEF IInv
  <2>1. ASSUME NEW s \in Sessions, NEW w \in Rows, RequestCommit(s, w)
        PROVE  Promise!Next
    BY <2>1 DEF RequestCommit, Promise!Next, Promise!Request
  <2>2. ASSUME NEW a \in Admins, AdminCommit(a)
        PROVE  Promise!Next
    <3> DEFINE w == adm[a].row
    <3>1. /\ w \in Rows /\ adm[a].to \in Targets
          /\ status[w] \in withdrawalTransitions[adm[a].to]
          /\ status' = [status EXCEPT ![w] = adm[a].to]
          /\ approver' = [approver EXCEPT ![w] = ApproverAfter(a)]
          /\ debits' = [debits EXCEPT ![w] = DebitsAfter(a)]
      BY <2>0, <2>2 DEF AdminCommit, AdminsAtWork, HolderMayCommit
    <3>2. adm[a].to # "approved" => approver' = approver
      BY <2>0, <3>1 DEF ApproverAfter, TypeOK
    <3>3. adm[a].to # "paid" => debits' = debits
      BY <2>0, <3>1 DEF DebitsAfter, TypeOK
    <3>4. CASE adm[a].to = "approved"
      <4>1. status[w] = "requested" /\ approver[w] = None
        BY <2>0, <3>1, <3>4 DEF withdrawalTransitions, RowsFresh
      <4>2. ApproverAfter(a) = IF a \in Registered THEN a ELSE None
        BY <3>4, <4>1 DEF ApproverAfter
      <4> QED
        BY <3>1, <3>3, <3>4, <4>1, <4>2 DEF Promise!Next, Promise!Approve
    <3>5. CASE adm[a].to \in {"rejected", "cancelled"}
      <4>1. Promise!Refuse(w)
        BY <3>1, <3>2, <3>3, <3>5 DEF withdrawalTransitions, Targets, Promise!Refuse
      <4> QED
        BY <3>1, <4>1 DEF Promise!Next
    <3>6. CASE adm[a].to = "paid"
      <4>1. status[w] = "approved" /\ debits[w] = 0
        BY <2>0, <3>1, <3>6 DEF withdrawalTransitions, Targets, DebitIffPaid
      <4>2. DebitsAfter(a) = 1
        BY <3>6, <4>1 DEF DebitsAfter
      <4>3. Promise!Pay(w)
        BY <3>1, <3>2, <3>6, <4>1, <4>2 DEF Promise!Pay
      <4> QED
        BY <3>1, <4>3 DEF Promise!Next
    <3> QED
      BY <3>1, <3>4, <3>5, <3>6 DEF Targets
  <2>3. ASSUME NEW a \in Admins, AdminRefresh(a)
        PROVE  UNCHANGED <<status, approver, debits>>
    BY <2>3 DEF AdminRefresh
  <2>4. CASE UNCHANGED rowVars
    BY <2>4 DEF rowVars
  <2> QED
    BY <2>1, <2>2, <2>3, <2>4, RowChanges
<1> QED
  BY <1>1, <1>2, Invariant, PTL DEF Spec, KeepsPromise, Promise!Spec

-----------------------------------------------------------------------------
(* The money arithmetic of fee.go.                                         *)

\* QuantizeUSD: the amount that is stored never exceeds the amount that was asked
\* for, so it fits every balance the raw amount fits, and less than a cent is lost.
THEOREM QuantizedFits ==
  ASSUME NEW raw \in Nat, NEW sub \in Nat \ {0}
  PROVE  /\ QuantizeUSD(raw, sub) \in Nat
         /\ QuantizeUSD(raw, sub) * sub <= raw
         /\ raw - QuantizeUSD(raw, sub) * sub < sub
  BY DEF QuantizeUSD

\* CalcFee: for a commission between nothing and everything, fee and net are both
\* amounts of the gross: the rounding of the fee never makes the net negative.
THEOREM FeeWithinGross ==
  ASSUME NEW gross \in Nat, NEW pct \in 0..100
  PROVE  FeeOf(gross, pct) \in 0..gross /\ NetOf(gross, pct) \in 0..gross
<1>1. gross * pct \in Nat /\ gross * pct <= gross * 100
  OBVIOUS
<1>2. ASSUME NEW h \in Nat, h <= gross * 100
      PROVE  RoundCents(h) \in 0..gross
  BY <1>2 DEF RoundCents
<1>3. FeeOf(gross, pct) \in 0..gross
  BY <1>1, <1>2 DEF FeeOf
<1> QED
  BY <1>3 DEF NetOf

-----------------------------------------------------------------------------
(* What a member has left.                                                 *)

\* A request between its snapshot and its COMMIT has not lost a row it has seen.
SeenStays ==
  \A s \in Sessions : req[s].pc = "insert" => req[s].seen \subseteq RowsOf(req[s].member)

\* As long as it has seen them all, what the member earned covers it too.
SnapshotCovers ==
  \A s \in Sessions : LET m == req[s].member IN
    req[s].pc = "insert" /\ RowsOf(m) = req[s].seen =>
      Debited(m) + Pending(m) + req[s].amount <= Credited(m, {"available", "frozen"})

Left(m) == Available(m) - Pending(m)

\* ... and what the member has available, where ops freezes nothing under a request.
SnapshotLeaves ==
  \A s \in Sessions : LET m == req[s].member IN
    req[s].pc = "insert" /\ RowsOf(m) = req[s].seen => req[s].amount <= Left(m)

\* Only a payment re-validates the balance.
OnlyPaymentsRead ==
  \A a \in Admins : adm[a].pc \in {"avail", "pending"} => adm[a].to = "paid"

\* The balance a payment has read is still there, unless the member has enough without it.
BalanceHolds ==
  \A a \in Admins : adm[a].pc = "pending" => LET m == row[adm[a].row].member IN
    /\ balance[a] \in Int
    /\ balance[a] <= Available(m) \/ 0 <= Left(m)

\* A payment about to commit is covered, together with everything that is open.
PaymentCovered ==
  \A a \in Admins : adm[a].pc = "commit" /\ adm[a].to = "paid" => 0 <= Left(row[adm[a].row].member)

\* Every term of a sum, and so every sum, is a natural number.
LEMMA Terms ==
  ASSUME TypeOK
  PROVE  /\ \A w \in Rows : /\ row[w].amount \in Nat /\ Amount[w] = row[w].amount
                            /\ Debit[w] = IF debits[w] = 1 THEN row[w].amount ELSE 0
         /\ \A m : /\ RowsOf(m) \subseteq Rows /\ OpenRows(m) \subseteq RowsOf(m)
                   /\ IsFiniteSet(RowsOf(m)) /\ IsFiniteSet(OpenRows(m))
         /\ \A m, states : IsFiniteSet({c \in Credits : CreditOwner[c] = m /\ credit[c] \in states})
<1>1. ASSUME NEW w \in Rows
      PROVE  /\ row[w].amount \in Nat /\ Amount[w] = row[w].amount
             /\ Debit[w] = IF debits[w] = 1 THEN row[w].amount ELSE 0
  <2>1. row[w] \in RowRec /\ debits[w] \in {0, 1} /\ Debit[w] = debits[w] * row[w].amount
    BY DEF TypeOK, Debit
  <2>2. row[w].amount \in Nat
    BY <2>1 DEF RowRec
  <2>3. Debit[w] = IF debits[w] = 1 THEN row[w].amount ELSE 0
    BY <2>1, <2>2
  <2> QED
    BY <2>2, <2>3 DEF Amount
<1>2. \A m : RowsOf(m) \subseteq Rows /\ OpenRows(m) \subseteq RowsOf(m) /\ OpenRows(m) \subseteq Rows
  BY DEF RowsOf, OpenRows
<1> QED
  BY <1>1, <1>2, FS_Subset

LEMMA MoneyTypes ==
  ASSUME TypeOK, NEW m
  PROVE  /\ Debited(m) \in Nat /\ Pending(m) \in Nat
         /\ \A states : Credited(m, states) \in Nat
         /\ Available(m) \in Int /\ Left(m) \in Int
<1>1. Debited(m) \in Nat
  <2>1. \A w \in RowsOf(m) : Debit[w] \in Nat
    BY Terms DEF RowsOf
  <2> QED
    BY <2>1, Terms, SumNat DEF Debited
<1>2. Pending(m) \in Nat
  <2>1. \A w \in OpenRows(m) : Amount[w] \in Nat
    BY Terms DEF RowsOf, OpenRows
  <2> QED
    BY <2>1, Terms, SumNat DEF Pending
<1>3. ASSUME NEW states PROVE Credited(m, states) \in Nat
  <2> DEFINE In == {c \in Credits : CreditOwner[c] = m /\ credit[c] \in states}
  <2>1. In \subseteq Credits /\ \A c \in In : CreditAmount[c] \in Nat
    OBVIOUS
  <2> HIDE DEF In
  <2>2. SumFunctionOnSet(CreditAmount, In) \in Nat
    BY <2>1, FS_Subset, SumNat
  <2> QED
    BY <2>2 DEF Credited, In
<1> QED
  BY <1>1, <1>2, <1>3 DEF Available, Left


MoneyNat(m) ==
  /\ Debited(m) \in Nat /\ Pending(m) \in Nat
  /\ Credited(m, {"available", "frozen"}) \in Nat /\ Credited(m, {"available"}) \in Nat

\* ... after a step as before it.
LEMMA MoneyTypesNext == ASSUME NEW m PROVE TypeOK' => MoneyNat(m)'
<1>1. TypeOK => MoneyNat(m)
  BY MoneyTypes DEF MoneyNat
<1> QED
  BY <1>1, PTL

\* The reservation of a row among the others.
LEMMA Reserved ==
  ASSUME TypeOK, NEW w \in Rows, status[w] \in Open
  PROVE  LET m == row[w].member
         IN  PendingExcluding(m, w) \in Nat /\ Pending(m) = row[w].amount + PendingExcluding(m, w)
<1> DEFINE m == row[w].member
<1>1. w \in OpenRows(m) /\ \A v \in OpenRows(m) : Amount[v] \in Nat
  BY Terms DEF OpenRows, RowsOf, Open
<1>2. IsFiniteSet(OpenRows(m) \ {w}) /\ \A v \in OpenRows(m) \ {w} : Amount[v] \in Nat
  BY <1>1, Terms, FS_Subset
<1>3. PendingExcluding(m, w) \in Nat
  BY <1>2, SumNat DEF PendingExcluding
<1>4. Pending(m) = Amount[w] + PendingExcluding(m, w)
  <2>1. PICK S, f : S = OpenRows(m) /\ f = Amount
    OBVIOUS
  <2>2. IsFiniteSet(S) /\ w \in S /\ \A v \in S : f[v] \in Int
    <3>1. IsFiniteSet(OpenRows(m))
      BY Terms
    <3> QED
      BY <1>1, <2>1, <3>1
  <2>3. SumFunctionOnSet(f, S) = f[w] + SumFunctionOnSet(f, S \ {w})
    BY <2>2, SumRemove
  <2> QED
    BY <2>1, <2>3 DEF Pending, PendingExcluding
<1> QED
  BY <1>3, <1>4, Terms

\* No step takes money away from a member, except that ops freezes it; what is frozen still counts
\* as earned.
LEMMA CreditsStep ==
  ASSUME TypeOK, [Next]_vars, NEW m
  PROVE  /\ Credited(m, {"available", "frozen"}) <= Credited(m, {"available", "frozen"})'
         /\ \/ Credited(m, {"available"}) <= Credited(m, {"available"})'
            \/ \E c \in Credits : Freeze(c) /\ CreditOwner[c] = m
<1> DEFINE In(states) == {c \in Credits : CreditOwner[c] = m /\ credit[c] \in states}
<1> USE DEF rowVars, opsVars, bmpVars
<1>1. credit' \in [Credits -> {"maturing", "available", "frozen"}]
  BY ZenonT(60) DEF TypeOK, Next, Mature, Freeze, Unfreeze, vars, RequestStart, RequestVerify, RequestSnapshot, RequestFail, RequestCommit,
     LinkStart, LinkInsert, LinkReview, AdminStart, AdminStep, AdminVerify, AdminRefresh, AdminCheckSuspension, AdminAssertBMP,
     AdminUpdate, PayReadAvailable, PayReadPending, AdminCommit, AdminFail, Ban, Unban, Tick
<1>2. \/ UNCHANGED credit
      \/ \E c \in Credits : Mature(c) \/ Freeze(c) \/ Unfreeze(c)
  BY DEF Next, vars, RequestStart, RequestVerify, RequestSnapshot, RequestFail, RequestCommit,
     LinkStart, LinkInsert, LinkReview, AdminStart, AdminStep, AdminVerify, AdminRefresh, AdminCheckSuspension, AdminAssertBMP,
     AdminUpdate, PayReadAvailable, PayReadPending, AdminCommit, AdminFail, Ban, Unban, Tick
<1>3. ASSUME NEW states, In(states) \subseteq In(states)'
      PROVE  Credited(m, states) <= Credited(m, states)'
  <2>1. IsFiniteSet(In(states)') /\ \A c \in In(states)' : CreditAmount[c] \in Nat
    <3>1. In(states)' \subseteq Credits
      OBVIOUS
    <3> QED
      BY <3>1, FS_Subset
  <2> QED
    BY <1>3, <2>1, SumOfPart DEF Credited
<1>4. In({"available", "frozen"}) \subseteq In({"available", "frozen"})'
  BY <1>2 DEF TypeOK, Mature, Freeze, Unfreeze
<1>5. \/ In({"available"}) \subseteq In({"available"})'
      \/ \E c \in Credits : Freeze(c) /\ CreditOwner[c] = m
  BY <1>2 DEF TypeOK, Mature, Freeze, Unfreeze
<1> HIDE DEF In
<1> QED
  BY <1>3, <1>4, <1>5

LEMMA SameMoney ==
  ASSUME UNCHANGED <<status, row, debits>>, NEW m
  PROVE  RowsOf(m)' = RowsOf(m) /\ Debited(m)' = Debited(m) /\ Pending(m)' = Pending(m)
  BY DEF RowsOf, OpenRows, Amount, Debit, Debited, Pending

\* A request that commits reserves its amount, and nothing else moves.
LEMMA RequestMoney ==
  ASSUME IInv, NEW s \in Sessions, NEW w \in Rows, RequestCommit(s, w), NEW m \in Members
  PROVE  /\ Debited(m)' = Debited(m)
         /\ IF m = req[s].member
            THEN RowsOf(m)' # RowsOf(m) /\ Pending(m)' = Pending(m) + req[s].amount
            ELSE Pending(m)' = Pending(m)
         /\ RowsOf(m) \subseteq RowsOf(m)'
<1> DEFINE x == req[s].amount
           mine == m = req[s].member
<1>0. TypeOK /\ DebitIffPaid
  BY DEF IInv
<1>1. /\ status[w] = "none" /\ debits[w] = 0 /\ debits' = debits /\ x \in Nat
      /\ status' = [status EXCEPT ![w] = "requested"]
      /\ row' = [row EXCEPT ![w] = [member |-> req[s].member, amount |-> x]]
  BY <1>0 DEF RequestCommit, DebitIffPaid, TypeOK, ReqRec
<1>2. /\ w \notin RowsOf(m) /\ RowsOf(m)' = IF mine THEN RowsOf(m) \cup {w} ELSE RowsOf(m)
      /\ w \notin OpenRows(m) /\ OpenRows(m)' = IF mine THEN OpenRows(m) \cup {w} ELSE OpenRows(m)
  BY <1>0, <1>1 DEF RowsOf, OpenRows, Open, TypeOK
<1>3. /\ Amount'[w] = x /\ \A v \in Rows \ {w} : Amount'[v] = Amount[v]
      /\ Debit'[w] = 0 /\ \A v \in Rows \ {w} : Debit'[v] = Debit[v]
  BY <1>0, <1>1 DEF Amount, Debit, TypeOK
<1>4. /\ RowsOf(m) \subseteq Rows \ {w} /\ OpenRows(m) \subseteq Rows \ {w}
      /\ IsFiniteSet(RowsOf(m)) /\ \A v \in RowsOf(m) : Debit[v] \in Nat
      /\ IsFiniteSet(OpenRows(m)) /\ \A v \in OpenRows(m) : Amount[v] \in Nat
  <2>1. /\ RowsOf(m) \subseteq Rows /\ OpenRows(m) \subseteq Rows
        /\ \A v \in Rows : Debit[v] \in Nat /\ Amount[v] \in Nat
        /\ IsFiniteSet(RowsOf(m)) /\ IsFiniteSet(OpenRows(m))
    BY <1>0, Terms
  <2> QED
    BY <1>2, <2>1
<1>5. /\ Debited(m) = SumFunctionOnSet(Debit, RowsOf(m))
      /\ Debited(m)' = SumFunctionOnSet(Debit', RowsOf(m)')
      /\ Pending(m) = SumFunctionOnSet(Amount, OpenRows(m))
      /\ Pending(m)' = SumFunctionOnSet(Amount', OpenRows(m)')
  BY DEF Debited, Pending
<1> HIDE DEF x
<1>6. SumFunctionOnSet(Debit', RowsOf(m)) = Debited(m) /\ SumFunctionOnSet(Amount', OpenRows(m)) = Pending(m)
  BY <1>3, <1>4, <1>5, SumAlike
<1>7. mine => /\ Debited(m)' = Debited(m)
              /\ Pending(m)' = Pending(m) + x
  <2>1. /\ \A v \in RowsOf(m) \cup {w} : Debit'[v] \in Int
        /\ \A v \in OpenRows(m) \cup {w} : Amount'[v] \in Int
    BY <1>1, <1>3, <1>4
  <2>a. SumFunctionOnSet(Debit', RowsOf(m) \cup {w}) = Debit'[w] + SumFunctionOnSet(Debit', RowsOf(m))
    BY <1>2, <1>4, <2>1, SumAdd
  <2>b. SumFunctionOnSet(Amount', OpenRows(m) \cup {w}) = Amount'[w] + SumFunctionOnSet(Amount', OpenRows(m))
    BY <1>2, <1>4, <2>1, SumAdd
  <2>2. /\ SumFunctionOnSet(Debit', RowsOf(m) \cup {w}) = 0 + Debited(m)
        /\ SumFunctionOnSet(Amount', OpenRows(m) \cup {w}) = x + Pending(m)
    BY <1>3, <1>6, <2>a, <2>b
  <2>3. Debited(m) \in Nat /\ Pending(m) \in Nat
    BY <1>0, MoneyTypes
  <2> QED
    BY <1>1, <1>2, <1>5, <2>2, <2>3
<1> QED
  BY <1>2, <1>5, <1>6, <1>7 DEF x

\* A decision that commits ends a reservation or keeps it; if it pays, and only then, what was reserved is
\* debited.
LEMMA DecisionMoney ==
  ASSUME IInv, NEW a \in Admins, AdminCommit(a), NEW m \in Members
  PROVE  LET w == adm[a].row
             x == row[w].amount
         IN  /\ RowsOf(m)' = RowsOf(m) /\ x \in Nat
             /\ IF adm[a].to = "paid" /\ m = row[w].member
                THEN Debited(m)' = Debited(m) + x /\ Pending(m)' = Pending(m) - x
                ELSE Debited(m)' = Debited(m) /\ Pending(m)' <= Pending(m)
<1> DEFINE w == adm[a].row
           x == row[w].amount
           to == adm[a].to
<1>0. TypeOK /\ DebitIffPaid /\ HolderMayCommit /\ AdminsAtWork
  BY DEF IInv
<1>1. /\ w \in Rows /\ to \in Targets /\ status[w] \in Open
      /\ row' = row /\ status' = [status EXCEPT ![w] = to]
      /\ debits' = [debits EXCEPT ![w] = IF to = "paid" THEN 1 ELSE @]
      /\ debits[w] = 0
  <2>1. w \in Rows /\ to \in Targets /\ status[w] \in withdrawalTransitions[to]
    BY <1>0 DEF AdminCommit, AdminsAtWork, HolderMayCommit
  <2>2. status[w] \in Open
    BY <2>1 DEF withdrawalTransitions, Targets, Open
  <2>3. debits[w] = 0
    BY <1>0, <2>1, <2>2 DEF DebitIffPaid, Open
  <2> QED
    BY <2>1, <2>2, <2>3 DEF AdminCommit, DebitsAfter
<1>2. x \in Nat
  BY <1>0, <1>1, Terms
<1>3. RowsOf(m)' = RowsOf(m) /\ OpenRows(m)' = IF to = "approved" THEN OpenRows(m) ELSE OpenRows(m) \ {w}
  BY <1>0, <1>1 DEF RowsOf, OpenRows, Open, Targets, TypeOK
<1>4. Amount' = Amount
  BY <1>1 DEF Amount
<1>5. /\ IsFiniteSet(RowsOf(m)) /\ \A v \in RowsOf(m) : Debit[v] \in Nat
      /\ IsFiniteSet(OpenRows(m)) /\ \A v \in OpenRows(m) : Amount[v] \in Nat
      /\ RowsOf(m) \subseteq Rows
  <2>1. /\ RowsOf(m) \subseteq Rows /\ OpenRows(m) \subseteq RowsOf(m)
        /\ \A v \in Rows : Debit[v] \in Nat /\ Amount[v] \in Nat
        /\ IsFiniteSet(RowsOf(m)) /\ IsFiniteSet(OpenRows(m))
    BY <1>0, Terms
  <2> QED
    BY <2>1
<1>6. /\ Debited(m) = SumFunctionOnSet(Debit, RowsOf(m))
      /\ Debited(m)' = SumFunctionOnSet(Debit', RowsOf(m))
      /\ Pending(m) = SumFunctionOnSet(Amount, OpenRows(m))
      /\ Pending(m)' = SumFunctionOnSet(Amount, OpenRows(m)')
  BY <1>3, <1>4 DEF Debited, Pending
<1>7. Debited(m) \in Nat /\ Pending(m) \in Nat
  BY <1>0, MoneyTypes
<1>8. Pending(m)' <= Pending(m)
  BY <1>3, <1>5, <1>6, <1>7, SumOfPart
<1>9. CASE to = "paid"
  <2>1. Debit[w] = 0 /\ Debit'[w] = x /\ \A v \in Rows \ {w} : Debit'[v] = Debit[v]
    <3>1. debits'[w] = 1 /\ \A v \in Rows \ {w} : debits'[v] = debits[v]
      BY <1>0, <1>1, <1>9 DEF TypeOK
    <3>2. 0 * x = 0 /\ 1 * x = x
      BY <1>2
    <3> HIDE DEF w
    <3> QED
      BY <1>1, <3>1, <3>2 DEF Debit
  <2>2. CASE m = row[w].member
    <3>1. w \in RowsOf(m) /\ w \in OpenRows(m) /\ Amount[w] = x
      BY <1>0, <1>1, <2>2 DEF RowsOf, OpenRows, Open, Amount
    <3>2. \A v \in RowsOf(m) : Debit[v] \in Int /\ Debit'[v] \in Int
      BY <1>2, <1>5, <2>1
    <3> HIDE DEF w, x
    <3>3. \A v \in RowsOf(m) \ {w} : Debit[v] = Debit'[v]
      BY <1>5, <2>1
    <3>a. SumFunctionOnSet(Debit', RowsOf(m)) = SumFunctionOnSet(Debit, RowsOf(m)) + (Debit'[w] - Debit[w])
      <4> DEFINE f == Debit
                 g == Debit'
                 S == RowsOf(m)
      <4>1. /\ IsFiniteSet(S) /\ w \in S /\ \A y \in S : f[y] \in Int /\ g[y] \in Int
            /\ \A y \in S \ {w} : f[y] = g[y]
        BY <1>5, <3>1, <3>2, <3>3
      <4> HIDE DEF f, g, S
      <4>2. SumFunctionOnSet(g, S) = SumFunctionOnSet(f, S) + (g[w] - f[w])
        BY <4>1, SumChanged, SMTT(60)
      <4> QED
        BY <4>2 DEF f, g, S
    <3>4. Debited(m)' = Debited(m) + (x - 0)
      BY <1>6, <2>1, <3>a
    <3>5. Pending(m) = x + Pending(m)'
      <4>1. OpenRows(m)' = OpenRows(m) \ {w}
        BY <1>3, <1>9
      <4>2. \A v \in OpenRows(m) : Amount[v] \in Int
        BY <1>5
      <4> QED
        BY <1>5, <1>6, <3>1, <4>1, <4>2, SumRemove
    <3>6. Pending(m)' \in Nat
      <4>1. IsFiniteSet(OpenRows(m)') /\ \A v \in OpenRows(m)' : Amount[v] \in Nat
        BY <1>3, <1>5, FS_Subset
      <4> QED
        BY <1>6, <4>1, SumNat
    <3>7. Debited(m)' = Debited(m) + x /\ Pending(m)' = Pending(m) - x
      BY <1>2, <1>7, <3>4, <3>5, <3>6
    <3> QED
      BY <1>2, <1>3, <1>9, <2>2, <3>7 DEF w, x
  <2>3. CASE m # row[w].member
    <3>1. \A v \in RowsOf(m) : Debit'[v] = Debit[v]
      BY <1>5, <2>1, <2>3 DEF RowsOf
    <3>2. Debited(m)' = Debited(m)
      BY <1>5, <1>6, <3>1, SumAlike
    <3> QED
      BY <1>2, <1>3, <1>8, <2>3, <3>2
  <2> QED
    BY <2>2, <2>3
<1>10. CASE to # "paid"
  <2>1. debits' = debits
    BY <1>0, <1>1, <1>10 DEF TypeOK
  <2>2. Debit' = Debit
    BY <1>1, <2>1 DEF Debit
  <2> QED
    BY <1>2, <1>3, <1>6, <1>8, <1>10, <2>2
<1> QED
  BY <1>9, <1>10

\* What a step does to the rows and the money of a member: it commits a request of theirs, or a payment of
\* theirs, or debits nothing and reserves no more.
LEMMA MoneyStep ==
  ASSUME IInv, [Next]_vars, NEW m \in Members
  PROVE  /\ RowsOf(m) \subseteq RowsOf(m)'
         /\ \/ Debited(m)' = Debited(m) /\ Pending(m)' <= Pending(m)
            \/ \E s \in Sessions :
                 /\ req[s].pc = "insert" /\ Serializable(s) /\ req[s].member = m /\ UNCHANGED credit
                 /\ RowsOf(m)' # RowsOf(m)
                 /\ Debited(m)' = Debited(m) /\ Pending(m)' = Pending(m) + req[s].amount
            \/ \E a \in Admins : LET x == row[adm[a].row].amount IN
                 /\ AdminCommit(a) /\ adm[a].to = "paid" /\ row[adm[a].row].member = m
                 /\ x \in Nat /\ Debited(m)' = Debited(m) + x /\ Pending(m)' = Pending(m) - x
<1>0. Debited(m) \in Nat /\ Pending(m) \in Nat
  BY MoneyTypes DEF IInv
<1>1. ASSUME NEW s \in Sessions, NEW w \in Rows, RequestCommit(s, w)
      PROVE  /\ RowsOf(m) \subseteq RowsOf(m)'
             /\ \/ Debited(m)' = Debited(m) /\ Pending(m)' <= Pending(m)
                \/ /\ req[s].pc = "insert" /\ Serializable(s) /\ req[s].member = m /\ UNCHANGED credit
                   /\ RowsOf(m)' # RowsOf(m)
                   /\ Debited(m)' = Debited(m) /\ Pending(m)' = Pending(m) + req[s].amount
  <2>1. req[s].pc = "insert" /\ Serializable(s) /\ UNCHANGED credit
    BY <1>1 DEF RequestCommit, opsVars
  <2> QED
    BY <1>0, <1>1, <2>1, RequestMoney
<1>2. ASSUME NEW a \in Admins, AdminCommit(a)
      PROVE  /\ RowsOf(m) \subseteq RowsOf(m)'
             /\ \/ Debited(m)' = Debited(m) /\ Pending(m)' <= Pending(m)
                \/ LET x == row[adm[a].row].amount IN
                   /\ AdminCommit(a) /\ adm[a].to = "paid" /\ row[adm[a].row].member = m
                   /\ x \in Nat /\ Debited(m)' = Debited(m) + x /\ Pending(m)' = Pending(m) - x
  BY <1>2, DecisionMoney
<1>3. ASSUME \/ \E a \in Admins : AdminRefresh(a)
             \/ UNCHANGED rowVars
      PROVE  RowsOf(m)' = RowsOf(m) /\ Debited(m)' = Debited(m) /\ Pending(m)' <= Pending(m)
  <2>1. UNCHANGED <<status, row, debits>>
    BY <1>3 DEF AdminRefresh, rowVars
  <2> QED
    BY <1>0, <2>1, SameMoney
<1> QED
  BY <1>1, <1>2, <1>3, RowChanges

\* A request is between its snapshot and its COMMIT because it has just taken the snapshot, or it was
\* there before.
LEMMA InsertStep ==
  ASSUME TypeOK, [Next]_vars, NEW s \in Sessions, req'[s].pc = "insert"
  PROVE  req'[s] = req[s] \/ RequestSnapshot(s)
<1>1. ASSUME NEW t \in Sessions,
             \/ \E m \in Members, amount \in Amounts : RequestStart(t, m, amount)
             \/ RequestVerify(t) \/ RequestSnapshot(t) \/ RequestFail(t)
             \/ \E w \in Rows : RequestCommit(t, w)
             \/ \E m \in Members, mail \in Mails : LinkStart(t, m, mail)
             \/ LinkInsert(t)
      PROVE  req'[s] = req[s] \/ RequestSnapshot(s)
  <2>1. ASSUME t = s PROVE RequestSnapshot(s)
    <3>0. s \in DOMAIN req
      BY DEF TypeOK
    <3>1. ~RequestFail(s) /\ ~LinkInsert(s) /\ \A w \in Rows : ~RequestCommit(s, w)
      BY <3>0 DEF RequestFail, LinkInsert, RequestCommit, IdleReq
    <3>2. ASSUME RequestVerify(s) PROVE FALSE
      <4>1. PICK v : req' = [req EXCEPT ![s] = [@ EXCEPT !.pc = "begin", !.verdict = v, !.at = clock]]
        BY <3>2 DEF RequestVerify
      <4>2. [req[s] EXCEPT !.pc = "begin", !.verdict = v, !.at = clock].pc = "begin"
        BY DEF TypeOK, ReqRec
      <4> QED
        BY <3>0, <4>1, <4>2
    <3>3. ASSUME NEW m \in Members, NEW amount \in Amounts, RequestStart(s, m, amount)
          PROVE  FALSE
      <4>1. PICK mail : req' = [req EXCEPT ![s] = NewRequest(m, amount, mail)]
        BY <3>3 DEF RequestStart
      <4>2. NewRequest(m, amount, mail).pc # "insert"
        BY DEF NewRequest, IdleReq
      <4> QED
        BY <3>0, <4>1, <4>2
    <3>4. ASSUME NEW m \in Members, NEW mail \in Mails, LinkStart(s, m, mail)
          PROVE  FALSE
      <4>1. req' = [req EXCEPT ![s] = [IdleReq EXCEPT !.pc = "link", !.member = m, !.mail = mail]]
        BY <3>4 DEF LinkStart
      <4>2. [IdleReq EXCEPT !.pc = "link", !.member = m, !.mail = mail].pc = "link"
        BY DEF IdleReq
      <4> QED
        BY <3>0, <4>1, <4>2
    <3> QED
      BY <1>1, <2>1, <3>1, <3>2, <3>3, <3>4
  <2>2. ASSUME t # s PROVE req'[s] = req[s]
    BY <1>1, <2>2 DEF TypeOK, RequestStart, RequestVerify, RequestSnapshot, RequestFail, RequestCommit, LinkStart, LinkInsert
  <2> QED
    BY <2>1, <2>2
<1>2. ASSUME req' = req PROVE req'[s] = req[s]
  BY <1>2
<1>3. \/ req' = req
      \/ \E t \in Sessions :
             \/ \E m \in Members, amount \in Amounts : RequestStart(t, m, amount)
             \/ RequestVerify(t) \/ RequestSnapshot(t) \/ RequestFail(t)
             \/ \E w \in Rows : RequestCommit(t, w)
             \/ \E m \in Members, mail \in Mails : LinkStart(t, m, mail)
             \/ LinkInsert(t)
  BY DEF Next, vars, LinkReview, AdminStart, AdminStep, AdminVerify, AdminRefresh, AdminCheckSuspension,
     AdminAssertBMP, AdminUpdate, PayReadAvailable, PayReadPending, AdminCommit, AdminFail, Mature, Freeze,
     Unfreeze, Ban, Unban, Tick
<1> QED
  BY <1>1, <1>2, <1>3

\* What a request that takes its snapshot leaves as it was.
LEMMA SnapshotTaken ==
  ASSUME TypeOK, NEW s \in Sessions, RequestSnapshot(s), req'[s].pc = "insert"
  PROVE  LET m == req[s].member IN
         /\ req'[s].member = m /\ req'[s].amount = req[s].amount /\ req'[s].seen = RowsOf(m)
         /\ req[s].amount <= Left(m)
         /\ UNCHANGED <<status, row, debits, credit>>
<1>1. req[s].pc = "begin" /\ s \in DOMAIN req
  BY DEF RequestSnapshot, TypeOK
<1>2. req' # [req EXCEPT ![s] = IdleReq]
  BY <1>1 DEF IdleReq
<1>3. /\ req' = [req EXCEPT ![s] = [@ EXCEPT !.pc = "insert", !.seen = RowsOf(req[s].member)]]
      /\ req[s].amount <= Available(req[s].member) - Pending(req[s].member)
  BY <1>2 DEF RequestSnapshot
<1>4. req[s] \in ReqRec
  BY DEF TypeOK
<1> QED
  BY <1>1, <1>3, <1>4 DEF RequestSnapshot, rowVars, opsVars, Left, ReqRec

-----------------------------------------------------------------------------
(* What is earned covers what is paid and reserved.                        *)

MoneyInv == IInv /\ SeenStays /\ SnapshotCovers /\ EarnedCoversReserved

LEMMA SeenStep == MoneyInv /\ [Next]_vars => SeenStays'
<1> SUFFICES ASSUME MoneyInv, [Next]_vars, NEW s \in Sessions, req'[s].pc = "insert"
             PROVE  (req[s].seen \subseteq RowsOf(req[s].member))'
  BY DEF SeenStays
<1>0. IInv /\ TypeOK
  BY DEF MoneyInv, IInv
<1>1. CASE req'[s] = req[s]
  <2>1. req[s].seen \subseteq RowsOf(req[s].member)
    BY <1>1 DEF MoneyInv, SeenStays
  <2>2. req[s].member \in Members
    BY <1>0, <1>1 DEF IInv, RequestsOwned
  <2>3. RowsOf(req[s].member) \subseteq {w \in Rows : status'[w] # "none" /\ row'[w].member = req[s].member}
    BY <1>0, StaysStep DEF IInv, Stays, RowsOf
  <2> QED
    BY <1>1, <2>1, <2>3 DEF RowsOf
<1>2. CASE RequestSnapshot(s)
  <2>1. /\ req'[s].member = req[s].member /\ req'[s].seen = RowsOf(req[s].member)
        /\ UNCHANGED <<status, row>>
    BY <1>0, <1>2, SnapshotTaken
  <2> QED
    BY <2>1 DEF RowsOf
<1> QED
  BY <1>0, <1>1, <1>2, InsertStep

LEMMA SnapshotStep == MoneyInv /\ [Next]_vars => SnapshotCovers'
<1> DEFINE Earned(m) == Credited(m, {"available", "frozen"})
<1> SUFFICES ASSUME MoneyInv, [Next]_vars, NEW s \in Sessions, req'[s].pc = "insert",
                    NEW m, m = req'[s].member, RowsOf(m)' = req'[s].seen
             PROVE  Debited(m)' + Pending(m)' + req'[s].amount <= Earned(m)'
  BY DEF SnapshotCovers, RowsOf, Debited, Debit, Pending, OpenRows, Amount, Credited
<1>0. IInv /\ TypeOK
  BY DEF MoneyInv, IInv
<1>1. /\ Earned(m) \in Nat /\ Debited(m) \in Nat /\ Pending(m) \in Nat /\ Earned(m) <= Earned(m)'
  BY <1>0, MoneyTypes, CreditsStep
<1>2. Earned(m)' \in Nat /\ req[s].amount \in Nat
  <2>1. TypeOK'
    BY <1>0, Inductive DEF IInv
  <2>2. Earned(m)' \in Nat
    BY <2>1, MoneyTypesNext DEF MoneyNat
  <2> QED
    BY <1>0, <2>2 DEF TypeOK, ReqRec
<1>3. CASE req'[s] = req[s]
  <2>1. m \in Members /\ req[s].seen \subseteq RowsOf(m)
    BY <1>0, <1>3 DEF IInv, RequestsOwned, MoneyInv, SeenStays
  <2>2. RowsOf(m) \subseteq RowsOf(m)'
    BY <1>0, <2>1, MoneyStep
  <2>3. RowsOf(m)' = RowsOf(m) /\ RowsOf(m) = req[s].seen
    <3>1. RowsOf(m)' = req[s].seen
      BY <1>3
    <3>2. RowsOf(m) \subseteq req[s].seen
      BY <2>2, <3>1
    <3>3. \A w : w \in RowsOf(m) <=> w \in req[s].seen
      BY <2>1, <3>2
    <3>4. RowsOf(m) = req[s].seen
      BY <3>3, Zenon
    <3> QED
      BY <3>1, <3>4
  <2>4. Debited(m) + Pending(m) + req[s].amount <= Earned(m)
    BY <1>3, <2>3 DEF MoneyInv, SnapshotCovers
  <2>5. Debited(m)' + Pending(m)' <= Debited(m) + Pending(m) /\ Debited(m)' \in Nat /\ Pending(m)' \in Int
    <3>1. Pending(m)' \in Nat /\ Debited(m)' \in Nat
      BY <1>0, Inductive, MoneyTypesNext DEF IInv, MoneyNat
    <3> QED
      BY <1>0, <1>1, <2>1, <2>3, <3>1, MoneyStep
  <2> HIDE DEF Earned
  <2> QED
    BY <1>1, <1>2, <1>3, <2>4, <2>5
<1>4. CASE RequestSnapshot(s)
  <2>1. /\ m = req[s].member /\ req'[s].amount = req[s].amount /\ req[s].amount <= Left(m)
        /\ UNCHANGED <<status, row, debits, credit>>
    BY <1>0, <1>4, SnapshotTaken
  <2>2. Debited(m)' = Debited(m) /\ Pending(m)' = Pending(m)
    BY <2>1, SameMoney
  <2>3. Credited(m, {"available"}) <= Earned(m)
    <3> DEFINE In(states) == {c \in Credits : CreditOwner[c] = m /\ credit[c] \in states}
    <3>1. /\ In({"available"}) \subseteq In({"available", "frozen"}) /\ In({"available", "frozen"}) \subseteq Credits
          /\ \A c \in In({"available", "frozen"}) : CreditAmount[c] \in Nat
      OBVIOUS
    <3> HIDE DEF In
    <3>2. SumFunctionOnSet(CreditAmount, In({"available"})) <= SumFunctionOnSet(CreditAmount, In({"available", "frozen"}))
      BY <3>1, FS_Subset, SumOfPart
    <3> QED
      BY <3>2 DEF In, Credited
  <2>4. Credited(m, {"available"}) \in Nat
    BY <1>0, MoneyTypes
  <2> HIDE DEF Earned
  <2> QED
    BY <1>1, <1>2, <2>1, <2>2, <2>3, <2>4 DEF Left, Available
<1> QED
  BY <1>0, <1>3, <1>4, InsertStep

LEMMA CoveredStep == MoneyInv /\ [Next]_vars => EarnedCoversReserved'
<1> DEFINE Earned(m) == Credited(m, {"available", "frozen"})
<1> SUFFICES ASSUME MoneyInv, [Next]_vars, NEW m \in Members
             PROVE  Earned(m)' - Debited(m)' >= Pending(m)'
  BY DEF EarnedCoversReserved
<1>0. IInv /\ TypeOK /\ TypeOK'
  BY Inductive DEF MoneyInv, IInv
<1>1. /\ Earned(m) \in Nat /\ Debited(m) \in Nat /\ Pending(m) \in Nat /\ Earned(m) <= Earned(m)'
      /\ Earned(m)' \in Nat /\ Debited(m)' \in Nat /\ Pending(m)' \in Nat
      /\ Earned(m) - Debited(m) >= Pending(m)
  BY <1>0, MoneyTypes, MoneyTypesNext, CreditsStep DEF MoneyInv, EarnedCoversReserved, MoneyNat
<1>2. ASSUME NEW s \in Sessions, req[s].pc = "insert", Serializable(s), req[s].member = m
      PROVE  Debited(m) + Pending(m) + req[s].amount <= Earned(m) /\ req[s].amount \in Nat
  BY <1>0, <1>2 DEF Serializable, MoneyInv, SnapshotCovers, TypeOK, ReqRec
<1> HIDE DEF Earned
<1>3. \/ Debited(m)' = Debited(m) /\ Pending(m)' <= Pending(m)
      \/ \E s \in Sessions : /\ req[s].pc = "insert" /\ Serializable(s) /\ req[s].member = m
                             /\ Debited(m)' = Debited(m) /\ Pending(m)' = Pending(m) + req[s].amount
      \/ \E x \in Nat : Debited(m)' = Debited(m) + x /\ Pending(m)' = Pending(m) - x
  BY <1>0, MoneyStep
<1>4. CASE Debited(m)' = Debited(m) /\ Pending(m)' <= Pending(m)
  BY <1>1, <1>4
<1>5. ASSUME NEW s \in Sessions, req[s].pc = "insert", Serializable(s), req[s].member = m,
             Debited(m)' = Debited(m), Pending(m)' = Pending(m) + req[s].amount
      PROVE  Earned(m)' - Debited(m)' >= Pending(m)'
  BY <1>1, <1>2, <1>5
<1>6. ASSUME NEW x \in Nat, Debited(m)' = Debited(m) + x, Pending(m)' = Pending(m) - x
      PROVE  Earned(m)' - Debited(m)' >= Pending(m)'
  BY <1>1, <1>6
<1> QED
  BY <1>3, <1>4, <1>5, <1>6

LEMMA MoneyInit == Init => MoneyInv
<1> SUFFICES ASSUME Init PROVE MoneyInv
  OBVIOUS
<1>1. IInv
  BY InitIInv
<1>2. SeenStays /\ SnapshotCovers
  BY DEF Init, IdleReq, SeenStays, SnapshotCovers
<1>3. ASSUME NEW m \in Members
      PROVE  Credited(m, {"available", "frozen"}) - Debited(m) >= Pending(m)
  <2>1. RowsOf(m) = {} /\ OpenRows(m) = {}
    BY DEF Init, RowsOf, OpenRows
  <2>2. Debited(m) = 0 /\ Pending(m) = 0
    BY <2>1, SumEmpty DEF Debited, Pending
  <2>3. Credited(m, {"available", "frozen"}) \in Nat
    BY <1>1, MoneyTypes DEF IInv
  <2> QED
    BY <2>2, <2>3
<1> QED
  BY <1>1, <1>2, <1>3 DEF MoneyInv, EarnedCoversReserved

LEMMA MoneyInvariant == Spec => []MoneyInv
<1>1. MoneyInv /\ [Next]_vars => MoneyInv'
  BY Inductive, SeenStep, SnapshotStep, CoveredStep DEF MoneyInv
<1> QED
  BY <1>1, MoneyInit, PTL DEF Spec

\* RequestWithdrawalWithBMP and SetWithdrawalStatus never promise the same money twice: what a member earned,
\* frozen or not, covers what was paid and what is still open, however many requests and payments of theirs
\* overlap.
THEOREM NothingReservedTwice == Spec => []EarnedCoversReserved
<1>1. MoneyInv => EarnedCoversReserved
  BY DEF MoneyInv
<1> QED
  BY <1>1, MoneyInvariant, PTL

-----------------------------------------------------------------------------
(* What a payment leaves, where ops freezes nothing of a member who is     *)
(* between a snapshot and a COMMIT.                                        *)

\* A member has less left after a step only if a request of theirs commits or ops freezes a credit.
LEMMA LeftStep ==
  ASSUME IInv, [Next]_vars, NEW m \in Members
  PROVE  /\ Available(m) \in Int /\ Available(m)' \in Int /\ Left(m) \in Int /\ Left(m)' \in Int
         /\ \/ Available(m) <= Available(m)' /\ Left(m) <= Left(m)'
            \/ \E s \in Sessions : /\ req[s].pc = "insert" /\ Serializable(s) /\ req[s].member = m
                                   /\ RowsOf(m)' # RowsOf(m) /\ req[s].amount \in Nat
                                   /\ Available(m)' = Available(m) /\ Left(m)' = Left(m) - req[s].amount
            \/ \E a \in Admins : /\ adm[a].pc = "commit" /\ adm[a].to = "paid" /\ row[adm[a].row].member = m
                                 /\ Left(m)' = Left(m)
            \/ \E c \in Credits : Freeze(c) /\ CreditOwner[c] = m
<1> DEFINE have == Credited(m, {"available"})
<1>0. TypeOK /\ TypeOK'
  BY Inductive DEF IInv
<1>1. /\ have \in Nat /\ Debited(m) \in Nat /\ Pending(m) \in Nat
      /\ have' \in Nat /\ Debited(m)' \in Nat /\ Pending(m)' \in Nat
  BY <1>0, MoneyTypes, MoneyTypesNext DEF MoneyNat
<1>2. /\ Available(m) = have - Debited(m) /\ Left(m) = have - Debited(m) - Pending(m)
      /\ Available(m)' = have' - Debited(m)' /\ Left(m)' = have' - Debited(m)' - Pending(m)'
  BY DEF Available, Left
<1>3. have <= have' \/ \E c \in Credits : Freeze(c) /\ CreditOwner[c] = m
  BY <1>0, CreditsStep
<1>4. UNCHANGED credit => have' = have
  BY DEF Credited
<1> HIDE DEF have
<1>5. /\ Available(m) \in Int /\ Available(m)' \in Int /\ Left(m) \in Int /\ Left(m)' \in Int
  BY <1>1, <1>2
<1>6. CASE Debited(m)' = Debited(m) /\ Pending(m)' <= Pending(m)
  <2>1. have <= have' => Available(m) <= Available(m)' /\ Left(m) <= Left(m)'
    BY <1>1, <1>2, <1>6
  <2> QED
    BY <1>3, <1>5, <2>1
<1>7. ASSUME NEW s \in Sessions, req[s].pc = "insert", Serializable(s), req[s].member = m, UNCHANGED credit,
             RowsOf(m)' # RowsOf(m), Debited(m)' = Debited(m), Pending(m)' = Pending(m) + req[s].amount
      PROVE  Available(m)' = Available(m) /\ Left(m)' = Left(m) - req[s].amount /\ req[s].amount \in Nat
  <2>1. req[s].amount \in Nat
    BY <1>0 DEF TypeOK, ReqRec
  <2> QED
    BY <1>1, <1>2, <1>4, <1>7, <2>1
<1>8. ASSUME NEW a \in Admins, NEW x \in Nat, AdminCommit(a), Debited(m)' = Debited(m) + x, Pending(m)' = Pending(m) - x
      PROVE  adm[a].pc = "commit" /\ Left(m)' = Left(m)
  <2>1. adm[a].pc = "commit" /\ UNCHANGED credit
    BY <1>8 DEF AdminCommit, opsVars
  <2> QED
    BY <1>1, <1>2, <1>4, <1>8, <2>1
<1> QED
  BY <1>5, <1>6, <1>7, <1>8, MoneyStep

\* How an admin handler comes to hold a balance, and to commit a payment.
LEMMA PaymentStep ==
  ASSUME TypeOK, [Next]_vars, NEW a \in Admins
  PROVE  /\ adm'[a].pc = "avail" => adm'[a].to = "paid" \/ adm'[a] = adm[a]
         /\ adm'[a].pc = "pending" => PayReadAvailable(a) \/ (adm'[a] = adm[a] /\ balance'[a] = balance[a])
         /\ adm'[a].pc = "commit" /\ adm'[a].to = "paid" => PayReadPending(a) \/ adm'[a] = adm[a]
<1>0. a \in DOMAIN adm /\ a \in DOMAIN balance /\ adm[a] \in AdmRec
  BY DEF TypeOK
<1>1. \/ adm' = adm /\ balance' = balance
      \/ \E b \in Admins : \/ \E w \in Rows, to \in Targets : AdminStart(b, w, to)
                           \/ AdminStep(b) \/ AdminFail(b)
  BY DEF Next, RequestStart, RequestVerify, RequestSnapshot, RequestFail, RequestCommit, LinkStart, LinkInsert,
     LinkReview, Mature, Freeze, Unfreeze, Ban, Unban, Tick, vars
<1>2. ASSUME NEW b \in Admins, b # a,
             \/ \E w \in Rows, to \in Targets : AdminStart(b, w, to)
             \/ AdminStep(b) \/ AdminFail(b)
      PROVE  adm'[a] = adm[a] /\ balance'[a] = balance[a]
  <2>1. adm'[a] = adm[a]
    BY <1>0, <1>2 DEF AdminStart, AdminStep, AdminVerify, AdminRefresh, AdminCheckSuspension, AdminAssertBMP, AdminUpdate,
       PayReadAvailable, PayReadPending, AdminCommit, AdminFail, GoTo
  <2>2. balance'[a] = balance[a]
    BY <1>0, <1>2 DEF AdminStart, AdminStep, AdminVerify, AdminRefresh, AdminCheckSuspension, AdminAssertBMP, AdminUpdate,
       PayReadAvailable, PayReadPending, AdminCommit, AdminFail
  <2> QED
    BY <2>1, <2>2
<1>3. \A pc : GoTo(a, pc) => adm'[a].pc = pc /\ adm'[a].to = adm[a].to
  BY <1>0 DEF GoTo, AdmRec
<1>4. adm' = [adm EXCEPT ![a] = IdleAdm] => adm'[a].pc = "idle"
  BY <1>0 DEF IdleAdm
<1>5. ASSUME \E w \in Rows, to \in Targets : AdminStart(a, w, to)
      PROVE  adm'[a].pc \in {"verify", "set"}
  <2>1. PICK w \in Rows, to \in Targets : adm' = [adm EXCEPT ![a] = NewAction(w, to)]
    BY <1>5 DEF AdminStart
  <2>2. NewAction(w, to).pc \in {"verify", "set"}
    BY DEF NewAction, IdleAdm
  <2> QED
    BY <1>0, <2>1, <2>2
<1>6. ASSUME AdminVerify(a)
      PROVE  adm'[a].pc \in {"set", "refresh"}
  <2>1. PICK v : adm' = [adm EXCEPT ![a] = [@ EXCEPT !.pc = IF v = "unavailable" THEN "set" ELSE "refresh",
                                                     !.verdict = v, !.at = clock]]
    BY <1>6 DEF AdminVerify
  <2>2. [adm[a] EXCEPT !.pc = IF v = "unavailable" THEN "set" ELSE "refresh",
                       !.verdict = v, !.at = clock].pc \in {"set", "refresh"}
    BY <1>0 DEF AdmRec
  <2> QED
    BY <1>0, <2>1, <2>2
<1>7. ASSUME AdminRefresh(a) \/ AdminCheckSuspension(a) \/ AdminAssertBMP(a) \/ AdminCommit(a) \/ AdminFail(a)
      PROVE  adm'[a].pc \in {"set", "bmp", "update", "idle"}
  BY <1>3, <1>4, <1>7 DEF AdminRefresh, AdminCheckSuspension, AdminAssertBMP, AdminCommit, AdminFail
<1>8. ASSUME AdminUpdate(a)
      PROVE  /\ adm'[a].pc = "avail" => adm'[a].to = "paid"
             /\ adm'[a].pc # "pending" /\ ~(adm'[a].pc = "commit" /\ adm'[a].to = "paid")
  BY <1>3, <1>4, <1>8 DEF AdminUpdate
<1>9. ASSUME PayReadAvailable(a) PROVE adm'[a].pc = "pending"
  BY <1>3, <1>9 DEF PayReadAvailable
<1>10. ASSUME PayReadPending(a) PROVE adm'[a].pc \in {"commit", "idle"}
  BY <1>3, <1>4, <1>10 DEF PayReadPending
<1> QED
  BY <1>1, <1>2, <1>5, <1>6, <1>7, <1>8, <1>9, <1>10 DEF AdminStep

PayInv == MoneyInv /\ SnapshotLeaves /\ OnlyPaymentsRead /\ BalanceHolds /\ PaymentCovered

LEMMA PayInit == Init => PayInv
<1> SUFFICES ASSUME Init PROVE PayInv
  OBVIOUS
<1>1. SnapshotLeaves /\ OnlyPaymentsRead /\ BalanceHolds /\ PaymentCovered
  BY DEF Init, IdleReq, IdleAdm, SnapshotLeaves, OnlyPaymentsRead, BalanceHolds, PaymentCovered
<1> QED
  BY <1>1, MoneyInit DEF PayInv

LEMMA SnapshotLeavesStep ==
  ASSUME {"request", "payment"} \subseteq OpsAvoids
  PROVE  PayInv /\ [Next]_vars => SnapshotLeaves'
<1> SUFFICES ASSUME PayInv, [Next]_vars, NEW s \in Sessions, req'[s].pc = "insert",
                    NEW m, m = req'[s].member, RowsOf(m)' = req'[s].seen
             PROVE  req'[s].amount <= Left(m)'
  BY DEF SnapshotLeaves, Left, Available, RowsOf, Debited, Debit, Pending, OpenRows, Amount, Credited
<1>0. IInv /\ TypeOK /\ SeenStays /\ SnapshotLeaves
  BY DEF PayInv, MoneyInv, IInv
<1>1. CASE req'[s] = req[s]
  <2>1. m \in Members /\ req[s].seen \subseteq RowsOf(m) /\ req[s].amount \in Nat
    BY <1>0, <1>1 DEF IInv, RequestsOwned, SeenStays, TypeOK, ReqRec
  <2>2. RowsOf(m) \subseteq RowsOf(m)'
    BY <1>0, <2>1, MoneyStep
  <2>3. RowsOf(m)' = req[s].seen
    BY <1>1
  <2>4. RowsOf(m) \subseteq req[s].seen
    BY <2>2, <2>3
  <2>5. \A w : w \in RowsOf(m) <=> w \in req[s].seen
    BY <2>1, <2>4
  <2>6. RowsOf(m) = req[s].seen
    BY <2>5, Zenon
  <2>7. req[s].amount <= Left(m)
    BY <1>1, <2>6, <1>0 DEF SnapshotLeaves
  <2>8. \A c \in Credits : ~(Freeze(c) /\ CreditOwner[c] = m)
    BY <1>1 DEF Freeze, MayFreeze, Requesting
  <2> QED
    BY <1>0, <1>1, <2>1, <2>3, <2>6, <2>7, <2>8, LeftStep
<1>2. CASE RequestSnapshot(s)
  <2>1. /\ m = req[s].member /\ req'[s].amount = req[s].amount /\ req[s].amount <= Left(m)
        /\ UNCHANGED <<status, row, debits, credit>>
    BY <1>0, <1>2, SnapshotTaken
  <2>2. Debited(m)' = Debited(m) /\ Pending(m)' = Pending(m)
    BY <2>1, SameMoney
  <2>3. Credited(m, {"available"})' = Credited(m, {"available"})
    BY <2>1 DEF Credited
  <2> QED
    BY <2>1, <2>2, <2>3 DEF Left, Available
<1> QED
  BY <1>0, <1>1, <1>2, InsertStep

\* A payment that waits between its reads, or before its COMMIT, is about a row that stays, and ops freezes
\* nothing of its owner.
LEMMA PaymentWaits ==
  ASSUME PayInv, [Next]_vars, {"request", "payment"} \subseteq OpsAvoids, NEW a \in Admins,
         adm[a].pc \in {"pending", "commit"}, adm[a].to = "paid", NEW m, m = row[adm[a].row].member
  PROVE  /\ m \in Members /\ row'[adm[a].row].member = m
         /\ \A c \in Credits : ~(Freeze(c) /\ CreditOwner[c] = m)
<1>1. adm[a].row \in Rows /\ status[adm[a].row] # "none" /\ IInv /\ TypeOK
  BY DEF PayInv, MoneyInv, IInv, AdminsAtWork
<1>2. row'[adm[a].row] = row[adm[a].row]
  BY <1>1, StaysStep DEF IInv, Stays
<1>3. \A c \in Credits : ~(Freeze(c) /\ CreditOwner[c] = m)
  BY DEF Freeze, MayFreeze, Paying
<1> QED
  BY <1>1, <1>2, <1>3 DEF IInv, RowsOwned

\* A step leaves a member who has enough with enough, unless ops freezes.
LEMMA EnoughStays ==
  ASSUME PayInv, [Next]_vars, NEW m \in Members, \A c \in Credits : ~(Freeze(c) /\ CreditOwner[c] = m)
  PROVE  /\ 0 <= Left(m) => 0 <= Left(m)'
         /\ Available(m) <= Available(m)' \/ 0 <= Left(m)'
         /\ Available(m) \in Int /\ Available(m)' \in Int
<1>0. IInv /\ SnapshotLeaves /\ PaymentCovered
  BY DEF PayInv, MoneyInv
<1>1. ASSUME NEW s \in Sessions, req[s].pc = "insert", Serializable(s), req[s].member = m
      PROVE  req[s].amount <= Left(m)
  BY <1>0, <1>1 DEF SnapshotLeaves, Serializable
<1>2. ASSUME NEW a \in Admins, adm[a].pc = "commit", adm[a].to = "paid", row[adm[a].row].member = m
      PROVE  0 <= Left(m)
  BY <1>0, <1>2 DEF PaymentCovered
<1> QED
  BY <1>0, <1>1, <1>2, LeftStep

LEMMA BalanceStep ==
  ASSUME {"request", "payment"} \subseteq OpsAvoids
  PROVE  PayInv /\ [Next]_vars => BalanceHolds'
<1> SUFFICES ASSUME PayInv, [Next]_vars, NEW a \in Admins, adm'[a].pc = "pending",
                    NEW m, m = row'[adm'[a].row].member
             PROVE  balance'[a] \in Int /\ (balance'[a] <= Available(m)' \/ 0 <= Left(m)')
  BY ZenonT(60) DEF BalanceHolds, Left, Available, RowsOf, Debited, Debit, Pending, OpenRows, Amount, Credited
<1>0. IInv /\ TypeOK /\ OnlyPaymentsRead /\ BalanceHolds
  BY DEF PayInv, MoneyInv, IInv
<1>1. CASE PayReadAvailable(a)
  <2>1. /\ UNCHANGED <<status, row, debits, credit>>
        /\ balance'[a] = Available(row[adm[a].row].member) /\ adm'[a].row = adm[a].row
    BY <1>0, <1>1 DEF PayReadAvailable, GoTo, rowVars, opsVars, TypeOK, AdmRec
  <2>2. balance'[a] = Available(m)
    BY <2>1
  <2>3. Debited(m)' = Debited(m) /\ Credited(m, {"available"})' = Credited(m, {"available"})
    BY <2>1, SameMoney DEF Credited
  <2>4. Available(m)' = Available(m) /\ Available(m) \in Int
    BY <1>0, <2>3, MoneyTypes DEF Available
  <2> QED
    BY <2>2, <2>4
<1>2. CASE adm'[a] = adm[a] /\ balance'[a] = balance[a]
  <2> DEFINE n == row[adm[a].row].member
  <2>1. adm[a].pc = "pending" /\ adm[a].to = "paid"
    BY <1>0, <1>2 DEF OnlyPaymentsRead
  <2>2. m = n /\ m \in Members /\ \A c \in Credits : ~(Freeze(c) /\ CreditOwner[c] = m)
    BY <1>2, <2>1, PaymentWaits
  <2>3. balance[a] \in Int /\ (balance[a] <= Available(m) \/ 0 <= Left(m))
    BY <1>0, <2>1, <2>2 DEF BalanceHolds
  <2> QED
    BY <1>2, <2>2, <2>3, EnoughStays
<1> QED
  BY <1>0, <1>1, <1>2, PaymentStep

LEMMA PaymentCoveredStep ==
  ASSUME {"request", "payment"} \subseteq OpsAvoids
  PROVE  PayInv /\ [Next]_vars => PaymentCovered'
<1> SUFFICES ASSUME PayInv, [Next]_vars, NEW a \in Admins, adm'[a].pc = "commit", adm'[a].to = "paid",
                    NEW m, m = row'[adm'[a].row].member
             PROVE  0 <= Left(m)'
  BY DEF PaymentCovered, Left, Available, RowsOf, Debited, Debit, Pending, OpenRows, Amount, Credited
<1>0. IInv /\ TypeOK /\ OnlyPaymentsRead /\ BalanceHolds /\ PaymentCovered
  BY DEF PayInv, MoneyInv, IInv
<1> DEFINE w == adm[a].row
           n == row[adm[a].row].member
<1>1. CASE PayReadPending(a)
  <2>1. /\ adm[a].pc = "pending" /\ UNCHANGED <<status, row, debits, credit>> /\ Covered(a) /\ adm'[a].row = adm[a].row
    <3>1. adm[a] \in AdmRec /\ a \in DOMAIN adm
      BY <1>0 DEF TypeOK
    <3>2. adm' # [adm EXCEPT ![a] = IdleAdm]
      BY <3>1 DEF IdleAdm
    <3> QED
      BY <1>1, <3>1, <3>2 DEF PayReadPending, GoTo, rowVars, opsVars, AdmRec
  <2>2. /\ adm[a].to = "paid" /\ w \in Rows /\ m = n
        /\ balance[a] \in Int /\ (balance[a] <= Available(m) \/ 0 <= Left(m))
    BY <1>0, <2>1 DEF OnlyPaymentsRead, BalanceHolds, IInv, AdminsAtWork
  <2>3. status[w] \in Open
    BY <1>0, <2>1, <2>2 DEF IInv, HolderMayCommit, withdrawalTransitions, Targets, Open
  <2>4. PendingExcluding(m, w) \in Nat /\ Pending(m) = row[w].amount + PendingExcluding(m, w) /\ row[w].amount \in Nat
    BY <1>0, <2>2, <2>3, Reserved, Terms
  <2>5. row[w].amount <= balance[a] - PendingExcluding(m, w)
    BY <2>1, <2>2 DEF Covered
  <2>6. Available(m) \in Int
    BY <1>0, MoneyTypes
  <2> HIDE DEF w, n
  <2>7. 0 <= Left(m)
    BY <2>2, <2>4, <2>5, <2>6 DEF Left
  <2>8. Left(m)' = Left(m)
    BY <2>1, SameMoney DEF Left, Available, Credited
  <2> QED
    BY <2>7, <2>8
<1>2. CASE adm'[a] = adm[a]
  <2>1. m = n /\ m \in Members /\ \A c \in Credits : ~(Freeze(c) /\ CreditOwner[c] = m)
    BY <1>2, PaymentWaits
  <2>2. 0 <= Left(m)
    BY <1>0, <1>2, <2>1 DEF PaymentCovered
  <2> QED
    BY <2>1, <2>2, EnoughStays
<1> QED
  BY <1>0, <1>1, <1>2, PaymentStep

LEMMA PayInvariant ==
  ASSUME {"request", "payment"} \subseteq OpsAvoids
  PROVE  Spec => []PayInv
<1>1. PayInv /\ [Next]_vars => PayInv'
  <2> SUFFICES ASSUME PayInv, [Next]_vars PROVE PayInv'
    OBVIOUS
  <2>1. MoneyInv'
    BY Inductive, SeenStep, SnapshotStep, CoveredStep DEF PayInv, MoneyInv
  <2>2. OnlyPaymentsRead'
    <3> SUFFICES ASSUME NEW a \in Admins, adm'[a].pc \in {"avail", "pending"} PROVE adm'[a].to = "paid"
      BY DEF OnlyPaymentsRead
    <3>1. TypeOK /\ OnlyPaymentsRead
      BY DEF PayInv, MoneyInv, IInv
    <3>2. adm'[a] = adm[a] => adm'[a].to = "paid"
      BY <3>1 DEF OnlyPaymentsRead
    <3>3. PayReadAvailable(a) => adm[a].to = "paid" /\ adm'[a].to = adm[a].to
      BY <3>1 DEF PayReadAvailable, OnlyPaymentsRead, GoTo, TypeOK, AdmRec
    <3> QED
      BY <3>1, <3>2, <3>3, PaymentStep
  <2> QED
    BY <2>1, <2>2, SnapshotLeavesStep, BalanceStep, PaymentCoveredStep DEF PayInv
<1> QED
  BY <1>1, PayInit, PTL DEF Spec

\* What every payment leaves.
LEMMA PaidLeaves ==
  ASSUME {"request", "payment"} \subseteq OpsAvoids
  PROVE  PayInv /\ [Next]_vars =>
           \A w \in Rows : Pays(w) => /\ Available(row[w].member)' >= Pending(row[w].member)'
                                      /\ Available(row[w].member)' >= 0
<1> SUFFICES ASSUME PayInv, [Next]_vars, NEW w \in Rows, Pays(w), NEW m, m = row'[w].member
             PROVE  Available(m)' >= Pending(m)' /\ Available(m)' >= 0
  BY ZenonT(60) DEF Available, RowsOf, Debited, Debit, Pending, OpenRows, Amount, Credited
<1>0. IInv /\ TypeOK /\ TypeOK' /\ PaymentCovered
  BY Inductive DEF PayInv, MoneyInv, IInv
<1>1. PICK a \in Admins : AdminCommit(a) /\ adm[a].row = w /\ adm[a].to = "paid"
  <2>1. ASSUME NEW s \in Sessions, NEW v \in Rows, RequestCommit(s, v) PROVE FALSE
    BY <1>0, <2>1 DEF RequestCommit, Pays, TypeOK
  <2>2. ASSUME NEW a \in Admins, AdminCommit(a) PROVE adm[a].row = w /\ adm[a].to = "paid"
    BY <1>0, <2>2 DEF AdminCommit, Pays, TypeOK
  <2> QED
    BY <2>1, <2>2, RowChanges DEF Pays, AdminRefresh, rowVars
<1>2. adm[a].pc = "commit"
  BY <1>1 DEF AdminCommit
<1>3. m = row[w].member /\ m \in Members /\ \A c \in Credits : ~(Freeze(c) /\ CreditOwner[c] = m)
  BY <1>1, <1>2, PaymentWaits
<1>4. 0 <= Left(m)
  BY <1>0, <1>1, <1>2, <1>3 DEF PaymentCovered
<1>5. 0 <= Left(m)' /\ Available(m)' \in Int
  BY <1>3, <1>4, EnoughStays
<1>6. Pending(m)' \in Nat
  BY <1>0, MoneyTypesNext DEF MoneyNat
<1>7. Left(m)' = Available(m)' - Pending(m)'
  BY DEF Left
<1> QED
  BY <1>5, <1>6, <1>7

\* The re-validation in SetWithdrawalStatus reads the balance and the other reservations in two snapshots, and
\* yet, where ops freezes nothing of a member with a request or a payment in flight, what a payment leaves
\* covers every withdrawal that is still open, however many admins pay and members request at once.
THEOREM PaymentLeavesCovered ==
  ASSUME {"request", "payment"} \subseteq OpsAvoids
  PROVE  Spec => PayLeavesCovered
<1>1. PayInv /\ [Next]_vars =>
        [\A w \in Rows : Pays(w) => Available(row[w].member)' >= Pending(row[w].member)']_vars
  BY PaidLeaves
<1> QED
  BY <1>1, PayInvariant, PTL DEF Spec, PayLeavesCovered

\* ... and under the same discipline the available balance of the wallet never ends below zero (without it
\* it may: a freeze under a request is enough).
THEOREM PaymentNeverOverdraws ==
  ASSUME {"request", "payment"} \subseteq OpsAvoids
  PROVE  Spec => PayNeverOverdraws
<1>1. PayInv /\ [Next]_vars =>
        [\A w \in Rows : Pays(w) => Available(row[w].member)' >= 0]_vars
  BY PaidLeaves
<1> QED
  BY <1>1, PayInvariant, PTL DEF Spec, PayNeverOverdraws
=============================================================================
