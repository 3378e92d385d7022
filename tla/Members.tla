------------------------------- MODULE Members -------------------------------
(***************************************************************************)
(* Who a member is (internal/payments: profile.go, onboarding.go,          *)
(* admin_user.go, blacklist.go, registration_referral.go, the sponsor of   *)
(* a checkout): persons are provisioned by whoever comes first, edited by  *)
(* themselves and by administrators, banned and deleted, and attributed to *)
(* a sponsor until they are placed.  A request runs statement by           *)
(* statement; rowLock is the lock on a person's row.                      *)
(***************************************************************************)
EXTENDS Naturals, FiniteSets

CONSTANTS
  Persons,      \* rows of mlm.person
  Addresses,    \* e-mails
  Texts,        \* what a name, a phone or a wallet may be
  Founder,      \* the person of the company's root
  LoginMail,    \* the verified e-mail of the login bound to a person, or Nobody
  Requests,     \* requests at work
  Patches,      \* the fields a request may carry, and what it carries in them
  Nobody

Fields == {"name", "phone", "wallet"}

ASSUME MembersAssumption ==
  /\ Founder \in Persons /\ Nobody \notin Persons \cup Addresses \cup Texts
  /\ Patches \subseteq UNION {[F -> Texts] : F \in SUBSET Fields}
  /\ LoginMail \in [Persons -> Addresses \cup {Nobody}]

VARIABLES
  person,      \* mlm.person: mail, status, flagged (blacklisted), is_admin
  fields,      \* what member and administrator may both write in it
  onboarded,   \* persons with a row in mlm.member_onboarding
  seat,        \* their affiliate: status and sponsor
  holding,     \* persons with an active holding or a balance
  banned,      \* mlm.blacklist
  referral,    \* payments.registration_referral, by e-mail
  intents,     \* purchase intents: the payer's mail and person, the sponsor
  rowLock,        \* who holds the row of a person
  request      \* the handlers

memberVars == <<person, fields, onboarded, seat, holding, banned, referral, intents, rowLock, request>>

Blank == [f \in Fields |-> Nobody]
NoNode == [status |-> "none", sponsor |-> Nobody]
NoReferral == [sponsor |-> Nobody, source |-> "none", state |-> "none"]
NoRequest ==
  [pc |-> "idle", kind |-> "", mail |-> Nobody, who |-> Nobody, patch |-> <<>>, to |-> Nobody,
   sponsor |-> Nobody, seated |-> FALSE, hint |-> NoReferral]

Statuses == {"active", "suspended", "deleted"}

MembersTypeOK ==
  /\ \A p \in Persons :
       /\ person[p].mail \in Addresses \cup {Nobody} /\ person[p].status \in Statuses
       /\ person[p].flagged \in BOOLEAN /\ person[p].admin \in BOOLEAN
       /\ seat[p].status \in Statuses \cup {"none"} /\ seat[p].sponsor \in Persons \cup {Nobody}
  /\ fields \in [Persons -> [Fields -> Texts \cup {Nobody}]]
  /\ onboarded \subseteq Persons /\ holding \subseteq Persons
  /\ banned \subseteq ({"mail"} \X Addresses) \cup ({"name", "phone"} \X Texts)
  /\ \A e \in Addresses :
       /\ referral[e].sponsor \in Persons \cup {Nobody}
       /\ referral[e].source \in {"none", "register", "verified_login", "admin_tree_relocation"}
       /\ referral[e].state \in {"none", "fresh", "old", "consumed"}
  /\ rowLock \in [Persons -> Requests \cup {Nobody}]

-----------------------------------------------------------------------------
(* Reading                                                                 *)

Exists(p) == person[p].mail # Nobody
PersonsAt(e) == {p \in Persons : person[p].mail = e /\ e # Nobody}
Seated(p) == seat[p].status # "none"

\* A row of the blacklist that matches a person.
Vetoed(p) ==
  \/ <<"mail", person[p].mail>> \in banned
  \/ \E f \in {"name", "phone"} : <<f, fields[p][f]>> \in banned

\* banDecisionFor: the mail, and the account it belongs to.
Blocked(e) ==
  \/ <<"mail", e>> \in banned
  \/ \E p \in PersonsAt(e) : \/ person[p].flagged \/ person[p].status # "active"
                      \/ seat[p].status \in {"suspended", "deleted"} \/ Vetoed(p)

\* placementSponsorEligibilitySQL
Eligible(p) ==
  /\ seat[p].status = "active" /\ person[p].status = "active"
  /\ ~person[p].flagged /\ ~Vetoed(p)

Fresh(e) == referral[e].state = "fresh"

\* resolveNOWBuyer: the login is bound to the person, whose mail is still the login's.
Bound(p) == Exists(p) /\ LoginMail[p] # Nobody /\ person[p].mail = LoginMail[p]

\* hint is the attribution that has stood since a request began.
Stands(r, pc) == request[r].pc = pc
Leave(r) == request' = [request EXCEPT ![r] = NoRequest]
Moves(r, pc) == request' = [request EXCEPT ![r].pc = pc]
Unlocked(p) == rowLock[p] = Nobody

MembersInit ==
  /\ person \in [Persons -> [mail : Addresses \cup {Nobody}, status : {"active"}, flagged : {FALSE}, admin : {FALSE}]]
  /\ \A p, q \in Persons : Exists(p) /\ person[p].mail = person[q].mail => p = q
  /\ \A p \in Persons : Exists(p) <=> LoginMail[p] # Nobody
  /\ \A p \in Persons : Exists(p) => Bound(p)
  /\ fields \in [Persons -> [Fields -> {Nobody}]]
  /\ seat \in [Persons -> {NoNode, [status |-> "active", sponsor |-> Founder]}]
  /\ \A p \in Persons : seat[p].status = "active" => Exists(p)
  /\ seat[Founder].status = "active"
  /\ holding = {} /\ onboarded = {}
  /\ banned \in SUBSET (({"mail"} \X Addresses) \cup ({"name", "phone"} \X Texts))
  /\ referral = [e \in Addresses |-> NoReferral] /\ intents = {}
  /\ rowLock = [p \in Persons |-> Nobody] /\ request = [r \in Requests |-> NoRequest]

-----------------------------------------------------------------------------
(* A member's own requests: profile, onboarding, checkout                  *)

\* rejectIfSuspended or rejectIfBanned, and a well-formed body.
MemberAsks(r, kind, e, patch, to) ==
  /\ Stands(r, "idle") /\ ~Blocked(e)
  /\ request' = [request EXCEPT ![r] =
       [NoRequest EXCEPT !.pc = "find", !.kind = kind, !.mail = e, !.patch = patch, !.to = to,
                         !.hint = IF Fresh(e) THEN referral[e] ELSE NoReferral]]
  /\ UNCHANGED <<person, fields, onboarded, seat, holding, banned, referral, intents, rowLock>>

MembersSame == UNCHANGED <<onboarded, seat, holding, banned, referral, rowLock>>

After(kind) == IF kind = "checkout" THEN "resolve" ELSE "write"

\* EnsurePerson finds the person ...
FindPerson(r) ==
  /\ Stands(r, "find")
  /\ Moves(r, IF PersonsAt(request[r].mail) = {} THEN "insert" ELSE After(request[r].kind))
  /\ MembersSame /\ UNCHANGED <<person, fields, intents>>

\* ... or inserts it; the mail is unique, and whoever comes second leaves the row alone.
InsertPerson(r) ==
  LET e == request[r].mail  patch == request[r].patch IN
  /\ Stands(r, "insert")
  /\ IF PersonsAt(e) # {} THEN UNCHANGED <<person, fields>>
     ELSE \E p \in Persons :
            /\ ~Exists(p)
            /\ person' = [person EXCEPT ![p] = [mail |-> e, status |-> "active", flagged |-> FALSE, admin |-> FALSE]]
            /\ fields' = [fields EXCEPT ![p] = [f \in Fields |->
                 IF f \in DOMAIN patch \ {"wallet"} THEN patch[f] ELSE Nobody]]
  /\ Moves(r, After(request[r].kind))
  /\ MembersSame /\ UNCHANGED intents

\* Bug: the whole row is written, what the request does not carry as empty.
BugMerged(row, patch) == [f \in Fields |-> IF f \in DOMAIN patch THEN patch[f] ELSE Nobody]
\* COALESCE: what the request does not carry is left alone.
Merged(row, patch) == [f \in Fields |-> IF f \in DOMAIN patch THEN patch[f] ELSE row[f]]

\* updateMemberProfile, or SaveMemberOnboarding with the private profile.
WriteFields(r) ==
  LET found == PersonsAt(request[r].mail) IN
  /\ Stands(r, "write") /\ \A p \in found : Unlocked(p)
  /\ fields' = [p \in Persons |-> IF p \in found THEN Merged(fields[p], request[r].patch) ELSE fields[p]]
  /\ onboarded' = IF request[r].kind = "onboarding" THEN onboarded \cup found ELSE onboarded
  /\ Leave(r)
  /\ UNCHANGED <<person, seat, holding, banned, referral, intents, rowLock>>

\* ResolveBuyer: the person, and its affiliate's sponsor.
ResolveBuyer(r) ==
  /\ Stands(r, "resolve")
  /\ IF PersonsAt(request[r].mail) = {} THEN Leave(r)
     ELSE \E p \in PersonsAt(request[r].mail) :
            request' = [request EXCEPT ![r].pc = "sponsor", ![r].who = p, ![r].seated = Seated(p),
                                       ![r].sponsor = seat[p].sponsor]
  /\ MembersSame /\ UNCHANGED <<person, fields, intents>>

\* Bug: an attribution whose sponsor is not eligible is treated as if there were none.
BugAttributed(e) == Fresh(e) /\ Eligible(referral[e].sponsor)
\* The attribution that decides, eligible or not.
Attributed(e) == Fresh(e)

\* resolveCheckoutPlacement: the affiliate's sponsor, the attribution, the link of the
\* request, the company's root; a sponsor that is not eligible refuses the checkout.
CheckoutSponsor(r) ==
  LET e == request[r].mail  to == request[r].to
      chosen == IF request[r].seated THEN request[r].sponsor
                ELSE IF Attributed(e) THEN referral[e].sponsor ELSE to
  IN
  /\ Stands(r, "sponsor")
  /\ IF ~request[r].seated /\ chosen # Nobody /\ ~Eligible(chosen) THEN Leave(r)
     ELSE request' = [request EXCEPT ![r].pc = "intent",
                                     ![r].sponsor = IF chosen = Nobody THEN Founder ELSE chosen]
  /\ MembersSame /\ UNCHANGED <<person, fields, intents>>

\* CreatePurchaseIntent, under the lock of the person.
CreateIntent(r) ==
  LET q == request[r] IN
  /\ Stands(r, "intent") /\ Unlocked(q.who)
  /\ intents' = intents \cup
       {[mail |-> q.mail, who |-> q.who, sponsor |-> q.sponsor, seated |-> q.seated, hint |-> q.hint]}
  /\ Leave(r)
  /\ MembersSame /\ UNCHANGED <<person, fields>>

\* Any statement may fail, and the service may stop.
RequestFails(r) ==
  /\ ~Stands(r, "idle")
  /\ Leave(r)
  /\ rowLock' = [p \in Persons |-> IF rowLock[p] = r THEN Nobody ELSE rowLock[p]]
  /\ UNCHANGED <<person, fields, onboarded, seat, holding, banned, referral, intents>>

-----------------------------------------------------------------------------
(* Who attributes a member to a sponsor                                    *)

\* A row of registration_referral is written (and no attribution stands any more).
Attribute(e, row, r) ==
  /\ referral' = [referral EXCEPT ![e] = row]
  /\ request' = [x \in Requests |->
       IF x = r THEN NoRequest
       ELSE IF request[x].mail = e THEN [request[x] EXCEPT !.hint = NoReferral] ELSE request[x]]

\* handleRegistrationReferralAttribution: ResolveSponsorByCode, then the upsert.
RegisterStart(r, e, to) ==
  /\ Stands(r, "idle") /\ ~Blocked(e) /\ Eligible(to)
  /\ request' = [request EXCEPT ![r] = [NoRequest EXCEPT !.pc = "record", !.kind = "register", !.mail = e, !.to = to]]
  /\ MembersSame /\ UNCHANGED <<person, fields, intents>>

RecordReferral(r) ==
  /\ Stands(r, "record")
  /\ Attribute(request[r].mail, [sponsor |-> request[r].to, source |-> "register", state |-> "fresh"], r)
  /\ UNCHANGED <<person, fields, onboarded, seat, holding, banned, intents, rowLock>>

\* VerifiedRegistrationReferral before its function.
VerifiedStart(r, p, to) ==
  /\ Stands(r, "idle") /\ Bound(p) /\ ~Blocked(LoginMail[p])
  /\ request' = [request EXCEPT ![r] =
       [NoRequest EXCEPT !.pc = "owner", !.kind = "verified", !.mail = LoginMail[p], !.who = p, !.to = to]]
  /\ MembersSame /\ UNCHANGED <<person, fields, intents>>

\* The function's first statement: the owner as it is now.
VerifiedOwner(r) ==
  LET p == request[r].who IN
  /\ Stands(r, "owner")
  /\ IF Bound(p) THEN request' = [request EXCEPT ![r].pc = "locked", ![r].seated = Seated(p)] ELSE Leave(r)
  /\ MembersSame /\ UNCHANGED <<person, fields, intents>>

\* Bug: the affiliate is looked up before the row is locked.
BugMayAttribute(r) == Bound(request[r].who) /\ ~request[r].seated
\* What the function reads again under the lock: the owner, and that it has no affiliate.
MayAttribute(r) == Bound(request[r].who) /\ ~Seated(request[r].who)

\* The rest of the function, once the row is its own.
VerifiedReferral(r) ==
  LET p == request[r].who  e == request[r].mail  to == request[r].to IN
  /\ Stands(r, "locked") /\ Unlocked(p)
  /\ IF MayAttribute(r) /\ ~person[p].flagged /\ person[p].status = "active" /\ ~Vetoed(p) /\ Eligible(to)
     THEN Attribute(e, [sponsor |-> to, source |-> "verified_login", state |-> "fresh"], r)
     ELSE Leave(r) /\ UNCHANGED referral
  /\ UNCHANGED <<person, fields, onboarded, seat, holding, banned, intents, rowLock>>

\* Thirty days without a new attribution.
ReferralAges(e) ==
  /\ Fresh(e)
  /\ Attribute(e, [referral[e] EXCEPT !.state = "old"], Nobody)
  /\ UNCHANGED <<person, fields, onboarded, seat, holding, banned, intents, rowLock>>

-----------------------------------------------------------------------------
(* Activation and relocation, as far as they touch a person                *)

\* ActivatePaidPurchase locks the buyer ...
PlaceLock(r, i) ==
  /\ Stands(r, "idle") /\ Unlocked(i.who)
  /\ rowLock' = [rowLock EXCEPT ![i.who] = r]
  /\ request' = [request EXCEPT ![r] = [NoRequest EXCEPT !.pc = "place", !.kind = "activate", !.who = i.who, !.to = i.sponsor]]
  /\ UNCHANGED <<person, fields, onboarded, seat, holding, banned, referral, intents>>

\* ... and places it under the intent's sponsor, unless it is barred, placed or the sponsor is not eligible.
PlaceCommit(r) ==
  LET p == request[r].who  to == request[r].to IN
  /\ Stands(r, "place")
  /\ IF Blocked(person[p].mail) \/ (~Seated(p) /\ ~Eligible(to)) THEN UNCHANGED <<seat, holding>>
     ELSE /\ seat' = IF Seated(p) THEN seat ELSE [seat EXCEPT ![p] = [status |-> "active", sponsor |-> to]]
          /\ holding' = holding \cup {p}
  /\ rowLock' = [rowLock EXCEPT ![p] = Nobody]
  /\ Leave(r)
  /\ UNCHANGED <<person, fields, onboarded, banned, referral, intents>>

\* updateAdminTreeReferralAttribution: the intents and the attribution follow the move.
Relocated(p, to) ==
  /\ Seated(p) /\ p \notin {to, Founder} /\ Eligible(to)
  /\ seat' = [seat EXCEPT ![p].sponsor = to]
  /\ intents' = {IF i.who = p THEN [i EXCEPT !.sponsor = to, !.hint = NoReferral] ELSE i : i \in intents}
  /\ Attribute(person[p].mail, [sponsor |-> to, source |-> "admin_tree_relocation", state |-> "consumed"], Nobody)
  /\ UNCHANGED <<person, fields, onboarded, holding, banned, rowLock>>

-----------------------------------------------------------------------------
(* Administrators                                                          *)

\* EmailTakenByOther does not count the deleted.
MailTaken(e, p) == \E q \in PersonsAt(e) \ {p} : person[q].status # "deleted"

\* handleAdminUserUpdate up to the transaction; to is the new mail, or Nobody.
EditStart(r, p, patch, to) ==
  /\ Stands(r, "idle") /\ Exists(p) /\ (to # Nobody => ~MailTaken(to, p))
  /\ request' = [request EXCEPT ![r] =
       [NoRequest EXCEPT !.pc = "lock", !.kind = "edit", !.who = p, !.patch = patch, !.to = to]]
  /\ MembersSame /\ UNCHANGED <<person, fields, intents>>

\* UpdatePersonIdentity: SELECT ... FOR UPDATE ...
EditLock(r) ==
  LET p == request[r].who IN
  /\ Stands(r, "lock") /\ Unlocked(p)
  /\ rowLock' = [rowLock EXCEPT ![p] = r]
  /\ Moves(r, "edit")
  /\ UNCHANGED <<person, fields, onboarded, seat, holding, banned, referral, intents>>

\* ... and the update, which fails on a mail that is taken by now, with the intents.
EditCommit(r) ==
  LET p == request[r].who  to == request[r].to  before == person[p].mail
      renamed == to # Nobody /\ to # before
  IN
  /\ Stands(r, "edit")
  /\ IF renamed /\ PersonsAt(to) # {} THEN UNCHANGED <<person, fields, intents>>
     ELSE /\ person' = IF renamed THEN [person EXCEPT ![p].mail = to] ELSE person
          /\ fields' = [fields EXCEPT ![p] = Merged(@, request[r].patch)]
          /\ intents' = IF renamed THEN {IF i.who = p THEN [i EXCEPT !.mail = to] ELSE i : i \in intents} ELSE intents
  /\ rowLock' = [rowLock EXCEPT ![p] = Nobody]
  /\ Leave(r)
  /\ UNCHANGED <<onboarded, seat, holding, banned, referral>>

\* handleAdminUserDelete: the guards are read first ...
DeleteStart(r, p) ==
  /\ Stands(r, "idle") /\ Exists(p) /\ ~person[p].admin /\ p \notin holding
  /\ request' = [request EXCEPT ![r] = [NoRequest EXCEPT !.pc = "delete", !.kind = "delete", !.who = p]]
  /\ MembersSame /\ UNCHANGED <<person, fields, intents>>

\* ... then SoftDeletePerson.  Cognito is told afterwards, if it answers.
SoftDelete(r) ==
  LET p == request[r].who IN
  /\ Stands(r, "delete") /\ Unlocked(p)
  /\ person' = [person EXCEPT ![p].status = "deleted"]
  /\ seat' = IF Seated(p) THEN [seat EXCEPT ![p].status = "deleted"] ELSE seat
  /\ Leave(r)
  /\ UNCHANGED <<fields, onboarded, holding, banned, referral, intents, rowLock>>

\* SetBlocked writes both states, whatever they were.
SetBlocked(p, blocked) ==
  LET status == IF blocked THEN "suspended" ELSE "active" IN
  /\ Exists(p) /\ Unlocked(p)
  /\ person' = [person EXCEPT ![p].flagged = blocked, ![p].status = status]
  /\ seat' = IF Seated(p) THEN [seat EXCEPT ![p].status = status] ELSE seat
  /\ UNCHANGED <<fields, onboarded, holding, banned, referral, intents, rowLock, request>>

SetAdminFlag(p, grant) ==
  /\ Exists(p) /\ Unlocked(p) /\ p # Founder
  /\ person' = [person EXCEPT ![p].admin = grant]
  /\ UNCHANGED <<fields, onboarded, seat, holding, banned, referral, intents, rowLock, request>>

\* AddBlacklist takes an e-mail only; RemoveBlacklistByID takes any row away.
AddBlacklist(e) ==
  /\ banned' = banned \cup {<<"mail", e>>}
  /\ UNCHANGED <<person, fields, onboarded, seat, holding, referral, intents, rowLock, request>>

RemoveBlacklist ==
  /\ \E row \in banned : banned' = banned \ {row}
  /\ UNCHANGED <<person, fields, onboarded, seat, holding, referral, intents, rowLock, request>>

-----------------------------------------------------------------------------

RequestStep(r) ==
  \/ FindPerson(r) \/ InsertPerson(r) \/ WriteFields(r)
  \/ ResolveBuyer(r) \/ CheckoutSponsor(r) \/ CreateIntent(r)
  \/ RecordReferral(r) \/ VerifiedOwner(r) \/ VerifiedReferral(r)
  \/ PlaceCommit(r) \/ EditLock(r) \/ EditCommit(r) \/ SoftDelete(r)
  \/ RequestFails(r)

MembersNext ==
  \/ \E r \in Requests, e \in Addresses, patch \in Patches :
       \/ DOMAIN patch # {} /\ MemberAsks(r, "profile", e, patch, Nobody)
       \/ DOMAIN patch = {"name", "phone"} /\ MemberAsks(r, "onboarding", e, patch, Nobody)
  \/ \E r \in Requests, e \in Addresses, to \in Persons \cup {Nobody} : MemberAsks(r, "checkout", e, <<>>, to)
  \/ \E r \in Requests, e \in Addresses, to \in Persons : RegisterStart(r, e, to)
  \/ \E r \in Requests, p \in Persons, to \in Persons : VerifiedStart(r, p, to)
  \/ \E r \in Requests, i \in intents : PlaceLock(r, i)
  \/ \E r \in Requests, p \in Persons, patch \in Patches, to \in Addresses \cup {Nobody} :
       "wallet" \notin DOMAIN patch /\ (DOMAIN patch # {} \/ to # Nobody) /\ EditStart(r, p, patch, to)
  \/ \E r \in Requests, p \in Persons : DeleteStart(r, p)
  \/ \E r \in Requests : RequestStep(r)
  \/ \E e \in Addresses : ReferralAges(e) \/ AddBlacklist(e)
  \/ RemoveBlacklist
  \/ \E p, to \in Persons : Relocated(p, to)
  \/ \E p \in Persons, b \in BOOLEAN : SetBlocked(p, b) \/ SetAdminFlag(p, b)

MembersSpec == MembersInit /\ [][MembersNext]_memberVars

-----------------------------------------------------------------------------
(* Properties                                                              *)

(***************************************************************************)
(* A checkout never replaces a member's attribution silently: one that has *)
(* stood since the checkout began decides the sponsor, or the checkout is  *)
(* refused (registration_referral.go:63, http_checkout.go:272).            *)
(***************************************************************************)
NoSilentSponsor ==
  \A i \in intents : i.hint # NoReferral /\ ~i.seated => i.sponsor = i.hint.sponsor

(***************************************************************************)
(* A verified link is recorded only for a person that has no affiliate and *)
(* still has the mail it is recorded under, however a placement or an edit *)
(* of the person races it (verified_registration_referral.go:68).          *)
(***************************************************************************)
LinkOnlyBeforePlacement ==
  [][\A e \in Addresses :
       referral'[e] # referral[e] /\ referral'[e].source = "verified_login" /\ referral'[e].state = "fresh" =>
         \E p \in Persons : LoginMail[p] = e /\ person[p].mail = e /\ ~Seated(p)]_memberVars

(***************************************************************************)
(* A field of a member changes only to what the request that writes it     *)
(* carries: profile, onboarding and administrator do not erase what the    *)
(* others wrote (profile.go:66).                                           *)
(***************************************************************************)
NobodyErases ==
  [][\A p \in Persons, f \in Fields :
       fields'[p][f] # fields[p][f] =>
         \E r \in Requests : /\ request[r].pc \in {"insert", "write", "edit"} /\ request'[r] # request[r]
                             /\ f \in DOMAIN request[r].patch
                             /\ fields'[p][f] = request[r].patch[f]]_memberVars
=============================================================================
