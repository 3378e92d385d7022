-------------------------------- MODULE Kyc --------------------------------
(***************************************************************************)
(* The identity documents of the members (internal/payments/kyc.go and     *)
(* kycocr.go): a document is registered, uploaded to S3 with a presigned   *)
(* URL, confirmed, and then read by a vision model in a goroutine.  A      *)
(* sweep takes up what a failure or a restart left pending and gives up    *)
(* after a while.                                                          *)
(*                                                                         *)
(* Time is the age of what the code compares with now(): ages grow with    *)
(* Ages and stop at the age the code no longer tells apart.  A unit is the *)
(* 70 seconds a run may take; the context kills a run that is older.       *)
(***************************************************************************)
EXTENDS Integers, Sequences, FiniteSets

CONSTANTS
  KycPeople,    \* members
  Docs,         \* documents that may be registered
  DocOwner,     \* whose each of them is
  DocType,      \* its declared type
  Names,        \* names a profile may have: [first, last]
  Readings,     \* what the model may read in an object
  Boxes,        \* processes of the service
  Confirmers,   \* handlers of confirmations
  OCREnabled,   \* whether an API key is configured
  RunTime, MinAge, MaxAge, SweepLimit,
  NoDoc

DocTypes == {"passport", "identity_card", "proof_address", "selfie"}

ASSUME KycAssumption ==
  /\ DocOwner \in [Docs -> KycPeople] /\ DocType \in [Docs -> DocTypes]
  /\ OCREnabled \in BOOLEAN /\ NoDoc \notin Docs /\ Docs \cap Boxes = {}
  /\ RunTime \in Nat \ {0} /\ MinAge \in Nat /\ MaxAge \in Nat /\ SweepLimit \in Nat \ {0}
  /\ MinAge < MaxAge

VARIABLES
  docs,      \* kyc_document: status, ocr_status, the ages of created_at and updated_at
  objects,   \* the documents whose object is in S3
  urls,      \* the documents whose presigned URL the member was given
  kyc,       \* person.kyc_status
  profile,   \* the name in mlm.person
  barred,    \* suspended members
  runs,      \* runDocOCR: the goroutine of a document, and the one of each box's sweep
  sweep,     \* what the sweep of a box still has to read
  confirms   \* handleKYCConfirm at work

kycVars == <<docs, objects, urls, kyc, profile, barred, runs, sweep, confirms>>

Tasks == Docs \cup Boxes
NoRow == [status |-> "none", ocr |-> "skipped", created |-> 0, updated |-> 0]
NoRun == [pc |-> "idle", doc |-> NoDoc, box |-> NoDoc, name |-> [first |-> <<>>, last |-> <<>>], decision |-> "", age |-> 0]
NoConfirm == [pc |-> "idle", doc |-> NoDoc, box |-> NoDoc]
NoSweep == [pc |-> "rest", todo |-> {}]

DocRows == [status : {"none", "pending_upload", "in_review", "approved", "rejected"},
            ocr : {"skipped", "pending", "passed", "failed", "error"},
            created : 0..MaxAge, updated : 0..MinAge + 1]
RunRows == [pc : {"idle", "load", "analyze", "finish", "touch"}, doc : Docs \cup {NoDoc},
            box : Boxes \cup {NoDoc}, name : Names \cup {NoRun.name},
            decision : {"", "approved", "rejected"}, age : 0..RunTime]
SweepRows == [pc : {"rest", "list", "run"}, todo : SUBSET Docs]
ConfirmRows == [pc : {"idle", "commit", "mark"}, doc : Docs \cup {NoDoc}, box : Boxes \cup {NoDoc}]

KycTypeOK ==
  /\ docs \in [Docs -> DocRows] /\ runs \in [Tasks -> RunRows]
  /\ sweep \in [Boxes -> SweepRows] /\ confirms \in [Confirmers -> ConfirmRows]
  /\ objects \subseteq urls /\ urls \subseteq Docs /\ barred \subseteq KycPeople
  /\ kyc \in [KycPeople -> {"none", "not_started", "in_review", "approved", "rejected", "expired"}]
  /\ profile \in [KycPeople -> Names]

KycInit ==
  /\ docs = [d \in Docs |-> NoRow] /\ objects = {} /\ urls = {}
  /\ kyc = [p \in KycPeople |-> "none"] /\ profile \in [KycPeople -> Names] /\ barred = {}
  /\ runs = [r \in Tasks |-> NoRun] /\ sweep = [b \in Boxes |-> NoSweep]
  /\ confirms = [h \in Confirmers |-> NoConfirm]

-----------------------------------------------------------------------------
(* The rules for what the model reads                                      *)

\* Names are sequences of letters and spaces, as normalizeName leaves them.
Occurs(t, s) == \E i \in 0..Len(s) - Len(t) : SubSeq(s, i + 1, i + Len(t)) = t

\* firstToken
FirstToken(s) ==
  SubSeq(s, 1, CHOOSE i \in 0..Len(s) : (i = Len(s) \/ s[i + 1] = " ") /\ \A j \in 1..i : s[j] # " ")

\* nameMatches: the last name, and the first word of the first name.
NameMatches(name, r) ==
  LET gap == IF r.given = <<>> \/ r.surname = <<>> THEN <<>> ELSE <<" ">>
      full == r.given \o gap \o r.surname
  IN
  /\ Occurs(name.last, r.surname) \/ Occurs(name.last, full)
  /\ Occurs(FirstToken(name.first), r.given) \/ Occurs(FirstToken(name.first), full)

\* evalIDDoc
ValidID(r, name) ==
  /\ r.expiry = "future"
  /\ name # [first |-> <<>>, last |-> <<>>]
  /\ NameMatches(name, r)

\* Only these types move the member's own status.
PrimaryIDDoc(type) == type \in {"passport", "identity_card"}

\* evaluateDoc
Evaluate(type, r, name) ==
  IF /\ r.readable
     /\ \/ type = "passport" /\ r.kind = "passport"
        \/ type = "identity_card" /\ r.kind \in {"national_id", "drivers_license", "passport"}
        \/ type = "proof_address" /\ r.kind = "address_proof" /\ r.address
        \/ type = "selfie" /\ r.holding
     /\ PrimaryIDDoc(type) => ValidID(r, name)
  THEN "approved" ELSE "rejected"

-----------------------------------------------------------------------------
(* The member: register, upload, confirm                                   *)

\* handleKYCUploadURL.  The row stays when the URL cannot be signed.
UploadURL(d) ==
  /\ docs[d].status = "none" /\ DocOwner[d] \notin barred
  /\ docs' = [docs EXCEPT ![d].status = "pending_upload"]
  /\ kyc' = [kyc EXCEPT ![DocOwner[d]] = IF @ = "none" THEN "not_started" ELSE @]
  /\ urls' \in {urls, urls \cup {d}}
  /\ UNCHANGED <<objects, profile, barred, runs, sweep, confirms>>

\* The member puts the object, outside the service.
PutObject(d) ==
  /\ d \in urls \ objects
  /\ objects' = objects \cup {d}
  /\ UNCHANGED <<docs, urls, kyc, profile, barred, runs, sweep, confirms>>

\* handleKYCConfirm up to the size of the object.
ConfirmCheck(h, b, d) ==
  /\ confirms[h].pc = "idle" /\ DocOwner[d] \notin barred
  /\ docs[d].status = "pending_upload" /\ d \in objects
  /\ confirms' = [confirms EXCEPT ![h] = [pc |-> "commit", doc |-> d, box |-> b]]
  /\ UNCHANGED <<docs, objects, urls, kyc, profile, barred, runs, sweep>>

\* ConfirmKYCDocument: the update has the status in its condition.
ConfirmCommit(h) ==
  LET d == confirms[h].doc  p == DocOwner[d] IN
  /\ confirms[h].pc = "commit"
  /\ IF docs[d].status = "pending_upload"
     THEN /\ docs' = [docs EXCEPT ![d].status = "in_review", ![d].updated = 0]
          /\ kyc' = [kyc EXCEPT ![p] = IF @ \in {"not_started", "rejected", "expired"} THEN "in_review" ELSE @]
          /\ confirms' = [confirms EXCEPT ![h].pc = "mark"]
     ELSE /\ confirms' = [confirms EXCEPT ![h] = NoConfirm]
          /\ UNCHANGED <<docs, kyc>>
  /\ UNCHANGED <<objects, urls, profile, barred, runs, sweep>>

\* maybeStartDocOCR: mark the document and start the goroutine.
MarkPending(h) ==
  LET d == confirms[h].doc
      marked == OCREnabled /\ docs[d].status = "in_review" /\ docs[d].ocr = "skipped"
  IN
  /\ confirms[h].pc = "mark"
  /\ docs' = IF marked THEN [docs EXCEPT ![d].ocr = "pending", ![d].updated = 0] ELSE docs
  /\ runs' = IF marked THEN [runs EXCEPT ![d] = [NoRun EXCEPT !.pc = "load", !.doc = d, !.box = confirms[h].box]] ELSE runs
  /\ confirms' = [confirms EXCEPT ![h] = NoConfirm]
  /\ UNCHANGED <<objects, urls, kyc, profile, barred, sweep>>

\* An error of the database before the commit, or when marking: nobody marks it later.
ConfirmFails(h) ==
  /\ confirms[h].pc # "idle"
  /\ confirms' = [confirms EXCEPT ![h] = NoConfirm]
  /\ UNCHANGED <<docs, objects, urls, kyc, profile, barred, runs, sweep>>

-----------------------------------------------------------------------------
(* runDocOCR                                                               *)

KycSame == UNCHANGED <<docs, objects, urls, kyc, profile, barred, sweep, confirms>>

\* KYCDocForOCR: the type and the name as they are now.
LoadDoc(r) ==
  /\ runs[r].pc = "load"
  /\ runs' = [runs EXCEPT ![r].pc = "analyze", ![r].name = profile[DocOwner[runs[r].doc]]]
  /\ KycSame

\* GetObject and Analyze; the rules are applied to what the model answers.
Analyze(r) ==
  LET d == runs[r].doc IN
  /\ runs[r].pc = "analyze"
  /\ \E x \in Readings :
       runs' = [runs EXCEPT ![r].pc = "finish", ![r].decision = Evaluate(DocType[d], x, runs[r].name)]
  /\ KycSame

\* A technical failure of either leads to TouchKYCOCRPending.
ReadFails(r) ==
  /\ runs[r].pc \in {"load", "analyze"}
  /\ runs' = [runs EXCEPT ![r].pc = "touch"]
  /\ KycSame

TouchPending(r) ==
  LET d == runs[r].doc IN
  /\ runs[r].pc = "touch"
  /\ docs' = IF docs[d].ocr = "pending" THEN [docs EXCEPT ![d].updated = 0] ELSE docs
  /\ runs' = [runs EXCEPT ![r] = NoRun]
  /\ UNCHANGED <<objects, urls, kyc, profile, barred, sweep, confirms>>

\* FinishKYCOCR: the row is written whatever its status has become.
FinishOCR(r) ==
  LET d == runs[r].doc  p == DocOwner[d]  ok == runs[r].decision = "approved" IN
  /\ runs[r].pc = "finish"
  /\ docs' = [docs EXCEPT ![d] = [@ EXCEPT !.status = runs[r].decision,
                !.ocr = IF ok THEN "passed" ELSE "failed", !.updated = 0]]
  /\ kyc' = [kyc EXCEPT ![p] = IF PrimaryIDDoc(DocType[d]) /\ @ # "approved" THEN runs[r].decision ELSE @]
  /\ runs' = [runs EXCEPT ![r] = NoRun]
  /\ UNCHANGED <<objects, urls, profile, barred, sweep, confirms>>

\* The context expired or the last statement failed.
RunEnds(r) ==
  /\ runs[r].pc # "idle"
  /\ runs' = [runs EXCEPT ![r] = NoRun]
  /\ KycSame

-----------------------------------------------------------------------------
(* RunKYCOCRSweep                                                          *)

\* Bug: it looks for the documents whose reading ended in an error.
BugStale(d) == docs[d].ocr = "error" /\ docs[d].created = MaxAge
\* What the give-up updates, and what the list of a sweep may return.
Stale(d) == docs[d].ocr = "pending" /\ docs[d].created = MaxAge

\* Bug: a retry does not wait for the first run to be over.
BugRetryable(d) == docs[d].ocr = "pending" /\ docs[d].created < MaxAge

Retryable(d) == docs[d].ocr = "pending" /\ docs[d].updated > MinAge /\ docs[d].created < MaxAge

\* GiveUpStaleKYCOCR.  The person is left alone.
GiveUpStale(b) ==
  /\ OCREnabled /\ sweep[b].pc = "rest"
  /\ docs' = [d \in Docs |-> IF Stale(d) THEN [docs[d] EXCEPT !.status = "rejected", !.ocr = "error", !.updated = 0]
                             ELSE docs[d]]
  /\ sweep' = [sweep EXCEPT ![b].pc = "list"]
  /\ UNCHANGED <<objects, urls, kyc, profile, barred, runs, confirms>>

\* PendingKYCOCRDocs: the oldest of the recent ones.
SweepLists(b) ==
  LET recent == {d \in Docs : Retryable(d)} IN
  /\ sweep[b].pc = "list"
  /\ \E s \in SUBSET recent :
       /\ \/ Cardinality(s) = SweepLimit
          \/ s = recent /\ Cardinality(s) < SweepLimit
       /\ \A d \in s, e \in recent \ s : docs[d].created >= docs[e].created
       /\ sweep' = [sweep EXCEPT ![b] = [pc |-> "run", todo |-> s]]
  /\ UNCHANGED <<docs, objects, urls, kyc, profile, barred, runs, confirms>>

\* One after the other, in the goroutine of the sweep.
SweepNext(b) ==
  /\ sweep[b].pc = "run" /\ runs[b].pc = "idle"
  /\ IF sweep[b].todo = {}
     THEN sweep' = [sweep EXCEPT ![b] = NoSweep] /\ UNCHANGED runs
     ELSE \E d \in sweep[b].todo :
            /\ sweep' = [sweep EXCEPT ![b].todo = @ \ {d}]
            /\ runs' = [runs EXCEPT ![b] = [NoRun EXCEPT !.pc = "load", !.doc = d, !.box = b]]
  /\ UNCHANGED <<docs, objects, urls, kyc, profile, barred, confirms>>

-----------------------------------------------------------------------------
(* Time, restarts, and the rest of the service                             *)

Older(age, limit) == IF age < limit THEN age + 1 ELSE age

Ages ==
  /\ \A r \in Tasks : runs[r].pc # "idle" => runs[r].age < RunTime
  /\ docs' = [d \in Docs |-> IF docs[d].status = "none" THEN docs[d]
                ELSE [docs[d] EXCEPT !.created = Older(@, MaxAge), !.updated = Older(@, MinAge + 1)]]
  /\ runs' = [r \in Tasks |-> IF runs[r].pc = "idle" THEN runs[r] ELSE [runs[r] EXCEPT !.age = @ + 1]]
  /\ UNCHANGED <<objects, urls, kyc, profile, barred, sweep, confirms>>

\* A box is restarted, with everything it was doing.
Restart(b) ==
  /\ runs' = [r \in Tasks |-> IF runs[r].box = b THEN NoRun ELSE runs[r]]
  /\ sweep' = [sweep EXCEPT ![b] = NoSweep]
  /\ confirms' = [h \in Confirmers |-> IF confirms[h].box = b THEN NoConfirm ELSE confirms[h]]
  /\ UNCHANGED <<docs, objects, urls, kyc, profile, barred>>

\* UpdatePersonIdentity, by an administrator.
Rename(p) ==
  /\ \E n \in Names : profile' = [profile EXCEPT ![p] = n]
  /\ UNCHANGED <<docs, objects, urls, kyc, barred, runs, sweep, confirms>>

Bar(p) ==
  /\ barred' = barred \cup {p}
  /\ UNCHANGED <<docs, objects, urls, kyc, profile, runs, sweep, confirms>>

RunStep(r) == LoadDoc(r) \/ Analyze(r) \/ ReadFails(r) \/ TouchPending(r) \/ FinishOCR(r) \/ RunEnds(r)
SweepStep(b) == GiveUpStale(b) \/ SweepLists(b) \/ SweepNext(b)

KycNext ==
  \/ \E d \in Docs : UploadURL(d) \/ PutObject(d)
  \/ \E h \in Confirmers, b \in Boxes, d \in Docs : ConfirmCheck(h, b, d)
  \/ \E h \in Confirmers : ConfirmCommit(h) \/ MarkPending(h) \/ ConfirmFails(h)
  \/ \E r \in Tasks : RunStep(r)
  \/ \E b \in Boxes : SweepStep(b) \/ Restart(b)
  \/ Ages
  \/ \E p \in KycPeople : Rename(p) \/ Bar(p)

\* Goroutines are scheduled, the ticker of the sweep returns, and time passes.
KycFairness ==
  /\ \A r \in Tasks : WF_kycVars(RunStep(r))
  /\ \A b \in Boxes : WF_kycVars(SweepStep(b))
  /\ WF_kycVars(Ages)

KycSpec == KycInit /\ [][KycNext]_kycVars

-----------------------------------------------------------------------------
(* Properties                                                              *)

(***************************************************************************)
(* A member is approved only while an identity document of theirs is: no   *)
(* second reading of a document turns down what the member's approval      *)
(* rests on (kycocr.go FinishKYCOCR, which writes over any status).        *)
(***************************************************************************)
ApprovedHasDocument ==
  \A p \in KycPeople : kyc[p] = "approved" =>
    \E d \in Docs : DocOwner[d] = p /\ PrimaryIDDoc(DocType[d]) /\ docs[d].status = "approved"

(***************************************************************************)
(* A document that waits for the model is reviewed at last, whatever       *)
(* fails and however often the boxes restart (kycocr.go RunKYCOCRSweep).   *)
(***************************************************************************)
PendingIsReviewed ==
  \A d \in Docs : docs[d].ocr = "pending" ~> docs[d].status \in {"approved", "rejected"}
=============================================================================
