--------------------------- MODULE MCWithdrawals ---------------------------
(***************************************************************************)
(* Instances of Withdrawals for TLC.  Members and mails are strings so     *)
(* that the functions below can name them; the other sets are model values *)
(* of the configuration files.                                             *)
(***************************************************************************)
EXTENDS Withdrawals, TLC

OneMember  == {"ana"}
TwoMembers == {"ana", "leo"}

OneMail  == {"ana@"}
TwoMails == {"ana@", "alt@"}
MailsOfTwo == {"ana@", "leo@"}

MCSessionMail == [m \in Members |-> IF m = "ana" THEN "ana@" ELSE "leo@"]

\* The first credit of a two-member instance is leo's, the others are ana's.
MCCreditOwner == [c \in Credits |-> IF c = "c1" /\ "leo" \in Members THEN "leo" ELSE "ana"]
MCCreditAmount == [c \in Credits |-> IF c = "c3" THEN 2 ELSE 1]

\* A BMP account that may be paid, one that was restricted, and no account.
Cleared    == [exists |-> TRUE, kyc |-> TRUE, va |-> TRUE, clear |-> TRUE]
Restricted == [Cleared EXCEPT !.clear = FALSE]
NoAccount  == [exists |-> FALSE, kyc |-> FALSE, va |-> FALSE, clear |-> FALSE]

ClearedOnly == {Cleared}
ComeAndGo   == {Cleared, Restricted}
AllAccounts == {Cleared, Restricted, NoAccount}

\* Handlers and rows are interchangeable (safety runs only); of the admins, those with
\* a person row and those without.
Interchangeable ==
  Permutations(Sessions) \cup Permutations(Registered) \cup Permutations(Admins \ Registered)
    \cup Permutations(Rows) \cup Permutations(Links)

-----------------------------------------------------------------------------
(* Two scenarios of one instance; each only leaves moves out.              *)

CONSTANT Scenarios
VARIABLE scenario

\* BMP clears every request, answers no admin, nobody asks for a link and a member who is suspended asks
\* for nothing: requests, admins and operations compete.
MoneyOnly ==
  /\ scenario = "money" /\ link' = link /\ clock' = clock
  /\ \A s \in Sessions : req'[s].pc # "link" /\ (BMPEnabled /\ req'[s].pc \in {"begin", "insert"} => req'[s].verdict = "allowed")
  /\ \A a \in Admins : adm'[a].verdict = "unavailable"
  /\ banned' # {} => \A s \in Sessions : req'[s] = IdleReq

\* One handler, one admin who approves and pays and one row while BMP changes its mind, or a link is reviewed.
BMPOnly ==
  /\ scenario = "bmp" /\ opsVars' = opsVars
  /\ \A a \in Admins : adm'[a].to \in {"none", "approved", "paid"}
  /\ Cardinality({s \in Sessions : req'[s] # IdleReq}) <= 1
  /\ \A a \in Admins \ Registered : adm'[a] = IdleAdm
  /\ Cardinality({w \in Rows : status'[w] # "none"}) <= 1

MCInit ==
  /\ Init /\ scenario \in Scenarios
  /\ scenario = "bmp" => \A c \in Credits : credit[c] = "available" <=> CreditAmount[c] = 1 /\ c \notin Freezable

MCNext == Next /\ (MoneyOnly \/ BMPOnly) /\ UNCHANGED scenario
MCSpec == MCInit /\ [][MCNext]_<<vars, scenario>>
=============================================================================
