------------------------------ MODULE MCMembers ------------------------------
(***************************************************************************)
(* A founder, a sponsor, a member who is on the way in and a person nobody *)
(* knows yet.  A behaviour follows one scenario; a scenario only leaves    *)
(* moves out of the next-state relation.                                   *)
(***************************************************************************)
EXTENDS Members, TLC

CONSTANTS Scenarios, Patron, Newcomer, StrangerMail, FirstText, SecondText
VARIABLES
  scenario,
  spent                        \* moves that no request makes

MC_LoginMail == [q \in Persons |->
  IF q = Founder THEN "f@x" ELSE IF q = Patron THEN "p@x" ELSE IF q = Newcomer THEN "n@x" ELSE Nobody]

\* Two texts: whoever carries a name knows the first.
MC_Patches ==
  {[f \in F |-> FirstText] : F \in {{"name"}, {"name", "phone"}}} \cup
  {[f \in F |-> SecondText] : F \in {{"phone"}, {"phone", "wallet"}}}

MembersStart ==
  /\ MembersInit /\ spent = 0 /\ scenario \in Scenarios
  /\ \A p \in Persons : Seated(p) <=> p \in {Founder, Patron}
  /\ banned \in {{}, IF scenario = "attribution" THEN {<<"mail", person[Patron].mail>>} ELSE {}}

Kinds == {request'[r].kind : r \in Requests}
Events(n) ==
  spent' = spent + (IF \A r \in Requests : request'[r].pc = request[r].pc THEN 1 ELSE 0) /\ spent' <= n

\* Who decides the sponsor: checkouts, links and activations of one newcomer.
Attribution ==
  /\ scenario = "attribution" /\ fields' = fields
  /\ Kinds \subseteq {"", "checkout", "register", "verified", "activate"}
  /\ \A r \in Requests :
       /\ request'[r].mail \in {Nobody, LoginMail[Newcomer]} /\ request'[r].who \in {Nobody, Newcomer}
       /\ request'[r].to \in {Nobody, Founder, Patron} /\ (request'[r].kind = "checkout" => request'[r].to # Founder)
  /\ \A q \in Persons : ~person'[q].admin
  /\ \A q \in Persons \ {Patron} : person'[q] = person[q]
  /\ banned' \subseteq {<<"mail", person[Patron].mail>>} /\ Cardinality(intents') <= 1
  /\ Events(1)
\* Who writes a row: the newcomer, a stranger provisioned twice, and administrators.
Profiles ==
  /\ scenario = "profiles" /\ referral' = referral /\ intents' = intents
  /\ Kinds \subseteq {"", "profile", "onboarding", "edit", "delete"}
  /\ \A r \in Requests :
       /\ request'[r].mail \in {Nobody, LoginMail[Newcomer], StrangerMail} /\ request'[r].who \in {Nobody, Newcomer}
       /\ request'[r].kind = "edit" => DOMAIN request'[r].patch = {"phone"}
       /\ DOMAIN request'[r].patch = {"phone"} => request'[r].kind = "edit"
       /\ request'[r].to \in {Nobody, StrangerMail}
  /\ \A q \in Persons \ {Newcomer} : person'[q].status = "active" /\ ~person'[q].admin /\ seat'[q] = seat[q]
  /\ banned' = banned
  /\ LET first == {r \in Requests : "name" \in DOMAIN request'[r].patch}
         second == {r \in Requests : request'[r].pc # "idle"} \ first
     IN Cardinality(first) <= 1 /\ Cardinality(second) <= 1
  /\ Events(1)

-----------------------------------------------------------------------------

MembersMoves == MembersNext /\ (Attribution \/ Profiles) /\ UNCHANGED scenario

MembersMCSpec == MembersStart /\ [][MembersMoves]_<<scenario, spent, memberVars>>

Symmetry == Permutations(Requests)
=============================================================================
