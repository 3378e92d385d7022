------------------------------ MODULE MCOffice ------------------------------
(***************************************************************************)
(* What the office keeps beside the money: the identity documents, the     *)
(* plan and the ledger.  A behaviour follows one scenario; a scenario only *)
(* leaves moves out of the next-state relation of its component.           *)
(***************************************************************************)
EXTENDS Kyc, PlanChanges, Ledger, TLC

CONSTANTS Scenarios, FirstProposal, FirstDecider, FirstPlanAdmin
VARIABLE scenario
officeVars == <<scenario, kycVars, planVars, ledgerVars>>

-----------------------------------------------------------------------------
(* A member with two passports, of which the second may be somebody        *)
(* else's, and a box that is restarted at any time.                        *)

MC_Names == { [first |-> <<"a", " ", "x">>, last |-> <<"b">>] }
MC_DocOwner == [d \in Docs |-> CHOOSE p \in KycPeople : TRUE]
MC_DocType == [d \in Docs |-> "passport"]
MC_Readings == { [readable |-> TRUE, kind |-> "passport", expiry |-> "future", given |-> <<x>>,
                  surname |-> <<"b">>, address |-> FALSE, holding |-> FALSE] : x \in {"a", "c"} }

-----------------------------------------------------------------------------
(* Two changes that are solvent, each for itself, and one out of bounds.   *)

MC_FirstPlan ==
  [treasury_alpha |-> 45, referral_rate |-> 10, founder_referral_rate |-> 10, royalty_rate |-> 5, rank_installments |-> 4]
MC_Changes == {[treasury_alpha |-> 35], [royalty_rate |-> 15], [treasury_alpha |-> 70]}

\* Proposals, handlers and administrators are interchangeable: the first comes first.
\* Nothing else moves while nobody pays.
PlanMoves ==
  /\ \A q \in Proposals \ {FirstProposal} : proposals'[q] # NoProposal => proposals[FirstProposal] # NoProposal
  /\ proposals'[FirstProposal].initiator \subseteq {FirstPlanAdmin}
  /\ \A d \in Deciders \ {FirstDecider} :
       decider[d] = NoDecider /\ decider'[d] # NoDecider => decider[FirstDecider] # NoDecider
  /\ \A d \in Deciders \ {FirstDecider} : decider'[d].pc = "decide" => decider'[d].approve
  /\ planAdmins' # planAdmins => FirstPlanAdmin \notin planAdmins' /\ decider[FirstDecider] # NoDecider
  /\ inflow = 0 => inflow' # 0
  /\ inflow' = 0 => proposals = [q \in Proposals |-> NoProposal] /\ seconds = 0

-----------------------------------------------------------------------------
(* A credit and a transfer that share a wallet, and a transfer that does   *)
(* not balance.                                                            *)

MC_Meant == [r \in Refs |->
  IF r = "credit" THEN [w \in {"a"} |-> 5]
  ELSE IF r = "transfer" THEN [w \in {"a", "b"} |-> IF w = "a" THEN -2 ELSE 2]
  ELSE [w \in {"b", "c"} |-> IF w = "b" THEN -2 ELSE 3]]

-----------------------------------------------------------------------------

OfficeInit ==
  /\ KycInit /\ PlanInit /\ LedgerInit
  /\ scenario \in Scenarios
  /\ inflow # 0 /\ (guarded => scenario = "ledger")

OfficeNext ==
  /\ \/ scenario = "documents" /\ KycNext /\ UNCHANGED <<planVars, ledgerVars>>
     \/ scenario = "plan" /\ PlanNext /\ PlanMoves /\ UNCHANGED <<kycVars, ledgerVars>>
     \/ scenario = "ledger" /\ LedgerNext /\ UNCHANGED <<kycVars, planVars>>
  /\ UNCHANGED scenario

OfficeSpec == OfficeInit /\ [][OfficeNext]_officeVars /\ (scenario = "documents" => KycFairness)
=============================================================================
