---------------------------- MODULE MCPurchases ----------------------------
(***************************************************************************)
(* Instances of Purchases for TLC.                                         *)
(***************************************************************************)
EXTENDS Purchases, TLC

\* Every intent is one buyer's, for one membership.
OneBuyer == {"ana"}
AllAna == [i \in Intents |-> "ana"]
SamePack == [i \in Intents |-> "pro"]

\* Handlers, sessions and intents are interchangeable (safety runs only).
Interchangeable ==
  Permutations(Workers \ Sweepers) \cup Permutations(Sessions) \cup Permutations(Intents)
=============================================================================
