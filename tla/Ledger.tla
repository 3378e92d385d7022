------------------------------- MODULE Ledger -------------------------------
(***************************************************************************)
(* The ledger service (internal/ledger/service.go): a caller posts a       *)
(* transaction under an external reference, and asks again when it gets no *)
(* answer.  The lookup of the reference is a statement of its own; the     *)
(* rest is one SERIALIZABLE transaction, whose snapshot is taken by its    *)
(* first statement.  What a movement may be is mlm's business              *)
(* (fn_validate_movement, fn_validate_transaction, fn_update_wallet_balance). *)
(***************************************************************************)
EXTENDS Integers, FiniteSets, FiniteSetsExt

CONSTANTS
  Callers,    \* callers of PostTransaction
  Refs,       \* external references
  Wallets,    \* wallets
  PairNeeded, \* the references whose concepts must net to zero
  Meant       \* the transfer each reference stands for: wallets to signed amounts

ASSUME LedgerAssumption ==
  /\ PairNeeded \subseteq Refs
  /\ DOMAIN Meant = Refs
  /\ \A r \in Refs : DOMAIN Meant[r] \subseteq Wallets /\ Meant[r] \in [DOMAIN Meant[r] -> Int]

VARIABLES
  transaction,  \* mlm.transaction: is the reference posted
  movements,    \* mlm.wallet_movement: how often its transfer was inserted
  wallet,       \* the materialised balances
  guarded,      \* financialguard: the books are under recovery review
  poster        \* PostTransaction at work; seen: the insertions its snapshot knows

ledgerVars == <<transaction, movements, wallet, guarded, poster>>

Calm == [pc |-> "idle", ref |-> {}, doomed |-> FALSE, seen |-> 0]
InTransaction == {"upsert", "insert", "post"}

LedgerTypeOK ==
  /\ transaction \in [Refs -> {"none", "posted"}] /\ movements \in [Refs -> Nat]
  /\ wallet \in [Wallets -> Int] /\ guarded \in BOOLEAN
  /\ \A c \in Callers : poster[c].pc \in {"idle", "lookup", "begin"} \cup InTransaction

LedgerInit ==
  /\ transaction = [r \in Refs |-> "none"] /\ movements = [r \in Refs |-> 0]
  /\ wallet = [w \in Wallets |-> 0] /\ guarded \in BOOLEAN
  /\ poster = [c \in Callers |-> Calm]

LedgerSame == UNCHANGED <<transaction, movements, wallet, guarded>>
CallGoesTo(c, pc) == poster' = [poster EXCEPT ![c].pc = pc]
CallEnds(c) == poster' = [poster EXCEPT ![c] = Calm]

\* RequireOperational, once, before anything else
PostTransaction(c, r) ==
  /\ poster[c].pc = "idle" /\ ~guarded /\ DOMAIN Meant[r] # {}
  /\ poster' = [poster EXCEPT ![c] = [Calm EXCEPT !.pc = "lookup", !.ref = {r}]]
  /\ LedgerSame

\* The idempotency check, outside the transaction.
LookUp(c) ==
  \E r \in poster[c].ref :
    /\ poster[c].pc = "lookup"
    /\ IF transaction[r] = "posted" THEN CallEnds(c) ELSE CallGoesTo(c, "begin")
    /\ LedgerSame

\* The first statement of the transaction takes its snapshot.
BeginTransaction(c) ==
  \E r \in poster[c].ref :
    /\ poster[c].pc = "begin"
    /\ poster' = [poster EXCEPT ![c].pc = "upsert", ![c].seen = movements[r]]
    /\ LedgerSame

\* Who holds the row of a reference, or of a wallet.
HoldsRef(c, r) == poster[c].pc \in {"insert", "post"} /\ poster[c].ref = {r}
HoldsWallet(c, w) == poster[c].pc = "post" /\ \E r \in poster[c].ref : w \in DOMAIN Meant[r]

\* INSERT ... ON CONFLICT DO UPDATE waits for the row, and fails if it changed meanwhile.
UpsertTransaction(c) ==
  \E r \in poster[c].ref :
    /\ poster[c].pc = "upsert" /\ \A d \in Callers \ {c} : ~HoldsRef(d, r)
    /\ IF poster[c].doomed THEN CallEnds(c) ELSE CallGoesTo(c, "insert")
    /\ LedgerSame

\* The movements, whose triggers write the wallets.
InsertMovements(c) ==
  \E r \in poster[c].ref :
    /\ poster[c].pc = "insert" /\ \A d \in Callers \ {c}, w \in DOMAIN Meant[r] : ~HoldsWallet(d, w)
    /\ IF poster[c].doomed THEN CallEnds(c) ELSE CallGoesTo(c, "post")
    /\ LedgerSame

\* fn_validate_transaction looks at a reference that becomes posted.
Validates(r) ==
  transaction[r] = "none" /\ r \in PairNeeded =>
    MapThenSumSet(LAMBDA w : Meant[r][w], DOMAIN Meant[r]) = 0

\* Bug: READ COMMITTED, where a later statement sees what was committed meanwhile.
BugConflicts(c, d, r) == FALSE
\* SERIALIZABLE: what c writes is a row that d has written since c's snapshot.
Conflicts(c, d, r) ==
  /\ c # d /\ poster[c].pc \in InTransaction
  /\ \E s \in poster[c].ref : s = r \/ DOMAIN Meant[s] \cap DOMAIN Meant[r] # {}

MarkPosted(c) ==
  \E r \in poster[c].ref :
    /\ poster[c].pc = "post"
    /\ IF ~Validates(r) THEN CallEnds(c) /\ UNCHANGED <<transaction, movements, wallet>>
       ELSE /\ transaction' = [transaction EXCEPT ![r] = "posted"]
            /\ movements' = [movements EXCEPT ![r] = @ + 1]
            /\ wallet' = [w \in Wallets |-> IF w \in DOMAIN Meant[r] THEN wallet[w] + Meant[r][w] ELSE wallet[w]]
            /\ poster' = [d \in Callers |->
                 IF d = c THEN Calm ELSE IF Conflicts(d, c, r) THEN [poster[d] EXCEPT !.doomed = TRUE] ELSE poster[d]]
    /\ UNCHANGED guarded

\* Any statement may fail, and the caller may go away.
CallFails(c) == poster[c].pc # "idle" /\ CallEnds(c) /\ LedgerSame

Recovery == guarded' = ~guarded /\ UNCHANGED <<transaction, movements, wallet, poster>>

LedgerNext ==
  \/ \E c \in Callers, r \in Refs : PostTransaction(c, r)
  \/ \E c \in Callers :
       \/ LookUp(c) \/ BeginTransaction(c) \/ UpsertTransaction(c)
       \/ InsertMovements(c) \/ MarkPosted(c) \/ CallFails(c)
  \/ Recovery

LedgerSpec == LedgerInit /\ [][LedgerNext]_ledgerVars

-----------------------------------------------------------------------------
(* Properties                                                              *)

(***************************************************************************)
(* Of the transactions of one reference that overlap, one posts: whoever   *)
(* posts adds to what its own snapshot knew (service.go:110).              *)
(***************************************************************************)
PostsFromItsSnapshot ==
  [][\A r \in Refs : movements'[r] # movements[r] =>
       \E c \in Callers : poster[c].ref = {r} /\ poster'[c] = Calm /\ poster[c].seen = movements[r]]_ledgerVars
=============================================================================
