------------------------- MODULE WithdrawalPromise -------------------------
(***************************************************************************)
(* What the withdrawal service promises about each withdrawal, with no     *)
(* handlers, locks or transactions: a withdrawal is requested once,        *)
(* decided once, paid only after it was approved, and its amount leaves    *)
(* the wallet in the very step that pays it and in no other.  The approver *)
(* on record is the admin who approved it, if the database knows that      *)
(* admin, and no later decision changes it.                                *)
(***************************************************************************)
CONSTANTS Rows, Admins, Registered, None

VARIABLES status, approver, debits

vars == <<status, approver, debits>>

Init ==
  /\ status = [w \in Rows |-> "none"]
  /\ approver = [w \in Rows |-> None]
  /\ debits = [w \in Rows |-> 0]

Request(w) ==
  /\ status[w] = "none"
  /\ status' = [status EXCEPT ![w] = "requested"]
  /\ UNCHANGED <<approver, debits>>

Approve(w, a) ==
  /\ status[w] = "requested"
  /\ status' = [status EXCEPT ![w] = "approved"]
  /\ approver' = [approver EXCEPT ![w] = IF a \in Registered THEN a ELSE None]
  /\ UNCHANGED debits

Refuse(w) ==
  /\ \/ status[w] = "requested" /\ status' = [status EXCEPT ![w] = "rejected"]
     \/ status[w] \in {"requested", "approved"} /\ status' = [status EXCEPT ![w] = "cancelled"]
  /\ UNCHANGED <<approver, debits>>

Pay(w) ==
  /\ status[w] = "approved"
  /\ status' = [status EXCEPT ![w] = "paid"]
  /\ debits' = [debits EXCEPT ![w] = 1]
  /\ UNCHANGED approver

Next == \E w \in Rows : \/ Request(w) \/ Refuse(w) \/ Pay(w)
                        \/ \E a \in Admins : Approve(w, a)

Spec == Init /\ [][Next]_vars
=============================================================================
