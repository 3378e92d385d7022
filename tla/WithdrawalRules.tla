-------------------------- MODULE WithdrawalRules --------------------------
(***************************************************************************)
(* The stateless rules of vp-engine/internal/withdrawals: the transition   *)
(* table of a withdrawal, the translation of a BMP answer into a decision, *)
(* the freshness window, the precedence of the e-mails under which BMP is  *)
(* asked, and the money arithmetic of the request.                         *)
(*                                                                         *)
(* Money is an integer: cents after QuantizeUSD, Sub-ths of a cent before. *)
(***************************************************************************)
EXTENDS Integers

(***************************************************************************)
(* Transitions.  A handler moves a row to "to" only from From(to); nothing *)
(* ever leaves a final status.                                             *)
(***************************************************************************)
Targets == {"approved", "rejected", "paid", "cancelled"}

withdrawalTransitions ==
  [to \in Targets |-> CASE to = "approved"  -> {"requested"}
                        [] to = "rejected"  -> {"requested"}
                        [] to = "paid"      -> {"approved"}
                        [] to = "cancelled" -> {"requested", "approved"}]

\* The statuses whose amount is held back from the balance (balance.go).
Open  == {"requested", "approved"}
Final == {"rejected", "paid", "cancelled"}

Status == {"none"} \cup Open \cup Final

(***************************************************************************)
(* BMP.  The answer is read in the order the member must clear it; only an *)
(* answer that passes every test is "allowed".  "unavailable" is the value *)
(* the caller uses when there was no answer at all.                        *)
(***************************************************************************)
Blocked == {"not_registered", "kyc_pending", "va_incomplete", "bmp_blocked"}
Verdict == {"allowed"} \cup Blocked

RawAnswer == [exists : BOOLEAN, kyc : BOOLEAN, va : BOOLEAN, clear : BOOLEAN]

translate(raw) == CASE ~raw.exists -> "not_registered"
                    [] raw.exists /\ ~raw.kyc -> "kyc_pending"
                    [] raw.exists /\ raw.kyc /\ ~raw.va -> "va_incomplete"
                    [] raw.exists /\ raw.kyc /\ raw.va /\ ~raw.clear -> "bmp_blocked"
                    [] OTHER -> "allowed"

\* assertBMPFresh: positive and recent; a verification dated in the future
\* has a negative age and is refused.
IsFresh(verdict, at, now, window) ==
  /\ verdict = "allowed"
  /\ now - at >= 0
  /\ now - at <= window

\* COALESCE(x, y) of the SQL: NULL is the value "null" of the caller.
Coalesce(x, y, null) == IF x # null THEN x ELSE y

(***************************************************************************)
(* Money.  sub is the number of stored sub-units in a cent (10^6 in        *)
(* numeric(20,8)), pct the commission in percent.                          *)
(***************************************************************************)
QuantizeUSD(raw, sub) == raw \div sub

\* decimal.Round(2): to the nearest cent, halves away from zero.
RoundCents(hundredths) == (hundredths + 50) \div 100

FeeOf(gross, pct) == RoundCents(gross * pct)
NetOf(gross, pct) == gross - FeeOf(gross, pct)
=============================================================================
