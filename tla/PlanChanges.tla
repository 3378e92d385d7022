---------------------------- MODULE PlanChanges ----------------------------
(***************************************************************************)
(* How the commission plan changes (internal/payments/plan.go): an         *)
(* administrator proposes, another one decides, and an approved change is  *)
(* simulated and published as a new version of mlm.plan_config, all in one *)
(* READ COMMITTED transaction whose now() is the moment it began.          *)
(*                                                                         *)
(* Percentages are integers.  The clock counts the seconds that now() and  *)
(* the label of a version tell apart.                                      *)
(***************************************************************************)
EXTENDS Integers, FiniteSets

CONSTANTS
  Proposals,     \* rows of mlm.approval_request
  Deciders,      \* handlers of decisions
  PlanAdmins,    \* administrators
  Changes,       \* payloads: functions from editable fields to values
  FirstPlan,     \* the plan in force at the beginning
  Inflows,       \* what members may have paid in the last thirty days
  ROI,           \* what the certificates are owed in that time
  MaxTime        \* bound: the clock stops here

PlanFields == {"treasury_alpha", "referral_rate", "founder_referral_rate", "royalty_rate", "rank_installments"}

\* planBounds, in percent
PlanBounds == [treasury_alpha |-> 30..60, referral_rate |-> 0..50, founder_referral_rate |-> 0..50, royalty_rate |-> 0..50]

\* simKeyMap: what the engine's simulator knows
SimKeys == {"treasury_alpha", "rank_installments"}

ASSUME PlanAssumption ==
  /\ FirstPlan \in [PlanFields -> Nat] /\ Inflows \subseteq Nat /\ ROI \in Nat /\ MaxTime \in Nat
  /\ \A c \in Changes : DOMAIN c \subseteq PlanFields /\ c \in [DOMAIN c -> Int]

VARIABLES
  versions,    \* mlm.plan_config: label, from, to, config, and the request it comes from
  proposals,   \* status, initiator, approver, payload
  planAdmins,  \* who is an administrator now
  inflow,      \* what members paid in the window
  seconds,     \* the clock
  decider      \* DecidePlanProposal at work

planVars == <<versions, proposals, planAdmins, inflow, seconds, decider>>

Forever == MaxTime + 1
NoPlan == [from |-> Forever, to |-> Forever, config |-> FirstPlan, request |-> {}]
NoDecider == [pc |-> "idle", admin |-> {}, request |-> {}, approve |-> FALSE, stamp |-> 0, current |-> NoPlan]
NoProposal == [status |-> "none", initiator |-> {}, payload |-> <<>>]

PlanTypeOK ==
  /\ \A v \in versions : v.from \in 0..MaxTime /\ v.to \in 0..Forever /\ v.config \in [PlanFields -> Nat]
  /\ \A q \in Proposals : proposals[q].status \in {"none", "pending", "rejected", "expired", "executed"}
  /\ planAdmins \subseteq PlanAdmins /\ inflow \in Inflows /\ seconds \in 0..MaxTime
  /\ \A d \in Deciders : decider[d].pc \in {"idle", "decide", "simulate", "read", "close", "commit"}

PlanInit ==
  /\ versions = {[from |-> 0, to |-> Forever, config |-> FirstPlan, request |-> {}]}
  /\ proposals = [q \in Proposals |-> NoProposal]
  /\ planAdmins = PlanAdmins /\ inflow \in Inflows /\ seconds = 0
  /\ decider = [d \in Deciders |-> NoDecider]

-----------------------------------------------------------------------------
(* The simulation                                                          *)

\* The plan with what a payload changes in it.
Changed(config, payload) == [f \in PlanFields |-> IF f \in DOMAIN payload THEN payload[f] ELSE config[f]]

\* SimulatePlanTheta: alpha * inflows over the projected outflows, at least 0.85.
Solvent(config, paid) ==
  LET bonus == config.royalty_rate +
        (IF config.founder_referral_rate > config.referral_rate THEN config.founder_referral_rate ELSE config.referral_rate)
      outflows == 100 * ROI + paid * bonus
  IN paid = 0 \/ outflows = 0 \/ 100 * config.treasury_alpha * paid >= 85 * outflows

\* ORDER BY effective_from DESC, of those that now() finds in force
InForce(stamp) ==
  LET open == {v \in versions : v.to > stamp} IN {v \in open : \A w \in open : w.from <= v.from}

\* ProposePlanChange: the fields are editable and within their bounds.
ProposePlanChange(q, a, payload) ==
  /\ proposals[q].status = "none" /\ a \in planAdmins
  /\ \A f \in DOMAIN payload \cap DOMAIN PlanBounds : payload[f] \in PlanBounds[f]
  /\ proposals' = [proposals EXCEPT ![q] = [status |-> "pending", initiator |-> {a}, payload |-> payload]]
  /\ UNCHANGED <<versions, planAdmins, inflow, seconds, decider>>

-----------------------------------------------------------------------------
(* DecidePlanProposal                                                      *)

Holds(d, pcs) == decider[d].pc \in pcs
RequestLocked(q) == \E d \in Deciders : decider[d].request = {q} /\ Holds(d, {"simulate", "read", "close", "commit"})
VersionLocked(v) == \E d \in Deciders : Holds(d, {"commit"}) /\ decider[d].current.from = v.from
PlanSame == UNCHANGED <<versions, planAdmins, inflow, seconds>>
Rollback(d) == decider' = [decider EXCEPT ![d] = NoDecider]

\* BEGIN; now() is the clock of this moment.
BeginDecision(d, a, q, approve) ==
  /\ Holds(d, {"idle"}) /\ a \in planAdmins /\ proposals[q].status # "none"
  /\ decider' = [decider EXCEPT ![d] =
       [NoDecider EXCEPT !.pc = "decide", !.admin = {a}, !.request = {q}, !.approve = approve, !.stamp = seconds]]
  /\ PlanSame /\ UNCHANGED proposals

\* The constraint and the trigger of mlm.approval_request.
FourEyes(q, a) == a # proposals[q].initiator /\ a \cup proposals[q].initiator \subseteq planAdmins

\* UPDATE ... WHERE status = 'pending'
DecideRow(d) ==
  \E q \in decider[d].request :
    /\ Holds(d, {"decide"}) /\ ~RequestLocked(q)
    /\ IF proposals[q].status # "pending" \/ ~FourEyes(q, decider[d].admin)
       THEN Rollback(d) /\ UNCHANGED proposals
       ELSE IF decider[d].approve
       THEN decider' = [decider EXCEPT ![d].pc = "simulate"] /\ UNCHANGED proposals
       ELSE proposals' = [proposals EXCEPT ![q].status = "rejected"] /\ Rollback(d)
    /\ PlanSame

\* SimulatePlanTheta reads with another connection; the engine may veto what it
\* knows and does not block when it cannot be reached.
SimulatePlanTheta(d) ==
  \E q \in decider[d].request, engine \in {"solvent", "insolvent", "unreachable"} :
    LET payload == proposals[q].payload
        base == InForce(seconds)
        forward == \A v \in base : Solvent(Changed(v.config, payload), inflow)
        canonical == engine = "insolvent" => DOMAIN payload \cap SimKeys = {}
    IN
    /\ Holds(d, {"simulate"})
    /\ IF forward /\ canonical THEN decider' = [decider EXCEPT ![d].pc = "read"] ELSE Rollback(d)
    /\ PlanSame /\ UNCHANGED proposals

\* executePlanPublish: the snapshot of its statement ...
ReadCurrent(d) ==
  /\ Holds(d, {"read"})
  /\ \E v \in InForce(decider[d].stamp) : decider' = [decider EXCEPT ![d].pc = "close", ![d].current = v]
  /\ PlanSame /\ UNCHANGED proposals

\* ... which closes that row once nobody else holds it (a range that ends before it
\* starts is an error), and inserts the next.
ClosePlan(d) ==
  LET current == decider[d].current IN
  /\ Holds(d, {"close"}) /\ ~VersionLocked(current)
  /\ IF decider[d].stamp < current.from THEN Rollback(d) ELSE decider' = [decider EXCEPT ![d].pc = "commit"]
  /\ PlanSame /\ UNCHANGED proposals

\* The CHECK of the column that planBounds leaves free.
Admissible(config) == config["rank_installments"] >= 1

Overlap(v, w) == v.from < w.to /\ w.from < v.to

\* Bug: only one label per second is asked for.
BugCompatible(rows) == \A v, w \in rows : v # w => v.from # w.from
\* plan_config_no_overlap, deferred to the commit, and one label per second.
Compatible(rows) == \A v, w \in rows : v # w => v.from # w.from /\ ~Overlap(v, w)

CommitPlan(d) ==
  LET current == decider[d].current  stamp == decider[d].stamp
      closed == {IF v.from = current.from THEN [v EXCEPT !.to = stamp] ELSE v : v \in versions}
  IN
  \E q \in decider[d].request :
    LET next == [from |-> stamp, to |-> Forever, request |-> {q},
                 config |-> Changed(current.config, proposals[q].payload)]
    IN
    /\ Holds(d, {"commit"})
    /\ IF stamp \notin {v.from : v \in versions} /\ FourEyes(q, decider[d].admin)
          /\ Admissible(next.config) /\ Compatible(closed \cup {next})
       THEN /\ versions' = closed \cup {next}
            /\ proposals' = [proposals EXCEPT ![q].status = "executed"]
       ELSE UNCHANGED <<versions, proposals>>
    /\ Rollback(d)
    /\ UNCHANGED <<planAdmins, inflow, seconds>>

\* Any statement may fail, and the service may stop.
DecisionFails(d) == ~Holds(d, {"idle"}) /\ Rollback(d) /\ PlanSame /\ UNCHANGED proposals

-----------------------------------------------------------------------------
(* The rest of the world                                                   *)

\* fn_expire_pending_approvals, whose update the trigger may refuse
ExpirePending(S) ==
  /\ S # {} /\ \A q \in S : proposals[q].status = "pending" /\ ~RequestLocked(q) /\ proposals[q].initiator \subseteq planAdmins
  /\ proposals' = [q \in Proposals |-> IF q \in S THEN [proposals[q] EXCEPT !.status = "expired"] ELSE proposals[q]]
  /\ PlanSame /\ UNCHANGED decider

RevokeAdmin(a) ==
  /\ planAdmins' = planAdmins \ {a} /\ planAdmins' # planAdmins
  /\ UNCHANGED <<versions, proposals, inflow, seconds, decider>>

MembersPay == inflow' \in Inflows \ {inflow} /\ UNCHANGED <<versions, proposals, planAdmins, seconds, decider>>
SecondPasses ==
  /\ seconds < MaxTime /\ seconds' = seconds + 1
  /\ UNCHANGED <<versions, proposals, planAdmins, inflow, decider>>

PlanNext ==
  \/ \E q \in Proposals, a \in PlanAdmins, payload \in Changes : ProposePlanChange(q, a, payload)
  \/ \E d \in Deciders, a \in PlanAdmins, q \in Proposals, approve \in BOOLEAN : BeginDecision(d, a, q, approve)
  \/ \E d \in Deciders :
       \/ DecideRow(d) \/ SimulatePlanTheta(d) \/ ReadCurrent(d) \/ ClosePlan(d) \/ CommitPlan(d) \/ DecisionFails(d)
  \/ \E S \in SUBSET Proposals : ExpirePending(S)
  \/ \E a \in PlanAdmins : RevokeAdmin(a)
  \/ MembersPay \/ SecondPasses

PlanSpec == PlanInit /\ [][PlanNext]_planVars

-----------------------------------------------------------------------------
(* Properties                                                              *)

(***************************************************************************)
(* No published change is lost: every version continues the one it         *)
(* follows, with its own payload over it, however two decisions overlap    *)
(* and whichever began first; at every moment one version is in force, and *)
(* an approved proposal is published once (plan.go executePlanPublish).    *)
(***************************************************************************)
NoChangeLost ==
  /\ \A v \in versions : \A q \in v.request :
       \E w \in versions : w.to = v.from /\ v.config = Changed(w.config, proposals[q].payload)
  /\ \A v, w \in versions : v.from = w.from \/ v.to <= w.from \/ w.to <= v.from
  /\ \A q \in Proposals : proposals[q].status = "executed" <=> \E v \in versions : v.request = {q}
  /\ \A v, w \in versions : v.request = w.request => v = w \/ v.request = {}
=============================================================================
