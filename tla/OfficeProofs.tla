---------------------------- MODULE OfficeProofs ----------------------------
(***************************************************************************)
(* Proofs about what the office keeps beside the money: PlanChanges for    *)
(* any proposals, decisions, payloads and bound of the clock, Ledger for   *)
(* any callers, references, wallets and transfers, Kyc for any members,    *)
(* documents, names and readings, and Members for any persons, e-mails,    *)
(* requests and patches.                                                   *)
(***************************************************************************)
EXTENDS Kyc, PlanChanges, Ledger, Members, TLAPS

-----------------------------------------------------------------------------
(* PlanChanges: the inductive invariant.                                   *)

Plans == [PlanFields -> Nat]
Versions == [from : 0..MaxTime, to : 0..Forever, config : Plans, request : SUBSET Proposals]
Drafts ==
  [status : {"none", "pending", "rejected", "expired", "executed"}, initiator : SUBSET PlanAdmins,
   payload : Changes \cup {<<>>}]
Decisions ==
  [pc : {"idle", "decide", "simulate", "read", "close", "commit"}, admin : SUBSET PlanAdmins,
   request : SUBSET Proposals, approve : BOOLEAN, stamp : 0..MaxTime, current : Versions \cup {NoPlan}]
Approving == {"simulate", "read", "close", "commit"}

PlanShapes ==
  /\ versions \subseteq Versions /\ proposals \in [Proposals -> Drafts]
  /\ decider \in [Deciders -> Decisions]
  /\ planAdmins \subseteq PlanAdmins /\ inflow \in Inflows /\ seconds \in 0..MaxTime

\* What was proposed is within its bounds.
Within(payload) == payload \in Changes /\ \A f \in DOMAIN payload \cap DOMAIN PlanBounds : payload[f] \in PlanBounds[f]
ProposalsWithin == \A q \in Proposals : proposals[q].status # "none" => Within(proposals[q].payload)

\* The versions follow one another and the last one is open.
OneRequestEach == \A v \in versions : v.request = {} \/ \E q \in Proposals : v.request = {q}
OneOpen == \E v \in versions : v.to = Forever

\* A decision is about one proposal; one that has locked it finds it pending until it commits, and the
\* version it has read is still there, closed or not.
DecisionsKnow ==
  \A d \in Deciders : decider[d].pc # "idle" =>
    \E q \in Proposals :
      /\ decider[d].request = {q} /\ proposals[q].status # "none"
      /\ decider[d].pc \in Approving => proposals[q].status = "pending"
CurrentStays ==
  \A d \in Deciders : decider[d].pc \in {"close", "commit"} =>
    \E v \in versions : v.from = decider[d].current.from /\ v.config = decider[d].current.config
OneDecision ==
  \A d, e \in Deciders :
    decider[d].pc \in Approving /\ decider[e].pc \in Approving /\ decider[d].request = decider[e].request => d = e

PlanInv ==
  /\ PlanShapes /\ ProposalsWithin /\ OneRequestEach /\ OneOpen /\ Compatible(versions)
  /\ DecisionsKnow /\ CurrentStays /\ OneDecision /\ NoChangeLost

-----------------------------------------------------------------------------
(* Lemmas.                                                                 *)

LEMMA MaxTimeNat == MaxTime \in Nat /\ Forever \in Nat /\ Forever \notin 0..MaxTime /\ \A t \in 0..MaxTime : t < Forever
  BY PlanAssumption DEF Forever

\* What a payload within its bounds makes of a plan is a plan, if the table takes it.
LEMMA ChangedIsPlan ==
  ASSUME NEW config \in Plans, NEW payload, Within(payload), Admissible(Changed(config, payload))
  PROVE  Changed(config, payload) \in Plans
<1> SUFFICES ASSUME NEW f \in PlanFields PROVE Changed(config, payload)[f] \in Nat
  BY DEF Changed, Plans
<1>1. CASE f \notin DOMAIN payload
  BY <1>1 DEF Changed, Plans
<1>2. CASE f \in DOMAIN payload /\ f = "rank_installments"
  <2>1. payload[f] \in Int
    BY <1>2, PlanAssumption DEF Within
  <2>2. Changed(config, payload)[f] = payload[f] /\ payload[f] >= 1
    BY <1>2 DEF Changed, Admissible
  <2> QED
    BY <2>1, <2>2
<1>3. CASE f \in DOMAIN payload /\ f # "rank_installments"
  <2>1. f \in DOMAIN PlanBounds
    BY <1>3 DEF PlanFields, PlanBounds
  <2>2. payload[f] \in PlanBounds[f]
    BY <1>3, <2>1 DEF Within
  <2>3. PlanBounds[f] \subseteq Nat
    BY <2>1 DEF PlanBounds
  <2> QED
    BY <1>3, <2>2, <2>3 DEF Changed
<1> QED
  BY <1>1, <1>2, <1>3

LEMMA NobodyDecides == NoDecider \in Decisions /\ NoDecider.pc = "idle"
  BY MaxTimeNat DEF NoDecider, Decisions

LEMMA PlanStarts == PlanInit => PlanInv
<1> SUFFICES ASSUME PlanInit PROVE PlanInv
  OBVIOUS
<1> DEFINE first == [from |-> 0, to |-> Forever, config |-> FirstPlan, request |-> {}]
<1>1. versions = {first} /\ first \in Versions /\ first.to = Forever /\ first.request = {}
  BY MaxTimeNat, PlanAssumption DEF PlanInit, Versions, Plans
<1>2. \A d \in Deciders : decider[d] \in Decisions /\ decider[d].pc = "idle"
  BY NobodyDecides DEF PlanInit
<1>3. \A q \in Proposals : proposals[q] \in Drafts /\ proposals[q].status = "none"
  BY DEF PlanInit, NoProposal, Drafts
<1> HIDE DEF first
<1>4. PlanShapes
  BY <1>1, <1>2, <1>3, MaxTimeNat DEF PlanInit, PlanShapes
<1>5. ProposalsWithin /\ OneRequestEach /\ OneOpen /\ Compatible(versions)
  BY <1>1, <1>3 DEF ProposalsWithin, OneRequestEach, OneOpen, Compatible
<1>6. DecisionsKnow /\ CurrentStays /\ OneDecision
  BY <1>2 DEF DecisionsKnow, CurrentStays, OneDecision, Approving
<1>7. NoChangeLost
  BY <1>1, <1>3 DEF NoChangeLost
<1> QED
  BY <1>4, <1>5, <1>6, <1>7 DEF PlanInv

\* What a step that writes neither plans nor proposals leaves as it was.
LEMMA BooksAlone ==
  ASSUME PlanInv, versions' = versions, proposals' = proposals
  PROVE  ProposalsWithin' /\ OneRequestEach' /\ OneOpen' /\ Compatible(versions)' /\ NoChangeLost'
<1>1. ProposalsWithin'
  BY DEF PlanInv, ProposalsWithin
<1>2. OneRequestEach' /\ OneOpen'
  BY DEF PlanInv, OneRequestEach, OneOpen
<1>3. Compatible(versions)'
  BY DEF PlanInv, Compatible, Overlap
<1>4. NoChangeLost'
  BY ZenonT(60) DEF PlanInv, NoChangeLost
<1> QED
  BY <1>1, <1>2, <1>3, <1>4

\* A step of one decision that writes nothing.
LEMMA DecisionStep ==
  ASSUME PlanInv, NEW d \in Deciders, NEW call \in Decisions, decider' = [decider EXCEPT ![d] = call],
         UNCHANGED <<versions, proposals, planAdmins, inflow, seconds>>,
         call.pc # "idle" => \E q \in Proposals :
           /\ call.request = {q} /\ proposals[q].status # "none"
           /\ call.pc \in Approving => proposals[q].status = "pending",
         call.pc \in {"close", "commit"} =>
           \E v \in versions : v.from = call.current.from /\ v.config = call.current.config,
         call.pc \in Approving =>
           \A e \in Deciders \ {d} : decider[e].pc \in Approving => decider[e].request # call.request
  PROVE  PlanInv'
<1>1. /\ decider' \in [Deciders -> Decisions]
      /\ decider'[d] = call /\ \A e \in Deciders \ {d} : decider'[e] = decider[e]
  BY DEF PlanInv, PlanShapes
<1>2. PlanShapes'
  BY <1>1 DEF PlanInv, PlanShapes
<1>3. ProposalsWithin' /\ OneRequestEach' /\ OneOpen' /\ Compatible(versions)' /\ NoChangeLost'
  BY BooksAlone DEF PlanInv
<1>4. DecisionsKnow'
  <2> SUFFICES ASSUME NEW e \in Deciders, decider'[e].pc # "idle"
               PROVE  \E q \in Proposals :
                        /\ decider'[e].request = {q} /\ proposals[q].status # "none"
                        /\ decider'[e].pc \in Approving => proposals[q].status = "pending"
    BY DEF DecisionsKnow
  <2> QED
    BY <1>1 DEF PlanInv, DecisionsKnow
<1>5. CurrentStays'
  <2> SUFFICES ASSUME NEW e \in Deciders, decider'[e].pc \in {"close", "commit"}
               PROVE  \E v \in versions : v.from = decider'[e].current.from /\ v.config = decider'[e].current.config
    BY DEF CurrentStays
  <2> QED
    BY <1>1 DEF PlanInv, CurrentStays
<1>6. OneDecision'
  BY <1>1 DEF PlanInv, OneDecision
<1> QED
  BY <1>2, <1>3, <1>4, <1>5, <1>6 DEF PlanInv

LEMMA RollbackKeeps ==
  ASSUME PlanInv, NEW d \in Deciders, Rollback(d), UNCHANGED <<versions, proposals, planAdmins, inflow, seconds>>
  PROVE  PlanInv'
  BY NobodyDecides, DecisionStep DEF Rollback, Approving

-----------------------------------------------------------------------------
(* One lemma per action that writes.                                       *)

\* The rows of the proposals change; nobody who has locked one of them is disturbed.
LEMMA ProposalsChange ==
  ASSUME PlanInv, proposals' \in [Proposals -> Drafts], UNCHANGED <<versions, planAdmins, inflow, seconds>>,
         decider' \in [Deciders -> Decisions],
         \A d \in Deciders : decider'[d] = decider[d] \/ decider'[d].pc = "idle",
         \A q \in Proposals :
           \/ proposals'[q] = proposals[q]
           \/ /\ proposals[q].status = "none" /\ proposals'[q].status = "pending" /\ Within(proposals'[q].payload)
           \/ /\ proposals[q].status = "pending" /\ ~RequestLocked(q)
              /\ proposals'[q].status \in {"rejected", "expired"} /\ proposals'[q].payload = proposals[q].payload
  PROVE  PlanInv'
<1>1. PlanShapes'
  BY DEF PlanInv, PlanShapes
<1>2. ProposalsWithin'
  BY DEF PlanInv, ProposalsWithin
<1>3. OneRequestEach' /\ OneOpen' /\ Compatible(versions)'
  BY DEF PlanInv, OneRequestEach, OneOpen, Compatible, Overlap
<1>4. DecisionsKnow'
  <2> SUFFICES ASSUME NEW d \in Deciders, decider'[d].pc # "idle"
               PROVE  \E q \in Proposals :
                        /\ decider'[d].request = {q} /\ proposals'[q].status # "none"
                        /\ decider'[d].pc \in Approving => proposals'[q].status = "pending"
    BY DEF DecisionsKnow
  <2>1. decider'[d] = decider[d]
    OBVIOUS
  <2>2. PICK q \in Proposals :
          /\ decider[d].request = {q} /\ proposals[q].status # "none"
          /\ decider[d].pc \in Approving => proposals[q].status = "pending"
    BY <2>1 DEF PlanInv, DecisionsKnow
  <2>3. proposals'[q].status # "none"
    BY <2>2
  <2>4. decider[d].pc \in Approving => proposals'[q].status = "pending"
    BY <2>2 DEF RequestLocked, Holds, Approving
  <2> QED
    BY <2>1, <2>2, <2>3, <2>4
<1>5. CurrentStays'
  BY DEF PlanInv, CurrentStays
<1>6. OneDecision'
  BY DEF PlanInv, OneDecision, Approving
<1>7. NoChangeLost'
  <2>1. \A v \in versions : \A q \in v.request : proposals[q].status = "executed" /\ q \in Proposals
    BY DEF PlanInv, OneRequestEach, NoChangeLost
  <2>2. \A v \in versions : \A q \in v.request : proposals'[q].payload = proposals[q].payload
    BY <2>1
  <2>3. \A q \in Proposals : proposals'[q].status = "executed" <=> proposals[q].status = "executed"
    OBVIOUS
  <2>4. \A v \in versions : \A q \in v.request :
          \E w \in versions : w.to = v.from /\ v.config = Changed(w.config, proposals[q].payload)
    BY DEF PlanInv, NoChangeLost
  <2>5. \A v \in versions : \A q \in v.request :
          \E w \in versions : w.to = v.from /\ v.config = Changed(w.config, proposals'[q].payload)
    BY <2>2, <2>4
  <2>6. \A q \in Proposals : proposals'[q].status = "executed" <=> \E v \in versions : v.request = {q}
    BY <2>3 DEF PlanInv, NoChangeLost
  <2> QED
    BY <2>5, <2>6 DEF PlanInv, NoChangeLost
<1> QED
  BY <1>1, <1>2, <1>3, <1>4, <1>5, <1>6, <1>7 DEF PlanInv

LEMMA ProposeKeeps ==
  ASSUME PlanInv, NEW q \in Proposals, NEW a \in PlanAdmins, NEW payload \in Changes, ProposePlanChange(q, a, payload)
  PROVE  PlanInv'
<1> DEFINE row == [status |-> "pending", initiator |-> {a}, payload |-> payload]
<1>1. row \in Drafts /\ Within(row.payload) /\ row.status = "pending"
  BY DEF Drafts, Within, ProposePlanChange
<1>2. proposals' = [proposals EXCEPT ![q] = row] /\ proposals[q].status = "none"
      /\ UNCHANGED <<versions, planAdmins, inflow, seconds, decider>>
  BY DEF ProposePlanChange
<1> HIDE DEF row
<1>3. proposals' \in [Proposals -> Drafts] /\ decider' \in [Deciders -> Decisions]
  BY <1>1, <1>2 DEF PlanInv, PlanShapes
<1>4. \A p \in Proposals : p # q => proposals'[p] = proposals[p]
  BY <1>2 DEF PlanInv, PlanShapes
<1>5. proposals'[q] = row
  BY <1>2 DEF PlanInv, PlanShapes
<1> QED
  BY <1>1, <1>2, <1>3, <1>4, <1>5, ProposalsChange

LEMMA ExpireKeeps ==
  ASSUME PlanInv, NEW S \in SUBSET Proposals, ExpirePending(S)
  PROVE  PlanInv'
<1>1. /\ proposals' = [q \in Proposals |-> IF q \in S THEN [proposals[q] EXCEPT !.status = "expired"] ELSE proposals[q]]
      /\ UNCHANGED <<versions, planAdmins, inflow, seconds, decider>>
  BY DEF ExpirePending, PlanSame
<1>2. \A q \in Proposals :
        /\ proposals'[q] \in Drafts
        /\ q \notin S => proposals'[q] = proposals[q]
        /\ q \in S => /\ proposals[q].status = "pending" /\ ~RequestLocked(q)
                      /\ proposals'[q].status = "expired" /\ proposals'[q].payload = proposals[q].payload
  BY <1>1 DEF ExpirePending, PlanInv, PlanShapes, Drafts
<1>3. proposals' \in [Proposals -> Drafts]
  BY <1>1, <1>2
<1>4. decider' \in [Deciders -> Decisions]
  BY <1>1 DEF PlanInv, PlanShapes
<1> QED
  BY <1>1, <1>2, <1>3, <1>4, ProposalsChange

LEMMA BeginKeeps ==
  ASSUME PlanInv, NEW d \in Deciders, NEW a \in PlanAdmins, NEW q \in Proposals, NEW approve \in BOOLEAN,
         BeginDecision(d, a, q, approve)
  PROVE  PlanInv'
<1> DEFINE call == [NoDecider EXCEPT !.pc = "decide", !.admin = {a}, !.request = {q}, !.approve = approve,
                                     !.stamp = seconds]
<1>1. call \in Decisions /\ call.pc = "decide" /\ call.request = {q}
  BY NobodyDecides DEF NoDecider, Decisions, PlanInv, PlanShapes
<1>2. /\ decider' = [decider EXCEPT ![d] = call] /\ proposals[q].status # "none"
      /\ UNCHANGED <<versions, proposals, planAdmins, inflow, seconds>>
  BY DEF BeginDecision, PlanSame
<1> HIDE DEF call
<1> QED
  BY <1>1, <1>2, DecisionStep DEF Approving

\* The step of a decision that only moves on.
LEMMA MovesOn ==
  ASSUME PlanInv, NEW d \in Deciders, NEW pc \in {"simulate", "read", "close", "commit"},
         NEW call, call = [decider[d] EXCEPT !.pc = pc]
  PROVE  /\ call \in Decisions /\ call.pc = pc /\ call.request = decider[d].request
         /\ call.current = decider[d].current
  BY DEF PlanInv, PlanShapes, Decisions

\* One that has the row of its proposal keeps it.
LEMMA StaysAlone ==
  ASSUME PlanInv, NEW d \in Deciders, decider[d].pc \in Approving
  PROVE  /\ \E q \in Proposals : decider[d].request = {q} /\ proposals[q].status = "pending"
         /\ \A e \in Deciders \ {d} : decider[e].pc \in Approving => decider[e].request # decider[d].request
  BY DEF PlanInv, DecisionsKnow, OneDecision, Approving

LEMMA DecideRowKeeps ==
  ASSUME PlanInv, NEW d \in Deciders, DecideRow(d)
  PROVE  PlanInv'
<1>1. PICK q \in decider[d].request : DecideRow(d)!(q)
  BY DEF DecideRow
<1>2. decider[d].pc = "decide" /\ ~RequestLocked(q) /\ PlanSame
  BY <1>1 DEF Holds
<1>3. q \in Proposals /\ decider[d].request = {q}
  BY <1>1, <1>2 DEF PlanInv, DecisionsKnow
<1>4. CASE proposals[q].status # "pending" \/ ~FourEyes(q, decider[d].admin)
  BY <1>1, <1>2, <1>4, RollbackKeeps DEF PlanSame
<1>5. CASE ~(proposals[q].status # "pending" \/ ~FourEyes(q, decider[d].admin)) /\ decider[d].approve
  <2> DEFINE call == [decider[d] EXCEPT !.pc = "simulate"]
  <2>1. decider' = [decider EXCEPT ![d] = call] /\ UNCHANGED proposals
    BY <1>1, <1>5 DEF PlanInv, PlanShapes
  <2>2. call \in Decisions /\ call.pc = "simulate" /\ call.request = {q}
    BY <1>3, MovesOn
  <2> HIDE DEF call
  <2>3. \A e \in Deciders \ {d} : decider[e].pc \in Approving => decider[e].request # {q}
    BY <1>2 DEF RequestLocked, Holds, Approving
  <2> QED
    BY <1>2, <1>3, <1>5, <2>1, <2>2, <2>3, DecisionStep DEF PlanSame
<1>6. CASE ~(proposals[q].status # "pending" \/ ~FourEyes(q, decider[d].admin)) /\ ~decider[d].approve
  <2>1. proposals' = [proposals EXCEPT ![q].status = "rejected"] /\ Rollback(d)
    BY <1>1, <1>6
  <2>2. /\ proposals' \in [Proposals -> Drafts]
        /\ proposals'[q].status = "rejected" /\ proposals'[q].payload = proposals[q].payload
        /\ \A p \in Proposals : p # q => proposals'[p] = proposals[p]
    BY <2>1, <1>3 DEF PlanInv, PlanShapes, Drafts
  <2>3. /\ decider' \in [Deciders -> Decisions]
        /\ \A e \in Deciders : decider'[e] = decider[e] \/ decider'[e].pc = "idle"
    BY <2>1, NobodyDecides DEF Rollback, PlanInv, PlanShapes
  <2> QED
    BY <1>2, <1>6, <2>2, <2>3, ProposalsChange DEF PlanSame
<1> QED
  BY <1>4, <1>5, <1>6

LEMMA SimulateKeeps ==
  ASSUME PlanInv, NEW d \in Deciders, SimulatePlanTheta(d)
  PROVE  PlanInv'
<1> DEFINE call == [decider[d] EXCEPT !.pc = "read"]
<1>1. /\ decider[d].pc = "simulate" /\ UNCHANGED <<versions, proposals, planAdmins, inflow, seconds>>
      /\ decider' = [decider EXCEPT ![d].pc = "read"] \/ Rollback(d)
  BY DEF SimulatePlanTheta, Holds, PlanSame
<1>2. CASE decider' = [decider EXCEPT ![d].pc = "read"]
  <2>1. decider' = [decider EXCEPT ![d] = call]
    BY <1>2 DEF PlanInv, PlanShapes
  <2>2. call \in Decisions /\ call.pc = "read" /\ call.request = decider[d].request
    BY MovesOn
  <2> HIDE DEF call
  <2> QED
    BY <1>1, <2>1, <2>2, StaysAlone, DecisionStep, ZenonT(60) DEF Approving
<1> QED
  BY <1>1, <1>2, RollbackKeeps

LEMMA ReadKeeps ==
  ASSUME PlanInv, NEW d \in Deciders, ReadCurrent(d)
  PROVE  PlanInv'
<1>1. PICK v \in InForce(decider[d].stamp) : decider' = [decider EXCEPT ![d].pc = "close", ![d].current = v]
  BY DEF ReadCurrent
<1> DEFINE call == [decider[d] EXCEPT !.pc = "close", !.current = v]
<1>2. v \in versions /\ v \in Versions
  BY <1>1 DEF InForce, PlanInv, PlanShapes
<1>3. decider[d].pc = "read" /\ UNCHANGED <<versions, proposals, planAdmins, inflow, seconds>>
  BY DEF ReadCurrent, Holds, PlanSame
<1>4. decider' = [decider EXCEPT ![d] = call]
  BY <1>1 DEF PlanInv, PlanShapes
<1>5. call \in Decisions /\ call.pc = "close" /\ call.request = decider[d].request /\ call.current = v
  BY <1>2 DEF PlanInv, PlanShapes, Decisions
<1> HIDE DEF call
<1> QED
  BY <1>2, <1>3, <1>4, <1>5, StaysAlone, DecisionStep, ZenonT(60) DEF Approving

LEMMA CloseKeeps ==
  ASSUME PlanInv, NEW d \in Deciders, ClosePlan(d)
  PROVE  PlanInv'
<1> DEFINE call == [decider[d] EXCEPT !.pc = "commit"]
<1>1. /\ decider[d].pc = "close" /\ UNCHANGED <<versions, proposals, planAdmins, inflow, seconds>>
      /\ decider' = [decider EXCEPT ![d].pc = "commit"] \/ Rollback(d)
  BY DEF ClosePlan, Holds, PlanSame
<1>2. CASE decider' = [decider EXCEPT ![d].pc = "commit"]
  <2>1. decider' = [decider EXCEPT ![d] = call]
    BY <1>2 DEF PlanInv, PlanShapes
  <2>2. /\ call \in Decisions /\ call.pc = "commit" /\ call.request = decider[d].request
        /\ call.current = decider[d].current
    BY MovesOn
  <2>3. \E v \in versions : v.from = call.current.from /\ v.config = call.current.config
    BY <1>1, <2>2 DEF PlanInv, CurrentStays
  <2> HIDE DEF call
  <2>4. /\ \E q \in Proposals : call.request = {q} /\ proposals[q].status = "pending"
        /\ \A e \in Deciders \ {d} : decider[e].pc \in Approving => decider[e].request # call.request
    BY <1>1, <2>2, StaysAlone DEF Approving
  <2> QED
    BY <1>1, <2>1, <2>2, <2>3, <2>4, DecisionStep DEF Approving
<1> QED
  BY <1>1, <1>2, RollbackKeeps

\* The commit: what it closes is the version that is open, and no other.
LEMMA CommitKeeps ==
  ASSUME PlanInv, NEW d \in Deciders, CommitPlan(d)
  PROVE  PlanInv'
<1> DEFINE current == decider[d].current
<1> DEFINE stamp == decider[d].stamp
<1> DEFINE closed == {IF v.from = current.from THEN [v EXCEPT !.to = stamp] ELSE v : v \in versions}
<1> DEFINE version(p) == [from |-> stamp, to |-> Forever, request |-> {p},
                          config |-> Changed(current.config, proposals[p].payload)]
<1>1. PICK q \in decider[d].request :
        /\ Holds(d, {"commit"})
        /\ IF stamp \notin {v.from : v \in versions} /\ FourEyes(q, decider[d].admin)
              /\ Admissible(version(q).config) /\ Compatible(closed \cup {version(q)})
           THEN /\ versions' = closed \cup {version(q)}
                /\ proposals' = [proposals EXCEPT ![q].status = "executed"]
           ELSE UNCHANGED <<versions, proposals>>
        /\ Rollback(d)
        /\ UNCHANGED <<planAdmins, inflow, seconds>>
  BY DEF CommitPlan
<1> DEFINE next == version(q)
<1>2. decider[d].pc = "commit" /\ Rollback(d) /\ UNCHANGED <<planAdmins, inflow, seconds>>
  BY <1>1 DEF Holds
<1>3. q \in Proposals /\ decider[d].request = {q} /\ proposals[q].status = "pending"
  BY <1>1, <1>2, StaysAlone DEF Approving
<1>4. CASE UNCHANGED <<versions, proposals>>
  BY <1>2, <1>4, RollbackKeeps
<1>5. CASE ~UNCHANGED <<versions, proposals>>
  <2>1. /\ stamp \notin {v.from : v \in versions} /\ Admissible(next.config)
        /\ Compatible(closed \cup {next})
        /\ versions' = closed \cup {next} /\ proposals' = [proposals EXCEPT ![q].status = "executed"]
    BY <1>1, <1>5
  <2>2. stamp \in 0..MaxTime
    BY DEF PlanInv, PlanShapes, Decisions
  <2>3. next.from = stamp /\ next.to = Forever /\ next.request = {q}
        /\ next.config = Changed(current.config, proposals[q].payload)
    OBVIOUS
  <2>4. PICK u \in versions : u.to = Forever
    BY DEF PlanInv, OneOpen
  <2>5. \A v \in versions : v \in Versions /\ v.from \in 0..MaxTime /\ v.from # Forever
    BY MaxTimeNat DEF PlanInv, PlanShapes, Versions
  <2>6. \A v, w \in versions : v # w => v.from # w.from
    BY DEF PlanInv, Compatible
  <2> HIDE DEF version
  <2>7. u.from = current.from
    <3> SUFFICES ASSUME u.from # current.from PROVE FALSE
      OBVIOUS
    <3>1. u \in closed /\ u # next
      BY <2>1, <2>3, <2>4
    <3>2. ~Overlap(u, next)
      BY <2>1, <3>1 DEF Compatible
    <3> QED
      BY <3>2, <2>2, <2>3, <2>4, <2>5, MaxTimeNat DEF Overlap
  <2>8. u.config = current.config
    <3>1. PICK v \in versions : v.from = current.from /\ v.config = current.config
      BY <1>2 DEF PlanInv, CurrentStays
    <3> QED
      BY <3>1, <2>6, <2>7
  <2> DEFINE ended == [u EXCEPT !.to = stamp]
  <2>9. /\ ended \in Versions /\ ended.from = u.from /\ ended.to = stamp /\ ended.config = u.config
        /\ ended.request = u.request
    BY <2>2, <2>5, MaxTimeNat DEF Versions
  <2>10. closed = (versions \ {u}) \cup {ended}
    <3>1. \A v \in versions : v.from = current.from <=> v = u
      BY <2>6, <2>7
    <3> QED
      BY <3>1
  <2> HIDE DEF ended, closed
  <2>11. versions' = (versions \ {u}) \cup {ended, next}
    BY <2>1, <2>10
  <2>12. next \in Versions
    <3>1. current.config \in Plans
      BY <2>5, <2>8 DEF Versions
    <3>2. Within(proposals[q].payload)
      BY <1>3 DEF PlanInv, ProposalsWithin
    <3>3. next.config \in Plans
      BY <2>1, <2>3, <3>1, <3>2, ChangedIsPlan
    <3> QED
      BY <1>3, <2>2, <2>3, <3>3, MaxTimeNat DEF Versions, version
  <2>13. /\ proposals' \in [Proposals -> Drafts]
         /\ proposals'[q].status = "executed" /\ \A p \in Proposals \ {q} : proposals'[p] = proposals[p]
         /\ \A p \in Proposals : proposals'[p].payload = proposals[p].payload
    BY <2>1, <1>3 DEF PlanInv, PlanShapes, Drafts
  <2>14. /\ decider' \in [Deciders -> Decisions] /\ decider'[d].pc = "idle"
         /\ \A e \in Deciders \ {d} : decider'[e] = decider[e]
    BY <1>2, NobodyDecides DEF Rollback, PlanInv, PlanShapes
  <2>15. PlanShapes'
    BY <1>2, <2>9, <2>11, <2>12, <2>13, <2>14 DEF PlanInv, PlanShapes
  <2>16. ProposalsWithin'
    <3> SUFFICES ASSUME NEW p \in Proposals, proposals'[p].status # "none" PROVE Within(proposals'[p].payload)
      BY DEF ProposalsWithin
    <3> QED
      BY <1>3, <2>13 DEF PlanInv, ProposalsWithin
  <2>17. OneRequestEach' /\ OneOpen' /\ Compatible(versions)'
    <3>1. OneRequestEach'
      BY <1>3, <2>3, <2>9, <2>11 DEF PlanInv, OneRequestEach
    <3>2. OneOpen'
      BY <2>3, <2>11 DEF OneOpen
    <3> QED
      BY <3>1, <3>2, <2>1 DEF Compatible, Overlap
  <2>18. DecisionsKnow'
    <3> SUFFICES ASSUME NEW e \in Deciders, decider'[e].pc # "idle"
                 PROVE  \E p \in Proposals :
                          /\ decider'[e].request = {p} /\ proposals'[p].status # "none"
                          /\ decider'[e].pc \in Approving => proposals'[p].status = "pending"
      BY DEF DecisionsKnow
    <3>1. e # d /\ decider'[e] = decider[e]
      BY <2>14
    <3>2. PICK p \in Proposals :
            /\ decider[e].request = {p} /\ proposals[p].status # "none"
            /\ decider[e].pc \in Approving => proposals[p].status = "pending"
      BY <3>1 DEF PlanInv, DecisionsKnow
    <3>3. decider[e].pc \in Approving => p # q
      BY <1>2, <1>3, <3>1, <3>2, StaysAlone DEF Approving
    <3> QED
      BY <3>1, <3>2, <3>3, <2>13
  <2>19. CurrentStays'
    <3> SUFFICES ASSUME NEW e \in Deciders, decider'[e].pc \in {"close", "commit"}
                 PROVE  \E v \in versions' : v.from = decider'[e].current.from /\ v.config = decider'[e].current.config
      BY DEF CurrentStays
    <3>1. e # d /\ decider'[e] = decider[e]
      BY <2>14
    <3>2. PICK v \in versions : v.from = decider[e].current.from /\ v.config = decider[e].current.config
      BY <3>1 DEF PlanInv, CurrentStays
    <3> QED
      BY <3>1, <3>2, <2>9, <2>11
  <2>20. OneDecision'
    BY <2>14 DEF PlanInv, OneDecision, Approving
  <2>21. NoChangeLost'
    <3>1. \A v \in versions' : \A p \in v.request :
            \E w \in versions' : w.to = v.from /\ v.config = Changed(w.config, proposals'[p].payload)
      <4>1. ASSUME NEW v \in versions, NEW p \in v.request
            PROVE  \E w \in versions' : w.to = v.from /\ v.config = Changed(w.config, proposals'[p].payload)
        <5>1. PICK w \in versions : w.to = v.from /\ v.config = Changed(w.config, proposals[p].payload)
          BY <4>1 DEF PlanInv, NoChangeLost
        <5>2. w # u /\ w \in versions'
          BY <5>1, <2>4, <2>5, <2>11
        <5>3. p \in Proposals
          BY <4>1, <2>5 DEF Versions
        <5> QED
          BY <5>1, <5>2, <5>3, <2>13
      <4>2. \A p \in next.request : ended.to = next.from /\ next.config = Changed(ended.config, proposals'[p].payload)
        BY <1>3, <2>3, <2>8, <2>9, <2>13
      <4>3. \A v \in versions' : v = next \/ \E w \in versions : v.from = w.from /\ v.config = w.config /\ v.request = w.request
        BY <2>9, <2>11
      <4> QED
        BY <4>1, <4>2, <4>3, <2>11
    <3>2. \A v, w \in versions' : v.from = w.from \/ v.to <= w.from \/ w.to <= v.from
      <4>1. \A v, w \in versions' : v # w => ~Overlap(v, w)
        BY <2>1 DEF Compatible
      <4>2. \A v \in versions' : v.from \in Int /\ v.to \in Int
        BY <2>15, MaxTimeNat DEF PlanShapes, Versions
      <4> QED
        BY <4>1, <4>2 DEF Overlap
    <3>3. ~\E v \in versions : v.request = {q}
      BY <1>3 DEF PlanInv, NoChangeLost
    <3>4. \A p \in Proposals : proposals'[p].status = "executed" <=> \E v \in versions' : v.request = {p}
      <4> SUFFICES ASSUME NEW p \in Proposals
                   PROVE  proposals'[p].status = "executed" <=> \E v \in versions' : v.request = {p}
        OBVIOUS
      <4>1. CASE p = q
        BY <4>1, <2>3, <2>11, <2>13
      <4>2. CASE p # q
        <5>1. proposals'[p].status = "executed" <=> \E v \in versions : v.request = {p}
          BY <4>2, <2>13 DEF PlanInv, NoChangeLost
        <5>2. (\E v \in versions' : v.request = {p}) <=> \E v \in versions : v.request = {p}
          BY <4>2, <2>3, <2>4, <2>9, <2>11
        <5> QED
          BY <5>1, <5>2
      <4> QED
        BY <4>1, <4>2
    <3>5. \A v, w \in versions' : v.request = w.request => v = w \/ v.request = {}
      <4>1. \A v, w \in versions : v.request = w.request => v = w \/ v.request = {}
        BY DEF PlanInv, NoChangeLost
      <4> QED
        BY <4>1, <3>3, <2>3, <2>4, <2>9, <2>11
    <3> QED
      BY <3>1, <3>2, <3>4, <3>5 DEF NoChangeLost
  <2> QED
    BY <2>15, <2>16, <2>17, <2>18, <2>19, <2>20, <2>21 DEF PlanInv
<1> QED
  BY <1>4, <1>5

\* The world goes on without touching plans or proposals.
LEMMA WorldKeeps ==
  ASSUME PlanInv, UNCHANGED <<versions, proposals, decider>>,
         planAdmins' \subseteq PlanAdmins, inflow' \in Inflows, seconds' \in 0..MaxTime
  PROVE  PlanInv'
<1>1. PlanShapes'
  BY DEF PlanInv, PlanShapes
<1>2. DecisionsKnow' /\ CurrentStays' /\ OneDecision'
  BY DEF PlanInv, DecisionsKnow, CurrentStays, OneDecision
<1> QED
  BY <1>1, <1>2, BooksAlone DEF PlanInv

LEMMA PlanSteps ==
  ASSUME PlanInv, [PlanNext]_planVars
  PROVE  PlanInv'
<1>1. planAdmins \subseteq PlanAdmins /\ inflow \in Inflows /\ seconds \in 0..MaxTime
  BY DEF PlanInv, PlanShapes
<1>2. ASSUME NEW a \in PlanAdmins, RevokeAdmin(a) PROVE PlanInv'
  BY <1>1, <1>2, WorldKeeps DEF RevokeAdmin
<1>3. CASE MembersPay
  BY <1>1, <1>3, WorldKeeps DEF MembersPay
<1>4. CASE SecondPasses
  BY <1>1, <1>4, WorldKeeps, MaxTimeNat DEF SecondPasses
<1>5. CASE UNCHANGED planVars
  BY <1>1, <1>5, WorldKeeps DEF planVars
<1>6. ASSUME NEW d \in Deciders, DecisionFails(d) PROVE PlanInv'
  BY <1>6, RollbackKeeps DEF DecisionFails, PlanSame
<1> QED
  BY <1>2, <1>3, <1>4, <1>5, <1>6, ProposeKeeps, BeginKeeps, DecideRowKeeps, SimulateKeeps, ReadKeeps, CloseKeeps,
     CommitKeeps, ExpireKeeps DEF PlanNext

LEMMA PlanInvariant == PlanSpec => []PlanInv
  BY PlanStarts, PlanSteps, PTL DEF PlanSpec

\* Versions, proposals and decisions are what the tables and the handler allow: no published plan has a
\* field outside its range.
THEOREM PlanTypeCorrect == PlanSpec => []PlanTypeOK
<1>1. PlanInv => PlanTypeOK
  BY DEF PlanInv, PlanShapes, PlanTypeOK, Versions, Drafts, Decisions, Plans
<1> QED
  BY <1>1, PlanInvariant, PTL

\* However many decisions overlap and whichever began first, every version continues the one it follows,
\* one version is in force at a time, and an approved proposal is published once (plan.go executePlanPublish).
THEOREM ChangesAreKept == PlanSpec => []NoChangeLost
  BY PlanInvariant, PTL DEF PlanInv

-----------------------------------------------------------------------------
(* Ledger: the inductive invariant.                                        *)

Calls == [pc : {"idle", "lookup", "begin"} \cup InTransaction, ref : SUBSET Refs, doomed : BOOLEAN, seen : Nat]

\* The shape of a call: one that is under way is about one reference, which moves something.
CallsShaped ==
  /\ poster \in [Callers -> Calls]
  /\ \A c \in Callers : poster[c].pc # "idle" =>
       \E r \in Refs : poster[c].ref = {r} /\ DOMAIN Meant[r] # {}

\* A transaction that nobody has overtaken knows every insertion of its reference.
SnapshotHolds ==
  \A c \in Callers, r \in Refs :
    poster[c].pc \in InTransaction /\ poster[c].ref = {r} /\ ~poster[c].doomed => poster[c].seen = movements[r]

\* The row of a reference, and of a wallet, is held by one transaction.
RefHeldOnce == \A c, d \in Callers, r \in Refs : HoldsRef(c, r) /\ HoldsRef(d, r) => c = d
WalletHeldOnce == \A c, d \in Callers, w \in Wallets : HoldsWallet(c, w) /\ HoldsWallet(d, w) => c = d

\* What reaches the end was not overtaken: every row it writes is its own by then.
PostIsSure == \A c \in Callers : poster[c].pc = "post" => ~poster[c].doomed

LInv ==
  LedgerTypeOK /\ CallsShaped /\ SnapshotHolds /\ RefHeldOnce /\ WalletHeldOnce /\ PostIsSure

-----------------------------------------------------------------------------
LEMMA LedgerStarts == LedgerInit => LInv
<1> SUFFICES ASSUME LedgerInit PROVE LInv
  OBVIOUS
<1>1. \A c \in Callers : poster[c].pc = "idle"
  BY DEF LedgerInit, Calm
<1>2. LedgerTypeOK
  BY <1>1 DEF LedgerInit, LedgerTypeOK
<1>3. CallsShaped
  BY <1>1 DEF LedgerInit, CallsShaped, Calls, Calm
<1>4. SnapshotHolds /\ RefHeldOnce /\ WalletHeldOnce /\ PostIsSure
  BY <1>1 DEF SnapshotHolds, RefHeldOnce, WalletHeldOnce, PostIsSure, HoldsRef, HoldsWallet, InTransaction
<1> QED
  BY <1>2, <1>3, <1>4 DEF LInv

\* A step of one call, towards a step that holds nothing new, leaves everybody else alone.
LEMMA CallStep ==
  ASSUME LInv, LedgerSame, NEW c \in Callers, NEW call \in Calls,
         poster' = [poster EXCEPT ![c] = call],
         call.pc # "idle" => \E r \in Refs : call.ref = {r} /\ DOMAIN Meant[r] # {},
         \A r \in Refs : call.pc \in InTransaction /\ call.ref = {r} /\ ~call.doomed => call.seen = movements[r],
         \A r \in Refs, d \in Callers \ {c} : call.pc \in {"insert", "post"} /\ call.ref = {r} => ~HoldsRef(d, r),
         \A w \in Wallets, d \in Callers \ {c}, r \in Refs :
           call.pc = "post" /\ call.ref = {r} /\ w \in DOMAIN Meant[r] => ~HoldsWallet(d, w),
         call.pc = "post" => ~call.doomed
  PROVE  LInv'
<1> USE DEF LInv, LedgerSame
<1>1. poster'[c] = call /\ \A d \in Callers \ {c} : poster'[d] = poster[d]
  BY DEF CallsShaped
<1>2. CallsShaped'
  BY <1>1 DEF CallsShaped
<1>3. LedgerTypeOK'
  BY <1>2 DEF LedgerTypeOK, CallsShaped, Calls
<1>4. SnapshotHolds'
  BY <1>1 DEF SnapshotHolds
<1>5. RefHeldOnce'
  BY <1>1 DEF RefHeldOnce, HoldsRef
<1>6. WalletHeldOnce'
  <2> SUFFICES ASSUME NEW e \in Callers, NEW d \in Callers, NEW w \in Wallets, HoldsWallet(e, w)', HoldsWallet(d, w)'
               PROVE  e = d
    BY DEF WalletHeldOnce
  <2>1. \A x \in Callers \ {c} : HoldsWallet(x, w)' => HoldsWallet(x, w)
    BY <1>1 DEF HoldsWallet
  <2>2. ASSUME HoldsWallet(c, w)', NEW x \in Callers \ {c} PROVE ~HoldsWallet(x, w)
    <3>1. call.pc = "post" /\ \E r \in call.ref : w \in DOMAIN Meant[r]
      BY <1>1, <2>2 DEF HoldsWallet
    <3> QED
      BY <3>1
  <2> QED
    BY <2>1, <2>2 DEF WalletHeldOnce
<1>7. PostIsSure'
  BY <1>1 DEF PostIsSure
<1> QED
  BY <1>2, <1>3, <1>4, <1>5, <1>6, <1>7

\* The end of a call, well or badly.
LEMMA CallEnding ==
  ASSUME LInv, LedgerSame, NEW c \in Callers, CallEnds(c)
  PROVE  LInv'
<1>1. Calm \in Calls /\ Calm.pc = "idle"
  BY DEF Calm, Calls, InTransaction
<1> QED
  BY <1>1, CallStep DEF CallEnds, InTransaction

-----------------------------------------------------------------------------
(* The commit.                                                             *)

\* What the one that posts has in its hands.
LEMMA AtThePost ==
  ASSUME LInv, NEW c \in Callers, NEW r \in Refs, poster[c].pc = "post", poster[c].ref = {r}
  PROVE  /\ poster[c].seen = movements[r]
         /\ \A d \in Callers \ {c} : ~HoldsRef(d, r)
         /\ \A d \in Callers \ {c} : poster[d].pc = "post" => ~Conflicts(d, c, r)
<1> USE DEF LInv
<1>1. poster[c].seen = movements[r]
  BY DEF PostIsSure, SnapshotHolds, InTransaction
<1>2. \A d \in Callers \ {c} : ~HoldsRef(d, r)
  BY DEF RefHeldOnce, HoldsRef
<1>3. ASSUME NEW d \in Callers \ {c}, poster[d].pc = "post", Conflicts(d, c, r) PROVE FALSE
  <2>1. PICK s \in Refs : poster[d].ref = {s}
    BY <1>3 DEF CallsShaped
  <2>2. s # r
    BY <1>2, <1>3, <2>1 DEF HoldsRef
  <2>3. PICK w \in DOMAIN Meant[s] : w \in DOMAIN Meant[r]
    BY <1>3, <2>1, <2>2 DEF Conflicts
  <2>4. w \in Wallets
    BY <2>1, LedgerAssumption
  <2>5. HoldsWallet(c, w) /\ HoldsWallet(d, w)
    BY <1>3, <2>1, <2>3 DEF HoldsWallet
  <2> QED
    BY <2>4, <2>5 DEF WalletHeldOnce
<1> QED
  BY <1>1, <1>2, <1>3

LEMMA PostKeeps ==
  ASSUME LInv, NEW c \in Callers, MarkPosted(c)
  PROVE  LInv'
<1>1. PICK r \in poster[c].ref : MarkPosted(c)!(r)
  BY DEF MarkPosted
<1>2. poster[c].pc = "post" /\ r \in Refs /\ poster[c].ref = {r}
  BY <1>1 DEF LInv, CallsShaped
<1>3. CASE ~Validates(r)
  BY <1>1, <1>3, CallEnding DEF LedgerSame, MarkPosted
<1>4. CASE Validates(r)
  <2> DEFINE overtaken(d) == Conflicts(d, c, r)
  <2>1. /\ transaction' = [transaction EXCEPT ![r] = "posted"]
        /\ movements' = [movements EXCEPT ![r] = @ + 1]
        /\ wallet' = [w \in Wallets |-> IF w \in DOMAIN Meant[r] THEN wallet[w] + Meant[r][w] ELSE wallet[w]]
        /\ guarded' = guarded
        /\ poster' = [d \in Callers |->
             IF d = c THEN Calm ELSE IF overtaken(d) THEN [poster[d] EXCEPT !.doomed = TRUE] ELSE poster[d]]
    BY <1>1, <1>4 DEF MarkPosted
  <2>2. \A d \in Callers : d # c =>
          /\ poster'[d] = IF overtaken(d) THEN [poster[d] EXCEPT !.doomed = TRUE] ELSE poster[d]
    BY <2>1
  <2>3. poster'[c] = Calm
    BY <2>1
  <2> HIDE DEF overtaken
  <2>4. \A d \in Callers \ {c} :
          /\ poster'[d] \in Calls
          /\ poster'[d].pc = poster[d].pc /\ poster'[d].ref = poster[d].ref /\ poster'[d].seen = poster[d].seen
          /\ ~overtaken(d) => poster'[d].doomed = poster[d].doomed
          /\ overtaken(d) => poster'[d].doomed
    BY <2>2, ZenonT(60) DEF LInv, CallsShaped, Calls
  <2>5. CallsShaped'
    <3>1. poster' \in [Callers -> Calls]
      BY <2>1, <2>3, <2>4 DEF Calls, Calm
    <3> QED
      BY <3>1, <2>3, <2>4 DEF LInv, CallsShaped, Calm
  <2>6. LedgerTypeOK'
    <3>1. \A w \in DOMAIN Meant[r] : Meant[r][w] \in Int
      BY <1>2, LedgerAssumption
    <3>2. wallet' \in [Wallets -> Int]
      BY <2>1, <3>1 DEF LInv, LedgerTypeOK
    <3>3. movements' \in [Refs -> Nat] /\ transaction' \in [Refs -> {"none", "posted"}] /\ guarded' \in BOOLEAN
      <4>1. movements' \in [Refs -> Nat]
        BY <2>1, <1>2 DEF LInv, LedgerTypeOK
      <4>2. transaction' \in [Refs -> {"none", "posted"}]
        BY <2>1, <1>2 DEF LInv, LedgerTypeOK
      <4>3. guarded' \in BOOLEAN
        BY <2>1, Zenon DEF LInv, LedgerTypeOK
      <4> QED
        BY <4>1, <4>2, <4>3
    <3> QED
      BY <3>2, <3>3, <2>5 DEF LedgerTypeOK, CallsShaped, Calls
  <2>7. SnapshotHolds'
    <3> SUFFICES ASSUME NEW d \in Callers, NEW s \in Refs,
                        poster'[d].pc \in InTransaction, poster'[d].ref = {s}, ~poster'[d].doomed
                 PROVE  poster'[d].seen = movements'[s]
      BY DEF SnapshotHolds
    <3>1. d # c
      BY <2>3 DEF Calm, InTransaction
    <3>2. ~overtaken(d) /\ poster[d].seen = movements[s]
      BY <3>1, <2>4 DEF LInv, SnapshotHolds
    <3>3. s # r
      BY <3>1, <3>2, <2>4 DEF overtaken, Conflicts
    <3> QED
      BY <3>1, <3>2, <3>3, <2>1, <2>4 DEF LInv, LedgerTypeOK
  <2>8. RefHeldOnce'
    BY <2>3, <2>4 DEF LInv, RefHeldOnce, HoldsRef, Calm
  <2>9. WalletHeldOnce'
    BY <2>3, <2>4 DEF LInv, WalletHeldOnce, HoldsWallet, Calm
  <2>10. PostIsSure'
    BY <2>3, <2>4, <1>2, AtThePost DEF LInv, PostIsSure, Calm, overtaken
  <2> QED
    BY <2>5, <2>6, <2>7, <2>8, <2>9, <2>10 DEF LInv
<1> QED
  BY <1>3, <1>4

-----------------------------------------------------------------------------
LEMMA LedgerSteps ==
  ASSUME LInv, [LedgerNext]_ledgerVars
  PROVE  LInv'
<1> USE DEF InTransaction
<1>1. ASSUME NEW c \in Callers, NEW r \in Refs, PostTransaction(c, r) PROVE LInv'
  <2> DEFINE call == [Calm EXCEPT !.pc = "lookup", !.ref = {r}]
  <2>1. call \in Calls /\ call.pc = "lookup" /\ call.ref = {r}
    BY DEF Calm, Calls
  <2>2. poster' = [poster EXCEPT ![c] = call] /\ LedgerSame /\ DOMAIN Meant[r] # {}
    BY <1>1 DEF PostTransaction
  <2> HIDE DEF call
  <2> QED
    BY <2>1, <2>2, CallStep
<1>2. ASSUME NEW c \in Callers, LookUp(c) PROVE LInv'
  <2>1. PICK r \in poster[c].ref : LookUp(c)!(r)
    BY <1>2 DEF LookUp
  <2>2. CASE transaction[r] = "posted"
    BY <2>1, <2>2, CallEnding DEF LookUp
  <2>3. CASE transaction[r] # "posted"
    <3> DEFINE call == [poster[c] EXCEPT !.pc = "begin"]
    <3>1. poster' = [poster EXCEPT ![c] = call] /\ LedgerSame /\ poster[c].pc = "lookup"
      BY <2>1, <2>3 DEF LookUp, CallGoesTo, LInv, CallsShaped
    <3>2. call \in Calls /\ call.pc = "begin" /\ call.ref = poster[c].ref
      BY DEF LInv, CallsShaped, Calls
    <3>3. \E s \in Refs : call.ref = {s} /\ DOMAIN Meant[s] # {}
      BY <3>1, <3>2 DEF LInv, CallsShaped
    <3> HIDE DEF call
    <3> QED
      BY <3>1, <3>2, <3>3, CallStep
  <2> QED
    BY <2>2, <2>3
<1>3. ASSUME NEW c \in Callers, BeginTransaction(c) PROVE LInv'
  <2>1. PICK r \in poster[c].ref : BeginTransaction(c)!(r)
    BY <1>3 DEF BeginTransaction
  <2> DEFINE call == [poster[c] EXCEPT !.pc = "upsert", !.seen = movements[r]]
  <2>2. poster' = [poster EXCEPT ![c] = call] /\ LedgerSame /\ poster[c].pc = "begin"
    BY <2>1 DEF BeginTransaction, LInv, CallsShaped
  <2>3. poster[c].ref = {r} /\ r \in Refs /\ DOMAIN Meant[r] # {}
    BY <2>2 DEF LInv, CallsShaped
  <2>4. call \in Calls /\ call.pc = "upsert" /\ call.ref = {r} /\ call.seen = movements[r]
    BY <2>3 DEF LInv, CallsShaped, Calls, LedgerTypeOK
  <2> HIDE DEF call
  <2> QED
    BY <2>2, <2>3, <2>4, CallStep, ZenonT(60)
<1>4. ASSUME NEW c \in Callers, UpsertTransaction(c) PROVE LInv'
  <2>1. PICK r \in poster[c].ref : UpsertTransaction(c)!(r)
    BY <1>4 DEF UpsertTransaction
  <2>2. CASE poster[c].doomed
    BY <2>1, <2>2, CallEnding DEF UpsertTransaction
  <2>3. CASE ~poster[c].doomed
    <3> DEFINE call == [poster[c] EXCEPT !.pc = "insert"]
    <3>1. poster' = [poster EXCEPT ![c] = call] /\ LedgerSame /\ poster[c].pc = "upsert"
          /\ \A d \in Callers \ {c} : ~HoldsRef(d, r)
      BY <2>1, <2>3 DEF UpsertTransaction, CallGoesTo, LInv, CallsShaped
    <3>2. poster[c].ref = {r} /\ r \in Refs /\ DOMAIN Meant[r] # {}
      BY <3>1 DEF LInv, CallsShaped
    <3>3. poster[c].seen = movements[r]
      BY <2>3, <3>1, <3>2 DEF LInv, SnapshotHolds
    <3>4. call \in Calls /\ call.pc = "insert" /\ call.ref = {r} /\ call.seen = movements[r]
      BY <3>2, <3>3 DEF LInv, CallsShaped, Calls
    <3> HIDE DEF call
    <3>5. \A s \in Refs : call.ref = {s} => s = r
      BY <3>4
    <3>6. \A s \in Refs, d \in Callers \ {c} :
            call.pc \in {"insert", "post"} /\ call.ref = {s} => ~HoldsRef(d, s)
      BY <3>1, <3>5
    <3>7. /\ call.pc # "idle" => \E s \in Refs : call.ref = {s} /\ DOMAIN Meant[s] # {}
          /\ \A s \in Refs : call.pc \in InTransaction /\ call.ref = {s} /\ ~call.doomed => call.seen = movements[s]
      BY <3>2, <3>4, <3>5
    <3> QED
      BY <3>1, <3>4, <3>6, <3>7, CallStep
  <2> QED
    BY <2>2, <2>3
<1>5. ASSUME NEW c \in Callers, InsertMovements(c) PROVE LInv'
  <2>1. PICK r \in poster[c].ref : InsertMovements(c)!(r)
    BY <1>5 DEF InsertMovements
  <2>2. CASE poster[c].doomed
    BY <2>1, <2>2, CallEnding DEF InsertMovements
  <2>3. CASE ~poster[c].doomed
    <3> DEFINE call == [poster[c] EXCEPT !.pc = "post"]
    <3>1. poster' = [poster EXCEPT ![c] = call] /\ LedgerSame /\ poster[c].pc = "insert"
          /\ \A d \in Callers \ {c}, w \in DOMAIN Meant[r] : ~HoldsWallet(d, w)
      BY <2>1, <2>3 DEF InsertMovements, CallGoesTo, LInv, CallsShaped
    <3>2. poster[c].ref = {r} /\ r \in Refs /\ DOMAIN Meant[r] # {}
      BY <3>1 DEF LInv, CallsShaped
    <3>3. poster[c].seen = movements[r]
      BY <2>3, <3>1, <3>2 DEF LInv, SnapshotHolds
    <3>4. /\ call \in Calls /\ call.pc = "post" /\ call.ref = {r} /\ call.seen = movements[r]
          /\ ~call.doomed
      BY <3>2, <3>3, <2>3 DEF LInv, CallsShaped, Calls
    <3>5. \A d \in Callers \ {c} : ~HoldsRef(d, r)
      BY <3>1, <3>2 DEF LInv, RefHeldOnce, HoldsRef
    <3> HIDE DEF call
    <3>6. \A s \in Refs : call.ref = {s} => s = r
      BY <3>4
    <3>7. \A w \in Wallets, d \in Callers \ {c}, s \in Refs :
            call.pc = "post" /\ call.ref = {s} /\ w \in DOMAIN Meant[s] => ~HoldsWallet(d, w)
      BY <3>1, <3>6
    <3>8. \A s \in Refs, d \in Callers \ {c} :
            call.pc \in {"insert", "post"} /\ call.ref = {s} => ~HoldsRef(d, s)
      BY <3>5, <3>6
    <3>9. \A s \in Refs : call.pc \in InTransaction /\ call.ref = {s} /\ ~call.doomed => call.seen = movements[s]
      BY <3>4, <3>6
    <3>10. call.pc # "idle" => \E s \in Refs : call.ref = {s} /\ DOMAIN Meant[s] # {}
      BY <3>2, <3>4
    <3>11. poster' = [poster EXCEPT ![c] = call] /\ LedgerSame
      BY <3>1
    <3>12. call \in Calls /\ ~call.doomed
      BY <3>4
    <3> QED
      BY <3>7, <3>8, <3>9, <3>10, <3>11, <3>12, CallStep
  <2> QED
    BY <2>2, <2>3
<1>6. ASSUME NEW c \in Callers, CallFails(c) PROVE LInv'
  BY <1>6, CallEnding DEF CallFails
<1>7. ASSUME Recovery PROVE LInv'
  BY <1>7 DEF Recovery, LInv, LedgerTypeOK, CallsShaped, SnapshotHolds, RefHeldOnce, WalletHeldOnce,
       PostIsSure, HoldsRef, HoldsWallet
<1>8. CASE UNCHANGED ledgerVars
  BY <1>8 DEF ledgerVars, LInv, LedgerTypeOK, CallsShaped, SnapshotHolds, RefHeldOnce, WalletHeldOnce,
       PostIsSure, HoldsRef, HoldsWallet
<1> QED
  BY <1>1, <1>2, <1>3, <1>4, <1>5, <1>6, <1>7, <1>8, PostKeeps DEF LedgerNext

LEMMA LedgerInvariant == LedgerSpec => []LInv
  BY LedgerStarts, LedgerSteps, PTL DEF LedgerSpec

\* The state of the ledger is what its code may make of it.
THEOREM LedgerTypeCorrect == LedgerSpec => []LedgerTypeOK
  BY LedgerInvariant, PTL DEF LInv

\* Of any calls that post one reference and overlap, one posts: whoever inserts the movements
\* has in its snapshot every earlier insertion of them (service.go:110, SERIALIZABLE).
THEOREM OverlappingPostsOnce == LedgerSpec => PostsFromItsSnapshot
<1>1. ASSUME LInv, [LedgerNext]_ledgerVars, NEW r \in Refs, movements'[r] # movements[r]
      PROVE  \E c \in Callers : poster[c].ref = {r} /\ poster'[c] = Calm /\ poster[c].seen = movements[r]
  <2>1. PICK c \in Callers : MarkPosted(c)
    BY <1>1 DEF LedgerNext, ledgerVars, PostTransaction, LookUp, BeginTransaction, UpsertTransaction, InsertMovements,
         CallFails, Recovery, LedgerSame
  <2>2. PICK s \in poster[c].ref : MarkPosted(c)!(s)
    BY <2>1 DEF MarkPosted
  <2>3. poster[c].pc = "post" /\ s \in Refs /\ poster[c].ref = {s}
    BY <2>2, <1>1 DEF LInv, CallsShaped
  <2>4. /\ movements' = [movements EXCEPT ![s] = @ + 1]
        /\ poster' = [d \in Callers |->
             IF d = c THEN Calm ELSE IF Conflicts(d, c, s) THEN [poster[d] EXCEPT !.doomed = TRUE] ELSE poster[d]]
    BY <2>2, <1>1 DEF MarkPosted
  <2>5. s = r /\ poster'[c] = Calm
    BY <2>4, <1>1 DEF LInv, LedgerTypeOK
  <2> QED
    BY <2>3, <2>5, <1>1, AtThePost
<1>2. LInv /\ [LedgerNext]_ledgerVars =>
        [\A r \in Refs : movements'[r] # movements[r] =>
           \E c \in Callers : poster[c].ref = {r} /\ poster'[c] = Calm /\ poster[c].seen = movements[r]]_ledgerVars
  BY <1>1
<1> QED
  BY <1>2, LedgerInvariant, PTL DEF LedgerSpec, PostsFromItsSnapshot

-----------------------------------------------------------------------------
(* Kyc: the inductive invariant.  What holds for any number of boxes comes *)
(* first, then what one box adds.                                          *)

Active(r) == runs[r].pc # "idle"

\* A run is of a document: the goroutine of a document, of that one; the one of a sweep, of
\* its box.
TasksKnow ==
  \A r \in Tasks : Active(r) =>
    /\ runs[r].doc \in Docs /\ runs[r].box \in Boxes
    /\ r \in Docs => runs[r].doc = r
    /\ r \in Boxes => runs[r].box = r
    /\ runs[r].pc = "finish" => runs[r].decision \in {"approved", "rejected"}

ConfirmersKnow ==
  \A h \in Confirmers : confirms[h].pc # "idle" => confirms[h].doc \in Docs /\ confirms[h].box \in Boxes

\* A sweep that is not reading has nothing to read.
SweepsKnow == \A b \in Boxes : sweep[b].pc # "run" => sweep[b].todo = {} /\ ~Active(b)

\* A document is not older than the run its confirmation began.
RunsYounger == \A d \in Docs : Active(d) => docs[d].updated <= runs[d].age

KycBase == KycTypeOK /\ TasksKnow /\ ConfirmersKnow /\ SweepsKnow /\ RunsYounger

\* The sweep of box b reads document d, or will.
Swept(b, d) == d \in sweep[b].todo \/ (Active(b) /\ runs[b].doc = d)

\* A document has one reading at a time and waits for it.
OneReading(b) ==
  /\ Active(b) => runs[b].doc \notin sweep[b].todo
  /\ \A d \in Docs : Active(d) => ~Swept(b, d)
  /\ \A d \in Docs : Active(d) \/ Swept(b, d) => docs[d].ocr \in {"pending", "error"}

\* The approval of a member rests on a document whose reading is over.
ApprovedByReading ==
  \A p \in KycPeople : kyc[p] = "approved" =>
    \E d \in Docs : /\ DocOwner[d] = p /\ PrimaryIDDoc(DocType[d])
                    /\ docs[d].status = "approved" /\ docs[d].ocr = "passed"

KycInv(b) == KycBase /\ OneReading(b) /\ ApprovedByReading

\* A run goes on with its document, or is over.
RunContinues(r) ==
  \/ runs'[r].pc = "idle"
  \/ /\ Active(r) /\ runs'[r].doc = runs[r].doc /\ runs'[r].box = runs[r].box /\ runs'[r].age = runs[r].age
     /\ runs'[r].pc = "finish" => runs'[r].decision \in {"approved", "rejected"}

\* The tables of the members.
PeopleOK ==
  /\ objects \subseteq urls /\ urls \subseteq Docs /\ barred \subseteq KycPeople
  /\ kyc \in [KycPeople -> {"none", "not_started", "in_review", "approved", "rejected", "expired"}]
  /\ profile \in [KycPeople -> Names]

LEMMA KycParts ==
  KycBase => /\ docs \in [Docs -> DocRows] /\ runs \in [Tasks -> RunRows]
             /\ sweep \in [Boxes -> SweepRows] /\ confirms \in [Confirmers -> ConfirmRows] /\ PeopleOK
  BY DEF KycBase, KycTypeOK, PeopleOK

LEMMA BaseKept ==
  ASSUME KycBase, docs' \in [Docs -> DocRows], \A d \in Docs : docs'[d].updated <= docs[d].updated,
         runs' \in [Tasks -> RunRows], \A r \in Tasks : RunContinues(r), sweep' = sweep,
         confirms' \in [Confirmers -> ConfirmRows], ConfirmersKnow', PeopleOK'
  PROVE  KycBase'
<1>1. KycTypeOK'
  BY DEF KycBase, KycTypeOK, PeopleOK
<1>2. TasksKnow'
  BY DEF KycBase, TasksKnow, Active, RunContinues
<1>3. SweepsKnow'
  BY DEF KycBase, SweepsKnow, Active, RunContinues, Tasks
<1>4. RunsYounger'
  <2>1. ASSUME NEW d \in Docs, runs'[d].pc # "idle" PROVE docs'[d].updated <= runs'[d].age
    <3>1. Active(d) /\ runs'[d].age = runs[d].age
      BY <2>1 DEF RunContinues, Tasks
    <3>2. docs[d].updated <= runs[d].age
      BY <3>1 DEF KycBase, RunsYounger
    <3>3. docs[d] \in DocRows /\ docs'[d] \in DocRows /\ runs[d] \in RunRows
      BY KycParts DEF Tasks
    <3>4. docs[d].updated \in Int /\ docs'[d].updated \in Int
      BY <3>3 DEF DocRows
    <3>5. runs[d].age \in Int
      <4>1. runs[d].age \in 0..RunTime
        BY <3>3, Zenon DEF RunRows
      <4> QED
        BY <4>1
    <3>6. docs'[d].updated <= docs[d].updated
      OBVIOUS
    <3> QED
      BY <3>1, <3>2, <3>4, <3>5, <3>6
  <2> QED
    BY <2>1 DEF RunsYounger, Active
<1> QED
  BY <1>1, <1>2, <1>3, <1>4 DEF KycBase

LEMMA NoRunContinues == NoRun \in RunRows /\ NoRun.pc = "idle" /\ NoRun.doc = NoDoc /\ NoRun.age = 0
<1>1. NoRun.pc = "idle" /\ NoRun.doc = NoDoc /\ NoRun.box = NoDoc /\ NoRun.decision = "" /\ NoRun.age = 0
  BY DEF NoRun
<1>2. 0 \in 0..RunTime
  BY KycAssumption
<1>3. NoRun \in RunRows
  BY <1>2 DEF NoRun, RunRows
<1> QED
  BY <1>1, <1>3

LEMMA RunWritten ==
  ASSUME KycBase, NEW r \in Tasks, NEW new \in RunRows, runs' = [runs EXCEPT ![r] = new],
         \/ new.pc = "idle"
         \/ /\ Active(r) /\ new.doc = runs[r].doc /\ new.box = runs[r].box /\ new.age = runs[r].age
            /\ new.pc = "finish" => new.decision \in {"approved", "rejected"}
  PROVE  runs' \in [Tasks -> RunRows] /\ \A s \in Tasks : RunContinues(s)
<1>1. runs \in [Tasks -> RunRows]
  BY KycParts
<1>2. runs' \in [Tasks -> RunRows] /\ \A s \in Tasks : runs'[s] = IF s = r THEN new ELSE runs[s]
  BY <1>1
<1>3. \A s \in Tasks : runs[s].pc = "finish" => runs[s].decision \in {"approved", "rejected"}
  BY DEF KycBase, TasksKnow, Active
<1> QED
  BY <1>2, <1>3 DEF RunContinues, Active

LEMMA DocWritten ==
  ASSUME KycBase, NEW d \in Docs, NEW new \in DocRows, docs' = [docs EXCEPT ![d] = new],
         new.updated \in {0, docs[d].updated}
  PROVE  docs' \in [Docs -> DocRows] /\ \A e \in Docs : docs'[e].updated <= docs[e].updated
<1>1. docs \in [Docs -> DocRows]
  BY KycParts
<1>2. \A e \in Docs : docs[e].updated \in 0..MinAge + 1
  BY <1>1 DEF DocRows
<1>3. docs' \in [Docs -> DocRows] /\ \A e \in Docs : docs'[e] = IF e = d THEN new ELSE docs[e]
  BY <1>1
<1> QED
  BY <1>2, <1>3, KycAssumption

LEMMA DocsSame ==
  ASSUME KycBase, UNCHANGED docs
  PROVE  docs' \in [Docs -> DocRows] /\ \A e \in Docs : docs'[e].updated <= docs[e].updated
<1>1. docs \in [Docs -> DocRows]
  BY KycParts
<1>2. \A e \in Docs : docs[e].updated \in Int
  BY <1>1 DEF DocRows
<1> QED
  BY <1>1, <1>2

LEMMA RunsSame ==
  ASSUME KycBase, UNCHANGED runs
  PROVE  runs' \in [Tasks -> RunRows] /\ \A r \in Tasks : RunContinues(r)
<1>1. \A r \in Tasks : runs[r].pc = "finish" => runs[r].decision \in {"approved", "rejected"}
  BY DEF KycBase, TasksKnow, Active
<1> QED
  BY <1>1, KycParts DEF RunContinues, Active

LEMMA ConfirmsSame ==
  ASSUME KycBase, UNCHANGED confirms
  PROVE  confirms' \in [Confirmers -> ConfirmRows] /\ ConfirmersKnow'
  BY KycParts DEF KycBase, ConfirmersKnow

LEMMA ConfirmEnds ==
  ASSUME KycBase, NEW h \in Confirmers, confirms' = [confirms EXCEPT ![h] = NoConfirm]
  PROVE  confirms' \in [Confirmers -> ConfirmRows] /\ ConfirmersKnow'
<1>1. NoConfirm \in ConfirmRows /\ NoConfirm.pc = "idle"
  BY DEF NoConfirm, ConfirmRows
<1> QED
  BY <1>1, KycParts DEF KycBase, ConfirmersKnow

\* The statements of the member and of the administration.
LEMMA UploadBase == ASSUME KycBase, NEW d \in Docs, UploadURL(d) PROVE KycBase'
<1> DEFINE new == [docs[d] EXCEPT !.status = "pending_upload"]
<1>1. docs[d] \in DocRows
  BY KycParts
<1>2. new \in DocRows /\ new.updated = docs[d].updated
  BY <1>1 DEF DocRows
<1>3. docs' = [docs EXCEPT ![d] = new]
  BY DEF UploadURL
<1> HIDE DEF new
<1>4. PeopleOK'
  BY KycParts DEF UploadURL, PeopleOK
<1>5. UNCHANGED <<runs, sweep, confirms>>
  BY DEF UploadURL
<1> QED
  BY <1>2, <1>3, <1>4, <1>5, DocWritten, RunsSame, ConfirmsSame, BaseKept

LEMMA PeopleBase ==
  ASSUME KycBase, (\E d \in Docs : PutObject(d)) \/ (\E p \in KycPeople : Rename(p) \/ Bar(p))
  PROVE  KycBase'
<1>1. UNCHANGED <<docs, runs, sweep, confirms>>
  BY DEF PutObject, Rename, Bar
<1>2. PeopleOK'
  BY KycParts DEF PeopleOK, PutObject, Rename, Bar
<1> QED
  BY <1>1, <1>2, DocsSame, RunsSame, ConfirmsSame, BaseKept

LEMMA ConfirmCheckBase ==
  ASSUME KycBase, NEW h \in Confirmers, NEW b \in Boxes, NEW d \in Docs, ConfirmCheck(h, b, d)
  PROVE  KycBase'
<1> DEFINE new == [pc |-> "commit", doc |-> d, box |-> b]
<1>1. new \in ConfirmRows
  BY DEF ConfirmRows
<1>2. confirms' = [confirms EXCEPT ![h] = new] /\ UNCHANGED <<docs, runs, sweep, objects, urls, barred, kyc, profile>>
  BY DEF ConfirmCheck
<1>3. confirms' \in [Confirmers -> ConfirmRows] /\ ConfirmersKnow'
  BY <1>1, <1>2, KycParts DEF KycBase, ConfirmersKnow
<1>4. PeopleOK'
  BY <1>2, KycParts DEF PeopleOK
<1> QED
  BY <1>2, <1>3, <1>4, DocsSame, RunsSame, BaseKept

LEMMA ConfirmFailsBase == ASSUME KycBase, NEW h \in Confirmers, ConfirmFails(h) PROVE KycBase'
<1>1. confirms' = [confirms EXCEPT ![h] = NoConfirm] /\ UNCHANGED <<docs, runs, sweep, objects, urls, barred, kyc, profile>>
  BY DEF ConfirmFails
<1>2. PeopleOK'
  BY <1>1, KycParts DEF PeopleOK
<1> QED
  BY <1>1, <1>2, DocsSame, RunsSame, ConfirmEnds, BaseKept

LEMMA ConfirmCommitBase == ASSUME KycBase, NEW h \in Confirmers, ConfirmCommit(h) PROVE KycBase'
<1> DEFINE d == confirms[h].doc
           new == [docs[d] EXCEPT !.status = "in_review", !.updated = 0]
<1>1. d \in Docs /\ confirms[h].pc = "commit" /\ UNCHANGED <<objects, urls, profile, barred, runs, sweep>>
  BY DEF ConfirmCommit, KycBase, ConfirmersKnow
<1>2. DocOwner[d] \in KycPeople
  BY <1>1, KycAssumption
<1>3. CASE docs[d].status = "pending_upload"
  <2>1. docs' = [docs EXCEPT ![d] = new] /\ confirms' = [confirms EXCEPT ![h].pc = "mark"]
    BY <1>3 DEF ConfirmCommit
  <2>2. docs[d] \in DocRows /\ 0 \in 0..MinAge + 1
    BY <1>1, KycParts, KycAssumption
  <2>3. new \in DocRows /\ new.updated = 0
    BY <2>2 DEF DocRows
  <2>4. confirms' \in [Confirmers -> ConfirmRows] /\ ConfirmersKnow'
    <3> DEFINE mark == [confirms[h] EXCEPT !.pc = "mark"]
    <3>1. confirms \in [Confirmers -> ConfirmRows]
      BY KycParts
    <3>2. confirms' \in [Confirmers -> ConfirmRows]
      <4>1. confirms[h] \in ConfirmRows
        BY <3>1
      <4>2. mark \in ConfirmRows
        BY <4>1 DEF ConfirmRows
      <4>3. confirms' = [confirms EXCEPT ![h] = mark]
        BY <2>1
      <4> HIDE DEF mark
      <4> QED
        BY <3>1, <4>2, <4>3
    <3>3. \A g \in Confirmers : confirms'[g].doc = confirms[g].doc /\ confirms'[g].box = confirms[g].box
                               /\ (confirms'[g].pc # "idle" => confirms[g].pc # "idle")
      BY <1>1, <2>1, <3>1 DEF ConfirmRows
    <3> QED
      BY <3>2, <3>3 DEF KycBase, ConfirmersKnow
  <2>5. PeopleOK'
    BY <1>1, <1>2, <1>3, KycParts DEF PeopleOK, ConfirmCommit
  <2> HIDE DEF new, d
  <2> QED
    BY <1>1, <2>1, <2>3, <2>4, <2>5, DocWritten, RunsSame, BaseKept
<1>4. CASE docs[d].status # "pending_upload"
  <2>1. confirms' = [confirms EXCEPT ![h] = NoConfirm] /\ UNCHANGED <<docs, kyc>>
    BY <1>4 DEF ConfirmCommit
  <2>2. PeopleOK'
    BY <1>1, <2>1, KycParts DEF PeopleOK
  <2> QED
    BY <1>1, <2>1, <2>2, DocsSame, RunsSame, ConfirmEnds, BaseKept
<1> QED
  BY <1>3, <1>4

\* A confirmation starts the run of its document.
LEMMA MarkPendingBase == ASSUME KycBase, NEW h \in Confirmers, MarkPending(h) PROVE KycBase'
<1> DEFINE d == confirms[h].doc
           new == [docs[d] EXCEPT !.ocr = "pending", !.updated = 0]
           box == confirms[h].box
           run == [NoRun EXCEPT !.pc = "load", !.doc = d, !.box = box]
           marked == OCREnabled /\ docs[d].status = "in_review" /\ docs[d].ocr = "skipped"
<1>1. d \in Docs /\ confirms[h].box \in Boxes /\ d \notin Boxes
  BY KycAssumption DEF MarkPending, KycBase, ConfirmersKnow
<1>2. /\ UNCHANGED <<objects, urls, kyc, profile, barred, sweep>>
      /\ confirms' = [confirms EXCEPT ![h] = NoConfirm]
  BY DEF MarkPending
<1>3. PeopleOK'
  BY <1>2, KycParts DEF PeopleOK
<1>4. ASSUME ~marked PROVE KycBase'
  <2>1. UNCHANGED <<docs, runs>>
    BY <1>4 DEF MarkPending
  <2> QED
    BY <1>2, <1>3, <2>1, DocsSame, RunsSame, ConfirmEnds, BaseKept
<1>5. ASSUME marked PROVE KycBase'
  <2>1. docs' = [docs EXCEPT ![d] = new] /\ runs' = [runs EXCEPT ![d] = run]
    BY <1>5 DEF MarkPending
  <2>2. new \in DocRows /\ new.updated = 0
    <3>1. docs[d] \in DocRows /\ 0 \in 0..MinAge + 1
      BY <1>1, KycParts, KycAssumption
    <3> HIDE DEF d
    <3> QED
      BY <3>1 DEF DocRows
  <2>3. run \in RunRows /\ run.pc = "load" /\ run.doc = d /\ run.box = box /\ run.age = 0
    <3>1. NoRun \in RunRows /\ NoRun.age = 0
      BY NoRunContinues
    <3>2. d \in Docs \cup {NoDoc} /\ box \in Boxes \cup {NoDoc}
      BY <1>1
    <3> HIDE DEF d, box
    <3> QED
      BY <3>1, <3>2 DEF RunRows
  <2>4. /\ docs \in [Docs -> DocRows] /\ runs \in [Tasks -> RunRows] /\ d \in Tasks
        /\ sweep \in [Boxes -> SweepRows]
    BY <1>1, KycParts DEF Tasks
  <2> HIDE DEF new, run, marked, d
  <2>5. docs' \in [Docs -> DocRows] /\ \A e \in Docs : docs'[e].updated <= docs[e].updated
    BY <1>1, <2>1, <2>2, DocWritten
  <2>6. runs' \in [Tasks -> RunRows] /\ \A r \in Tasks : runs'[r] = IF r = d THEN run ELSE runs[r]
    BY <2>1, <2>3, <2>4
  <2>7. KycTypeOK' /\ ConfirmersKnow'
    BY <1>2, <1>3, <2>5, <2>6, <2>4, ConfirmEnds DEF KycTypeOK, PeopleOK
  <2>8. TasksKnow'
    BY <1>1, <2>3, <2>6 DEF KycBase, TasksKnow, Active
  <2>9. SweepsKnow'
    BY <1>1, <1>2, <2>6 DEF KycBase, SweepsKnow, Active, Tasks
  <2>10. RunsYounger'
    <3>1. ASSUME NEW e \in Docs, runs'[e].pc # "idle" PROVE docs'[e].updated <= runs'[e].age
      <4>1. CASE e = d
        BY <1>1, <2>1, <2>2, <2>3, <2>4, <2>6, <4>1 DEF Tasks
      <4>2. CASE e # d
        <5>1. runs'[e] = runs[e] /\ docs'[e] = docs[e]
          BY <2>1, <2>4, <2>6, <4>2 DEF Tasks
        <5> QED
          BY <3>1, <5>1 DEF KycBase, RunsYounger, Active
      <4> QED
        BY <4>1, <4>2
    <3> QED
      BY <3>1 DEF RunsYounger, Active
  <2> QED
    BY <2>7, <2>8, <2>9, <2>10 DEF KycBase
<1> QED
  BY <1>4, <1>5

\* What Evaluate decides.
LEMMA Decided == ASSUME NEW type, NEW x, NEW name PROVE Evaluate(type, x, name) \in {"approved", "rejected"}
  BY DEF Evaluate

\* A run loads, analyses or ends without a row of its own.
LEMMA RunBase ==
  ASSUME KycBase, NEW r \in Tasks, LoadDoc(r) \/ Analyze(r) \/ ReadFails(r) \/ RunEnds(r)
  PROVE  KycBase' /\ \A s \in Tasks : RunContinues(s)
<1>1. /\ Active(r) /\ UNCHANGED <<docs, objects, urls, kyc, profile, barred, sweep, confirms>>
      /\ runs[r] \in RunRows /\ runs[r].doc \in Docs
  BY KycParts DEF LoadDoc, Analyze, ReadFails, RunEnds, KycSame, Active, KycBase, TasksKnow
<1>2. \E new \in RunRows :
        /\ runs' = [runs EXCEPT ![r] = new]
        /\ \/ new.pc = "idle"
           \/ /\ new.doc = runs[r].doc /\ new.box = runs[r].box /\ new.age = runs[r].age
              /\ new.pc = "finish" => new.decision \in {"approved", "rejected"}
  <2>1. CASE LoadDoc(r)
    <3> DEFINE name == profile[DocOwner[runs[r].doc]]
               new == [runs[r] EXCEPT !.pc = "analyze", !.name = name]
    <3>1. name \in Names
      BY <1>1, KycParts, KycAssumption DEF PeopleOK
    <3>2. runs' = [runs EXCEPT ![r] = new]
      BY <2>1 DEF LoadDoc
    <3> HIDE DEF name
    <3>3. new \in RunRows /\ new.pc = "analyze" /\ new.doc = runs[r].doc /\ new.box = runs[r].box /\ new.age = runs[r].age
      BY <1>1, <3>1 DEF RunRows
    <3> QED
      BY <3>2, <3>3
  <2>2. CASE Analyze(r)
    <3>1. PICK x \in Readings :
            runs' = [runs EXCEPT ![r].pc = "finish", ![r].decision = Evaluate(DocType[runs[r].doc], x, runs[r].name)]
      BY <2>2 DEF Analyze
    <3> DEFINE decision == Evaluate(DocType[runs[r].doc], x, runs[r].name)
               new == [runs[r] EXCEPT !.pc = "finish", !.decision = decision]
    <3>2. decision \in {"approved", "rejected"}
      BY Decided
    <3>3. runs' = [runs EXCEPT ![r] = new]
      BY <3>1
    <3> HIDE DEF decision
    <3>4. new \in RunRows /\ new.pc = "finish" /\ new.doc = runs[r].doc /\ new.box = runs[r].box
          /\ new.age = runs[r].age /\ new.decision = decision
      BY <1>1, <3>2 DEF RunRows
    <3> QED
      BY <3>2, <3>3, <3>4
  <2>3. CASE ReadFails(r)
    <3> DEFINE new == [runs[r] EXCEPT !.pc = "touch"]
    <3>1. runs' = [runs EXCEPT ![r] = new]
      BY <2>3 DEF ReadFails
    <3>2. new \in RunRows /\ new.pc = "touch" /\ new.doc = runs[r].doc /\ new.box = runs[r].box /\ new.age = runs[r].age
      BY <1>1 DEF RunRows
    <3> QED
      BY <3>1, <3>2
  <2>4. CASE RunEnds(r)
    BY <2>4, NoRunContinues DEF RunEnds
  <2> QED
    BY <2>1, <2>2, <2>3, <2>4
<1>3. PeopleOK'
  BY <1>1, KycParts DEF PeopleOK
<1> QED
  BY <1>1, <1>2, <1>3, RunWritten, DocsSame, ConfirmsSame, BaseKept

LEMMA TouchBase ==
  ASSUME KycBase, NEW r \in Tasks, TouchPending(r)
  PROVE  KycBase' /\ \A s \in Tasks : RunContinues(s)
<1> DEFINE d == runs[r].doc
           new == [docs[d] EXCEPT !.updated = 0]
<1>1. /\ Active(r) /\ UNCHANGED <<objects, urls, kyc, profile, barred, sweep, confirms>>
      /\ runs' = [runs EXCEPT ![r] = NoRun] /\ d \in Docs
      /\ UNCHANGED docs \/ docs' = [docs EXCEPT ![d] = new]
  BY DEF TouchPending, Active, KycBase, TasksKnow
<1>2. new \in DocRows /\ new.updated = 0
  <2>1. docs[d] \in DocRows /\ 0 \in 0..MinAge + 1
    BY <1>1, KycParts, KycAssumption
  <2> HIDE DEF d
  <2> QED
    BY <2>1 DEF DocRows
<1>3. PeopleOK'
  BY <1>1, KycParts DEF PeopleOK
<1> HIDE DEF new, d
<1>4. docs' \in [Docs -> DocRows] /\ \A e \in Docs : docs'[e].updated <= docs[e].updated
  BY <1>1, <1>2, DocWritten, DocsSame
<1> QED
  BY <1>1, <1>3, <1>4, NoRunContinues, RunWritten, ConfirmsSame, BaseKept

LEMMA FinishBase ==
  ASSUME KycBase, NEW r \in Tasks, FinishOCR(r)
  PROVE  KycBase' /\ \A s \in Tasks : RunContinues(s)
<1> DEFINE d == runs[r].doc
           decision == runs[r].decision
           read == IF decision = "approved" THEN "passed" ELSE "failed"
           new == [docs[d] EXCEPT !.status = decision, !.ocr = read, !.updated = 0]
<1>1. /\ Active(r) /\ UNCHANGED <<objects, urls, profile, barred, sweep, confirms>>
      /\ runs' = [runs EXCEPT ![r] = NoRun] /\ d \in Docs /\ decision \in {"approved", "rejected"}
      /\ docs' = [docs EXCEPT ![d] = new]
  BY DEF FinishOCR, Active, KycBase, TasksKnow
<1>2. new \in DocRows /\ new.updated = 0
  <2>1. docs[d] \in DocRows /\ 0 \in 0..MinAge + 1 /\ read \in {"passed", "failed"}
    BY <1>1, KycParts, KycAssumption
  <2> HIDE DEF d, decision, read
  <2> QED
    BY <1>1, <2>1 DEF DocRows
<1>3. PeopleOK'
  <2>1. kyc' \in [KycPeople -> {"none", "not_started", "in_review", "approved", "rejected", "expired"}]
    BY <1>1, KycParts, KycAssumption DEF PeopleOK, FinishOCR
  <2> QED
    BY <1>1, <2>1, KycParts DEF PeopleOK
<1> HIDE DEF new, d
<1>4. docs' \in [Docs -> DocRows] /\ \A e \in Docs : docs'[e].updated <= docs[e].updated
  BY <1>1, <1>2, DocWritten
<1> QED
  BY <1>1, <1>3, <1>4, NoRunContinues, RunWritten, ConfirmsSame, BaseKept

\* The steps of a sweep.
LEMMA SweepWritten ==
  ASSUME KycBase, NEW b \in Boxes, NEW new \in SweepRows, sweep' = [sweep EXCEPT ![b] = new],
         new.pc # "run" => new.todo = {} /\ ~Active(b),
         docs' \in [Docs -> DocRows], \A d \in Docs : docs'[d].updated <= docs[d].updated,
         UNCHANGED <<objects, urls, kyc, profile, barred, runs, confirms>>
  PROVE  KycBase'
<1>1. sweep' \in [Boxes -> SweepRows] /\ \A c \in Boxes : sweep'[c] = IF c = b THEN new ELSE sweep[c]
  BY KycParts
<1>2. KycTypeOK'
  BY <1>1 DEF KycBase, KycTypeOK
<1>3. TasksKnow' /\ ConfirmersKnow'
  BY DEF KycBase, TasksKnow, ConfirmersKnow, Active
<1>4. SweepsKnow'
  BY <1>1 DEF KycBase, SweepsKnow, Active
<1>5. RunsYounger'
  <2>1. ASSUME NEW d \in Docs, Active(d) PROVE docs'[d].updated <= runs[d].age
    <3>1. docs[d].updated <= runs[d].age /\ docs'[d].updated <= docs[d].updated
      BY <2>1 DEF KycBase, RunsYounger
    <3>2. docs[d] \in DocRows /\ docs'[d] \in DocRows /\ runs[d] \in RunRows
      BY KycParts DEF Tasks
    <3>3. docs[d].updated \in Int /\ docs'[d].updated \in Int
      BY <3>2 DEF DocRows
    <3>4. runs[d].age \in 0..RunTime
      BY <3>2, Zenon DEF RunRows
    <3> QED
      BY <3>1, <3>3, <3>4
  <2> QED
    BY <2>1 DEF RunsYounger, Active
<1> QED
  BY <1>2, <1>3, <1>4, <1>5 DEF KycBase

LEMMA GiveUpBase == ASSUME KycBase, NEW b \in Boxes, GiveUpStale(b) PROVE KycBase'
<1> DEFINE new == [sweep[b] EXCEPT !.pc = "list"]
<1>1. sweep[b] \in SweepRows /\ sweep[b].todo = {} /\ ~Active(b)
  BY KycParts DEF GiveUpStale, KycBase, SweepsKnow
<1>2. new \in SweepRows /\ new.pc = "list" /\ new.todo = {}
  BY <1>1 DEF SweepRows
<1>3. sweep' = [sweep EXCEPT ![b] = new] /\ UNCHANGED <<objects, urls, kyc, profile, barred, runs, confirms>>
  BY DEF GiveUpStale
<1>4. ASSUME NEW d \in Docs PROVE docs'[d] \in DocRows /\ docs'[d].updated <= docs[d].updated
  <2> DEFINE row == [docs[d] EXCEPT !.status = "rejected", !.ocr = "error", !.updated = 0]
  <2>1. docs[d] \in DocRows /\ 0 \in 0..MinAge + 1
    BY KycParts, KycAssumption
  <2>2. row \in DocRows /\ row.updated = 0 /\ docs[d].updated \in 0..MinAge + 1
    BY <2>1 DEF DocRows
  <2>3. docs'[d] = row \/ docs'[d] = docs[d]
    BY DEF GiveUpStale
  <2> HIDE DEF row
  <2> QED
    BY <2>1, <2>2, <2>3, KycAssumption
<1>5. docs' \in [Docs -> DocRows]
  <2>1. docs' = [d \in Docs |-> docs'[d]]
    BY DEF GiveUpStale
  <2> QED
    BY <1>4, <2>1
<1> HIDE DEF new
<1> QED
  BY <1>1, <1>2, <1>3, <1>4, <1>5, SweepWritten

LEMMA ListsBase == ASSUME KycBase, NEW b \in Boxes, SweepLists(b) PROVE KycBase'
<1>1. PICK s \in SUBSET Docs : sweep' = [sweep EXCEPT ![b] = [pc |-> "run", todo |-> s]]
  BY DEF SweepLists
<1> DEFINE new == [pc |-> "run", todo |-> s]
<1>2. new \in SweepRows /\ new.pc = "run"
  BY DEF SweepRows
<1>3. UNCHANGED <<docs, objects, urls, kyc, profile, barred, runs, confirms>>
  BY DEF SweepLists
<1> HIDE DEF new
<1> QED
  BY <1>1, <1>2, <1>3, DocsSame, SweepWritten DEF new

\* The sweep takes up the next of its documents.
LEMMA NextBase == ASSUME KycBase, NEW b \in Boxes, SweepNext(b) PROVE KycBase'
<1>1. CASE sweep[b].todo = {}
  <2>1. NoSweep \in SweepRows /\ NoSweep.todo = {}
    BY DEF NoSweep, SweepRows
  <2>2. /\ sweep' = [sweep EXCEPT ![b] = NoSweep] /\ ~Active(b)
        /\ UNCHANGED <<docs, objects, urls, kyc, profile, barred, runs, confirms>>
    BY <1>1 DEF SweepNext, Active
  <2> QED
    BY <2>1, <2>2, DocsSame, SweepWritten
<1>2. CASE sweep[b].todo # {}
  <2>1. PICK d \in sweep[b].todo :
          /\ sweep' = [sweep EXCEPT ![b].todo = @ \ {d}]
          /\ runs' = [runs EXCEPT ![b] = [NoRun EXCEPT !.pc = "load", !.doc = d, !.box = b]]
    BY <1>2 DEF SweepNext
  <2>2. sweep[b] \in SweepRows /\ sweep[b].pc = "run"
        /\ UNCHANGED <<docs, objects, urls, kyc, profile, barred, confirms>>
    BY KycParts DEF SweepNext
  <2>3. d \in Docs /\ b \in Tasks /\ b \notin Docs
    BY <2>1, <2>2, KycAssumption DEF SweepRows, Tasks
  <2> DEFINE run == [NoRun EXCEPT !.pc = "load", !.doc = d, !.box = b]
             new == [sweep[b] EXCEPT !.todo = sweep[b].todo \ {d}]
  <2>4. run \in RunRows /\ run.pc = "load" /\ run.doc = d /\ run.box = b
    BY <2>3, NoRunContinues DEF RunRows
  <2>5. new \in SweepRows /\ new.pc = "run"
    BY <2>2 DEF SweepRows
  <2>6. sweep' = [sweep EXCEPT ![b] = new] /\ runs' = [runs EXCEPT ![b] = run]
    BY <2>1
  <2> HIDE DEF run, new
  <2>7. /\ sweep' \in [Boxes -> SweepRows] /\ \A c \in Boxes : sweep'[c] = IF c = b THEN new ELSE sweep[c]
        /\ runs' \in [Tasks -> RunRows] /\ \A r \in Tasks : runs'[r] = IF r = b THEN run ELSE runs[r]
    BY <2>3, <2>4, <2>5, <2>6, KycParts
  <2>8. KycTypeOK'
    BY <2>2, <2>7 DEF KycBase, KycTypeOK
  <2>9. TasksKnow' /\ ConfirmersKnow'
    BY <2>2, <2>3, <2>4, <2>7 DEF KycBase, TasksKnow, ConfirmersKnow, Active
  <2>10. SweepsKnow'
    BY <2>5, <2>7 DEF KycBase, SweepsKnow, Active, Tasks
  <2>11. RunsYounger'
    BY <2>2, <2>3, <2>7 DEF KycBase, RunsYounger, Active, Tasks
  <2> QED
    BY <2>8, <2>9, <2>10, <2>11 DEF KycBase
<1> QED
  BY <1>1, <1>2

\* Time: documents and runs grow old together.
LEMMA AgesBase == ASSUME KycBase, Ages PROVE KycBase'
<1>1. /\ \A r \in Tasks : runs[r].pc # "idle" => runs[r].age < RunTime
      /\ docs' = [d \in Docs |-> IF docs[d].status = "none" THEN docs[d]
                    ELSE [docs[d] EXCEPT !.created = Older(@, MaxAge), !.updated = Older(@, MinAge + 1)]]
      /\ runs' = [r \in Tasks |-> IF runs[r].pc = "idle" THEN runs[r] ELSE [runs[r] EXCEPT !.age = @ + 1]]
      /\ UNCHANGED <<objects, urls, kyc, profile, barred, sweep, confirms>>
  BY DEF Ages
<1>2. ASSUME NEW d \in Docs PROVE docs'[d] \in DocRows /\ docs'[d].updated <= docs[d].updated + 1
  <2> DEFINE created == Older(docs[d].created, MaxAge)
             updated == Older(docs[d].updated, MinAge + 1)
             row == [[docs[d] EXCEPT !.created = created] EXCEPT !.updated = updated]
  <2>1. docs[d] \in DocRows
    BY KycParts
  <2>2. docs[d].created \in 0..MaxAge /\ docs[d].updated \in 0..MinAge + 1
    BY <2>1 DEF DocRows
  <2>3. created \in 0..MaxAge /\ updated \in 0..MinAge + 1 /\ updated <= docs[d].updated + 1
    BY <2>2, KycAssumption DEF Older
  <2>4. docs'[d] = docs[d] \/ docs'[d] = row
    BY <1>1
  <2> HIDE DEF created, updated
  <2>5. row \in DocRows /\ row.updated = updated
    BY <2>1, <2>3 DEF DocRows
  <2> HIDE DEF row
  <2> QED
    BY <2>1, <2>2, <2>3, <2>4, <2>5, KycAssumption
<1>3. ASSUME NEW r \in Tasks
      PROVE  /\ runs'[r] \in RunRows /\ runs'[r].pc = runs[r].pc /\ runs'[r].doc = runs[r].doc
             /\ runs'[r].box = runs[r].box /\ runs'[r].decision = runs[r].decision
             /\ Active(r) => runs'[r].age = runs[r].age + 1
  <2> DEFINE age == runs[r].age + 1
             row == [runs[r] EXCEPT !.age = age]
  <2>1. runs[r] \in RunRows
    BY KycParts
  <2>2. runs[r].age \in 0..RunTime
    BY <2>1, Zenon DEF RunRows
  <2>3. CASE runs[r].pc = "idle"
    BY <2>1, <2>3, <1>1 DEF Active
  <2>4. CASE runs[r].pc # "idle"
    <3>1. runs[r].age < RunTime /\ RunTime \in Nat
      BY <1>1, <2>4, KycAssumption
    <3>2. age \in 0..RunTime
      BY <2>2, <3>1
    <3>3. runs'[r] = row
      BY <1>1, <2>4, Zenon
    <3> HIDE DEF age
    <3>4. /\ row \in RunRows /\ row.pc = runs[r].pc /\ row.doc = runs[r].doc
          /\ row.box = runs[r].box /\ row.decision = runs[r].decision /\ row.age = age
      BY <2>1, <3>2 DEF RunRows
    <3> HIDE DEF row
    <3>5. runs'[r].age = runs[r].age + 1
      BY <3>3, <3>4 DEF age
    <3> QED
      BY <3>3, <3>4, <3>5
  <2> QED
    BY <2>3, <2>4
<1>4. docs' \in [Docs -> DocRows] /\ runs' \in [Tasks -> RunRows]
  <2>1. docs' = [d \in Docs |-> docs'[d]] /\ runs' = [r \in Tasks |-> runs'[r]]
    BY <1>1
  <2> QED
    BY <1>2, <1>3, <2>1
<1>5. KycTypeOK'
  BY <1>1, <1>4 DEF KycBase, KycTypeOK
<1>6. TasksKnow' /\ ConfirmersKnow'
  BY <1>1, <1>3, ZenonT(60) DEF KycBase, TasksKnow, ConfirmersKnow, Active
<1>7. SweepsKnow'
  BY <1>1, <1>3 DEF KycBase, SweepsKnow, Active, Tasks
<1>8. RunsYounger'
  <2>1. ASSUME NEW d \in Docs, runs'[d].pc # "idle" PROVE docs'[d].updated <= runs'[d].age
    <3>1. d \in Tasks /\ Active(d) /\ runs'[d].age = runs[d].age + 1 /\ docs'[d].updated <= docs[d].updated + 1
      BY <2>1, <1>2, <1>3 DEF Tasks, Active
    <3>2. docs[d].updated <= runs[d].age
      BY <3>1 DEF KycBase, RunsYounger
    <3>3. docs[d] \in DocRows /\ docs'[d] \in DocRows /\ runs[d] \in RunRows
      BY <1>2, <3>1, KycParts
    <3>4. docs[d].updated \in Int /\ docs'[d].updated \in Int
      BY <3>3 DEF DocRows
    <3>5. runs[d].age \in 0..RunTime
      BY <3>3, Zenon DEF RunRows
    <3> QED
      BY <3>1, <3>2, <3>4, <3>5
  <2> QED
    BY <2>1 DEF RunsYounger, Active
<1> QED
  BY <1>5, <1>6, <1>7, <1>8 DEF KycBase

\* A box is restarted: its runs and confirmations are lost, the rows stay.
LEMMA RestartBase == ASSUME KycBase, NEW b \in Boxes, Restart(b) PROVE KycBase'
<1>1. /\ \A r \in Tasks : runs'[r] = IF runs[r].box = b THEN NoRun ELSE runs[r]
      /\ runs' = [r \in Tasks |-> runs'[r]]
      /\ sweep' = [sweep EXCEPT ![b] = NoSweep]
      /\ \A h \in Confirmers : confirms'[h] = IF confirms[h].box = b THEN NoConfirm ELSE confirms[h]
      /\ confirms' = [h \in Confirmers |-> confirms'[h]]
      /\ UNCHANGED <<docs, objects, urls, kyc, profile, barred>>
  BY DEF Restart
<1>2. NoSweep \in SweepRows /\ NoSweep.pc = "rest" /\ NoSweep.todo = {}
  BY DEF NoSweep, SweepRows
<1>3. NoConfirm \in ConfirmRows /\ NoConfirm.pc = "idle"
  BY DEF NoConfirm, ConfirmRows
<1>4. sweep' \in [Boxes -> SweepRows] /\ \A c \in Boxes : sweep'[c] = IF c = b THEN NoSweep ELSE sweep[c]
  BY <1>1, <1>2, KycParts
<1>5. ASSUME NEW r \in Tasks PROVE runs'[r] \in RunRows
  BY <1>1, KycParts, NoRunContinues
<1>6. ASSUME NEW h \in Confirmers PROVE confirms'[h] \in ConfirmRows
  BY <1>1, <1>3, KycParts
<1>7. runs' \in [Tasks -> RunRows] /\ confirms' \in [Confirmers -> ConfirmRows]
  BY <1>1, <1>5, <1>6
<1>8. KycTypeOK'
  BY <1>1, <1>4, <1>7 DEF KycBase, KycTypeOK
<1>9. \A r \in Tasks : runs'[r].pc # "idle" => Active(r) /\ runs'[r] = runs[r] /\ runs[r].box # b
  BY <1>1, NoRunContinues DEF Active
<1>10. TasksKnow'
  BY <1>9 DEF KycBase, TasksKnow, Active
<1>11. ConfirmersKnow'
  BY <1>1, <1>3 DEF KycBase, ConfirmersKnow
<1>12. SweepsKnow'
  BY <1>2, <1>4, <1>9 DEF KycBase, SweepsKnow, TasksKnow, Active, Tasks
<1>13. RunsYounger'
  BY <1>1, <1>9 DEF KycBase, RunsYounger, Active, Tasks
<1> QED
  BY <1>8, <1>10, <1>11, <1>12, <1>13 DEF KycBase

LEMMA KycStarts == KycInit => KycBase /\ ApprovedByReading /\ \A b \in Boxes : OneReading(b)
<1> SUFFICES ASSUME KycInit PROVE KycBase /\ ApprovedByReading /\ \A b \in Boxes : OneReading(b)
  OBVIOUS
<1>1. NoRow \in DocRows
  BY KycAssumption DEF NoRow, DocRows
<1>2. NoSweep \in SweepRows /\ NoSweep.todo = {}
  BY DEF NoSweep, SweepRows
<1>3. NoConfirm \in ConfirmRows /\ NoConfirm.pc = "idle"
  BY DEF NoConfirm, ConfirmRows
<1>4. \A r \in Tasks : ~Active(r)
  BY NoRunContinues DEF KycInit, Active
<1>5. docs \in [Docs -> DocRows] /\ runs \in [Tasks -> RunRows] /\ sweep \in [Boxes -> SweepRows]
      /\ confirms \in [Confirmers -> ConfirmRows]
  BY <1>1, <1>2, <1>3, NoRunContinues DEF KycInit
<1>6. KycTypeOK
  BY <1>5 DEF KycInit, KycTypeOK
<1>7. TasksKnow /\ ConfirmersKnow /\ SweepsKnow /\ RunsYounger
  BY <1>2, <1>3, <1>4 DEF TasksKnow, ConfirmersKnow, SweepsKnow, RunsYounger, KycInit, Tasks
<1>8. ApprovedByReading
  BY DEF ApprovedByReading, KycInit
<1>9. \A b \in Boxes : OneReading(b)
  BY <1>2, <1>4 DEF OneReading, Swept, KycInit, Tasks
<1> QED
  BY <1>6, <1>7, <1>8, <1>9 DEF KycBase

LEMMA BaseSteps == ASSUME KycBase, [KycNext]_kycVars PROVE KycBase'
<1>1. CASE UNCHANGED kycVars
  <2>1. PeopleOK'
    BY <1>1, KycParts DEF PeopleOK, kycVars
  <2> QED
    BY <1>1, <2>1, DocsSame, RunsSame, ConfirmsSame, BaseKept DEF kycVars
<1> QED
  BY <1>1, UploadBase, PeopleBase, ConfirmCheckBase, ConfirmCommitBase, MarkPendingBase, ConfirmFailsBase, RunBase,
     TouchBase, FinishBase, GiveUpBase, ListsBase, NextBase, AgesBase, RestartBase DEF KycNext, RunStep, SweepStep

\* The state of the documents is what their code may make of it.
THEOREM KycTypeCorrect == KycSpec => []KycTypeOK
<1>1. KycInit => KycBase
  BY KycStarts
<1>2. KycBase /\ [KycNext]_kycVars => KycBase'
  BY BaseSteps
<1> QED
  BY <1>1, <1>2, PTL DEF KycSpec, KycBase

-----------------------------------------------------------------------------
(* Kyc: what one box adds, where a run is over before a sweep takes its    *)
(* document up again.                                                      *)

ReadingContinues(r) == runs'[r].pc = "idle" \/ (Active(r) /\ runs'[r].doc = runs[r].doc)

Waits == {"pending", "error"}

LEMMA ReadingsKept ==
  ASSUME NEW b \in Boxes, OneReading(b), \A r \in Tasks : ReadingContinues(r),
         sweep'[b].todo \subseteq sweep[b].todo,
         \A d \in Docs : /\ docs[d].ocr \in Waits
                         /\ runs'[d].pc # "idle" \/ d \in sweep'[b].todo \/ (runs'[b].pc # "idle" /\ runs'[b].doc = d)
                         => docs'[d].ocr \in Waits
  PROVE  OneReading(b)'
<1>1. ASSUME NEW d, Swept(b, d)' PROVE Swept(b, d)
  BY <1>1 DEF Swept, Active, ReadingContinues, Tasks
<1>2. \A d \in Docs : Active(d)' => Active(d)
  BY DEF Active, ReadingContinues, Tasks
<1>3. Active(b)' => Active(b) /\ runs'[b].doc = runs[b].doc
  BY DEF Active, ReadingContinues, Tasks
<1>4. Active(b)' => runs'[b].doc \notin sweep'[b].todo
  BY <1>3 DEF OneReading
<1>5. \A d \in Docs : Active(d)' => ~Swept(b, d)'
  BY <1>1, <1>2 DEF OneReading
<1>6. ASSUME NEW d \in Docs, Active(d)' \/ Swept(b, d)' PROVE docs'[d].ocr \in {"pending", "error"}
  <2>1. docs[d].ocr \in Waits
    BY <1>1, <1>2, <1>6 DEF OneReading, Waits
  <2> QED
    BY <2>1, <1>6 DEF Active, Swept, Waits
<1> QED
  BY <1>4, <1>5, <1>6 DEF OneReading

LEMMA ApprovalKept ==
  ASSUME ApprovedByReading, \A p \in KycPeople : kyc'[p] = "approved" => kyc[p] = "approved",
         \A d \in Docs : docs[d].status = "approved" /\ docs[d].ocr = "passed" =>
           docs'[d].status = "approved" /\ docs'[d].ocr = "passed"
  PROVE  ApprovedByReading'
  BY DEF ApprovedByReading

\* Statements that leave the rows of the documents and of the members alone.
LEMMA RowsAlone ==
  ASSUME NEW b \in Boxes, KycBase, OneReading(b), ApprovedByReading, UNCHANGED <<docs, kyc>>,
         \A r \in Tasks : ReadingContinues(r), sweep'[b].todo \subseteq sweep[b].todo
  PROVE  OneReading(b)' /\ ApprovedByReading'
  BY ReadingsKept, ApprovalKept

LEMMA NoReadingBegins ==
  ASSUME UNCHANGED runs PROVE \A r \in Tasks : ReadingContinues(r)
  BY DEF ReadingContinues, Active

\* What is written of a document that no approval rests on and that goes on waiting, if it did.
LEMMA RowWritten ==
  ASSUME NEW b \in Boxes, KycBase, OneReading(b), ApprovedByReading, NEW d \in Docs, UNCHANGED <<runs, sweep>>,
         docs' \in [Docs -> DocRows], docs[d].status \notin {"approved"},
         \A e \in Docs : docs'[e].ocr = docs[e].ocr /\ (e # d => docs'[e].status = docs[e].status),
         \A p \in KycPeople : kyc'[p] = "approved" => kyc[p] = "approved"
  PROVE  OneReading(b)' /\ ApprovedByReading'
  BY NoReadingBegins, ReadingsKept, ApprovalKept

LEMMA MemberKeeps ==
  ASSUME NEW b \in Boxes, KycBase, OneReading(b), ApprovedByReading,
         \/ \E d \in Docs : UploadURL(d) \/ PutObject(d)
         \/ \E h \in Confirmers, c \in Boxes, d \in Docs : ConfirmCheck(h, c, d)
         \/ \E h \in Confirmers : ConfirmCommit(h) \/ ConfirmFails(h)
         \/ \E p \in KycPeople : Rename(p) \/ Bar(p)
  PROVE  OneReading(b)' /\ ApprovedByReading'
<1>1. ASSUME NEW d \in Docs, UploadURL(d) PROVE OneReading(b)' /\ ApprovedByReading'
  <2>1. docs \in [Docs -> DocRows] /\ kyc \in [KycPeople -> {"none", "not_started", "in_review", "approved", "rejected", "expired"}]
    BY KycParts DEF PeopleOK
  <2>2. docs' = [docs EXCEPT ![d].status = "pending_upload"] /\ docs[d].status = "none" /\ UNCHANGED <<runs, sweep>>
    BY <1>1 DEF UploadURL
  <2>3. \A e \in Docs : docs'[e].ocr = docs[e].ocr /\ (e # d => docs'[e].status = docs[e].status)
    BY <2>1, <2>2 DEF DocRows
  <2>4. \A p \in KycPeople : kyc'[p] = "approved" => kyc[p] = "approved"
    BY <1>1, <2>1 DEF UploadURL
  <2>5. docs' \in [Docs -> DocRows]
    BY <1>1, UploadBase, KycParts DEF KycBase, KycTypeOK
  <2> QED
    BY <2>2, <2>3, <2>4, <2>5, RowWritten
<1>2. ASSUME NEW h \in Confirmers, ConfirmCommit(h) PROVE OneReading(b)' /\ ApprovedByReading'
  <2> DEFINE d == confirms[h].doc
  <2>1. docs \in [Docs -> DocRows] /\ kyc \in [KycPeople -> {"none", "not_started", "in_review", "approved", "rejected", "expired"}]
    BY KycParts DEF PeopleOK
  <2>2. d \in Docs /\ UNCHANGED <<runs, sweep>>
    BY <1>2 DEF ConfirmCommit, KycBase, ConfirmersKnow
  <2>3. CASE docs[d].status = "pending_upload"
    <3>1. docs' = [docs EXCEPT ![d].status = "in_review", ![d].updated = 0]
      BY <1>2, <2>3 DEF ConfirmCommit
    <3>2. \A e \in Docs : docs'[e].ocr = docs[e].ocr /\ (e # d => docs'[e].status = docs[e].status)
      BY <2>1, <2>2, <3>1 DEF DocRows
    <3>3. \A p \in KycPeople : kyc'[p] = "approved" => kyc[p] = "approved"
      BY <1>2, <2>1, <2>3 DEF ConfirmCommit
    <3>4. docs' \in [Docs -> DocRows]
      BY <1>2, ConfirmCommitBase DEF KycBase, KycTypeOK
    <3> HIDE DEF d
    <3> QED
      BY <2>2, <2>3, <3>2, <3>3, <3>4, RowWritten
  <2>4. CASE docs[d].status # "pending_upload"
    <3>1. UNCHANGED <<docs, kyc>>
      BY <1>2, <2>4 DEF ConfirmCommit
    <3> QED
      BY <2>2, <3>1, NoReadingBegins, RowsAlone
  <2> QED
    BY <2>3, <2>4
<1>3. CASE ~(\E d \in Docs : UploadURL(d)) /\ ~(\E h \in Confirmers : ConfirmCommit(h))
  <2>1. UNCHANGED <<docs, kyc, runs, sweep>>
    BY <1>3 DEF PutObject, ConfirmCheck, ConfirmFails, Rename, Bar
  <2> QED
    BY <2>1, NoReadingBegins, RowsAlone
<1> QED
  BY <1>1, <1>2, <1>3

\* Only a document that waits for nobody's reading begins one.
LEMMA MarkKeeps ==
  ASSUME NEW b \in Boxes, KycBase, OneReading(b), ApprovedByReading, NEW h \in Confirmers, MarkPending(h)
  PROVE  OneReading(b)' /\ ApprovedByReading'
<1> DEFINE d == confirms[h].doc
           marked == OCREnabled /\ docs[d].status = "in_review" /\ docs[d].ocr = "skipped"
<1>1. d \in Docs /\ d \notin Boxes /\ d \in Tasks /\ UNCHANGED <<kyc, sweep>>
  BY KycAssumption DEF MarkPending, KycBase, ConfirmersKnow, Tasks
<1>2. ASSUME ~marked PROVE OneReading(b)' /\ ApprovedByReading'
  <2>1. UNCHANGED <<docs, runs>>
    BY <1>2 DEF MarkPending
  <2> QED
    BY <1>1, <2>1, NoReadingBegins, RowsAlone
<1>3. ASSUME marked PROVE OneReading(b)' /\ ApprovedByReading'
  <2>1. docs' = [docs EXCEPT ![d].ocr = "pending", ![d].updated = 0]
    BY <1>3 DEF MarkPending
  <2>2. \A r \in Tasks \ {d} : runs'[r] = runs[r]
    BY <1>3, KycParts DEF MarkPending
  <2>3. /\ docs \in [Docs -> DocRows]
        /\ ~Active(d) /\ ~Swept(b, d)
    BY <1>1, <1>3, KycParts DEF OneReading
  <2>4. docs'[d].ocr = "pending" /\ \A e \in Docs : e # d => docs'[e] = docs[e]
    BY <1>1, <2>1, <2>3 DEF DocRows
  <2>5. b # d /\ b \in Tasks /\ runs'[b] = runs[b]
    BY <1>1, <2>2 DEF Tasks
  <2>6. \A e : Swept(b, e)' <=> Swept(b, e)
    BY <1>1, <2>5 DEF Swept, Active
  <2>7. \A e \in Docs : e # d => (Active(e)' <=> Active(e))
    BY <2>2 DEF Active, Tasks
  <2> HIDE DEF d
  <2>8. Active(b)' => runs'[b].doc \notin sweep'[b].todo
    BY <1>1, <2>5 DEF OneReading, Active
  <2>9. \A e \in Docs : Active(e)' => ~Swept(b, e)'
    BY <2>3, <2>6, <2>7 DEF OneReading
  <2>10. \A e \in Docs : Active(e)' \/ Swept(b, e)' => docs'[e].ocr \in {"pending", "error"}
    BY <2>4, <2>6, <2>7 DEF OneReading
  <2>11. OneReading(b)'
    BY <2>8, <2>9, <2>10 DEF OneReading
  <2>12. \A e \in Docs : docs[e].status = "approved" /\ docs[e].ocr = "passed" => e # d
    BY <1>3 DEF d
  <2>13. ApprovedByReading'
    BY <1>1, <2>4, <2>12, ApprovalKept
  <2> QED
    BY <2>11, <2>13
<1> QED
  BY <1>2, <1>3

\* The reading that ends was the only one of its document.
LEMMA FinishKeeps ==
  ASSUME NEW b, Boxes = {b}, KycBase, OneReading(b), ApprovedByReading, NEW r \in Tasks, FinishOCR(r)
  PROVE  OneReading(b)' /\ ApprovedByReading'
<1> DEFINE d == runs[r].doc
           decision == runs[r].decision
<1>1. /\ Active(r) /\ runs[r].pc = "finish" /\ d \in Docs /\ decision \in {"approved", "rejected"}
      /\ r \in Docs => d = r
      /\ runs' = [runs EXCEPT ![r] = NoRun] /\ UNCHANGED sweep
  BY DEF FinishOCR, Active, KycBase, TasksKnow
<1>2. docs \in [Docs -> DocRows] /\ runs \in [Tasks -> RunRows]
      /\ kyc \in [KycPeople -> {"none", "not_started", "in_review", "approved", "rejected", "expired"}]
  BY KycParts DEF PeopleOK
<1>3. r = b \/ (r = d /\ r # b /\ ~Swept(b, d))
  BY <1>1, KycAssumption DEF Tasks, OneReading
<1>4. docs[d].ocr \in Waits
  BY <1>1, <1>3 DEF OneReading, Swept, Waits
<1>5. \A e \in Docs : e # d => docs'[e] = docs[e]
  BY <1>1, <1>2 DEF FinishOCR
<1>6. docs'[d].status = decision /\ docs'[d].ocr = IF decision = "approved" THEN "passed" ELSE "failed"
  BY <1>1, <1>2 DEF FinishOCR, DocRows
<1>7. \A s \in Tasks : s # r => runs'[s] = runs[s]
  BY <1>1, <1>2
<1>8. runs'[r].pc = "idle"
  BY <1>1, <1>2, NoRunContinues
<1>9. \A s \in Tasks : ReadingContinues(s)
  BY <1>7, <1>8 DEF ReadingContinues, Active
<1>10. ~(runs'[d].pc # "idle") /\ d \notin sweep'[b].todo /\ ~(runs'[b].pc # "idle" /\ runs'[b].doc = d)
  <2>1. CASE r = b
    <3>1. Swept(b, d) /\ d \in Tasks
      BY <1>1, <2>1 DEF Swept, Tasks
    <3>2. ~Active(d)
      BY <1>1, <3>1 DEF OneReading
    <3> QED
      BY <1>1, <1>7, <1>8, <2>1, <3>1, <3>2 DEF OneReading, Active
  <2>2. CASE r # b
    <3>1. r = d /\ ~Swept(b, d) /\ b \in Tasks
      BY <1>3, <2>2 DEF Tasks
    <3> QED
      BY <1>1, <1>7, <1>8, <2>2, <3>1 DEF Swept, Active
  <2> QED
    BY <2>1, <2>2
<1> HIDE DEF d, decision
<1>11. OneReading(b)'
  BY <1>1, <1>5, <1>9, <1>10, ReadingsKept
<1>12. ASSUME NEW p \in KycPeople, kyc'[p] = "approved"
       PROVE  \E e \in Docs : /\ DocOwner[e] = p /\ PrimaryIDDoc(DocType[e])
                              /\ docs'[e].status = "approved" /\ docs'[e].ocr = "passed"
  <2>1. CASE kyc[p] = "approved"
    <3>1. PICK e \in Docs : /\ DocOwner[e] = p /\ PrimaryIDDoc(DocType[e])
                            /\ docs[e].status = "approved" /\ docs[e].ocr = "passed"
      BY <2>1 DEF ApprovedByReading
    <3>2. e # d
      BY <1>4, <3>1 DEF Waits
    <3> QED
      BY <1>5, <3>1, <3>2
  <2>2. CASE kyc[p] # "approved"
    <3>1. p = DocOwner[d] /\ PrimaryIDDoc(DocType[d]) /\ decision = "approved"
      BY <1>2, <1>12, <2>2 DEF FinishOCR, d, decision
    <3> QED
      BY <1>1, <1>6, <3>1
  <2> QED
    BY <2>1, <2>2
<1> QED
  BY <1>11, <1>12 DEF ApprovedByReading

LEMMA RunKeeps ==
  ASSUME NEW b, Boxes = {b}, KycBase, OneReading(b), ApprovedByReading, NEW r \in Tasks, RunStep(r)
  PROVE  OneReading(b)' /\ ApprovedByReading'
<1>1. ASSUME \A s \in Tasks : RunContinues(s) PROVE \A s \in Tasks : ReadingContinues(s)
  BY <1>1 DEF RunContinues, ReadingContinues
<1>2. CASE LoadDoc(r) \/ Analyze(r) \/ ReadFails(r) \/ RunEnds(r)
  <2>1. UNCHANGED <<docs, kyc, sweep>>
    BY <1>2 DEF LoadDoc, Analyze, ReadFails, RunEnds, KycSame
  <2> QED
    BY <1>1, <1>2, <2>1, RunBase, RowsAlone
<1>3. CASE TouchPending(r)
  <2>1. docs \in [Docs -> DocRows] /\ UNCHANGED <<kyc, sweep>>
    BY <1>3, KycParts DEF TouchPending
  <2>2. UNCHANGED docs \/ docs' = [docs EXCEPT ![runs[r].doc].updated = 0]
    BY <1>3 DEF TouchPending
  <2>3. \A d \in Docs : docs'[d].ocr = docs[d].ocr /\ docs'[d].status = docs[d].status
    BY <2>1, <2>2 DEF DocRows
  <2> QED
    BY <1>1, <1>3, <2>1, <2>3, TouchBase, ReadingsKept, ApprovalKept
<1> QED
  BY <1>2, <1>3, FinishKeeps DEF RunStep

\* A sweep takes up no document that is being read: its run would be over.
LEMMA SweepKeeps ==
  ASSUME NEW b, Boxes = {b}, RunTime <= MinAge, KycBase, OneReading(b), ApprovedByReading, SweepStep(b)
  PROVE  OneReading(b)' /\ ApprovedByReading'
<1>1. /\ docs \in [Docs -> DocRows] /\ runs \in [Tasks -> RunRows] /\ sweep \in [Boxes -> SweepRows]
      /\ b \in Tasks
  BY KycParts DEF Tasks
<1>2. ASSUME GiveUpStale(b) PROVE OneReading(b)' /\ ApprovedByReading'
  <2>1. sweep' = [sweep EXCEPT ![b].pc = "list"] /\ UNCHANGED <<runs, kyc>>
    BY <1>2 DEF GiveUpStale
  <2>2. sweep'[b].todo = sweep[b].todo
    BY <1>1, <2>1 DEF SweepRows
  <2>3. ASSUME NEW d \in Docs
        PROVE  \/ docs'[d] = docs[d]
               \/ docs[d].ocr = "pending" /\ docs'[d].ocr = "error"
    BY <1>1, <1>2 DEF GiveUpStale, Stale, DocRows
  <2>4. \A d \in Docs : docs[d].ocr \in Waits => docs'[d].ocr \in Waits
    BY <2>3 DEF Waits
  <2>5. \A d \in Docs : docs[d].ocr = "passed" => docs'[d] = docs[d]
    BY <2>3
  <2> QED
    BY <2>1, <2>2, <2>4, <2>5, NoReadingBegins, ReadingsKept, ApprovalKept
<1>3. ASSUME SweepLists(b) PROVE OneReading(b)' /\ ApprovedByReading'
  <2>1. PICK s \in SUBSET {d \in Docs : Retryable(d)} : sweep' = [sweep EXCEPT ![b] = [pc |-> "run", todo |-> s]]
    BY <1>3 DEF SweepLists
  <2>2. UNCHANGED <<docs, kyc, runs>> /\ sweep'[b].todo = s /\ ~Active(b)
    BY <1>1, <1>3, <2>1 DEF SweepLists, KycBase, SweepsKnow
  <2>3. ASSUME NEW d \in Docs, Active(d) PROVE d \notin s
    <3>1. docs[d].updated <= runs[d].age
      BY <2>3 DEF KycBase, RunsYounger
    <3>2. docs[d] \in DocRows /\ runs[d] \in RunRows
      BY <1>1 DEF Tasks
    <3>3. docs[d].updated \in Int
      BY <3>2 DEF DocRows
    <3>4. runs[d].age \in 0..RunTime
      BY <3>2, Zenon DEF RunRows
    <3>5. ~(docs[d].updated > MinAge)
      BY <3>1, <3>3, <3>4, KycAssumption
    <3> QED
      BY <2>1, <3>5 DEF Retryable
  <2>4. \A d : Swept(b, d)' <=> d \in s
    BY <2>2 DEF Swept, Active
  <2>5. \A d \in Docs : Active(d)' <=> Active(d)
    BY <2>2 DEF Active
  <2>6. OneReading(b)'
    BY <2>1, <2>2, <2>3, <2>4, <2>5 DEF OneReading, Retryable, Active
  <2> QED
    BY <2>2, <2>6, ApprovalKept
<1>4. ASSUME SweepNext(b) PROVE OneReading(b)' /\ ApprovedByReading'
  <2>1. UNCHANGED <<docs, kyc>> /\ ~Active(b) /\ sweep[b] \in SweepRows
    BY <1>1, <1>4 DEF SweepNext, Active
  <2>2. CASE sweep[b].todo = {}
    <3>1. UNCHANGED runs /\ sweep'[b].todo = {}
      BY <1>1, <1>4, <2>2 DEF SweepNext, NoSweep
    <3> QED
      BY <2>1, <3>1, NoReadingBegins, RowsAlone
  <2>3. CASE sweep[b].todo # {}
    <3>1. PICK d \in sweep[b].todo :
            /\ sweep' = [sweep EXCEPT ![b].todo = @ \ {d}]
            /\ runs' = [runs EXCEPT ![b] = [NoRun EXCEPT !.pc = "load", !.doc = d, !.box = b]]
      BY <1>4, <2>3 DEF SweepNext
    <3>2. sweep'[b].todo = sweep[b].todo \ {d}
      BY <1>1, <2>1, <3>1 DEF SweepRows
    <3>3. runs'[b].doc = d /\ \A r \in Tasks \ {b} : runs'[r] = runs[r]
      BY <1>1, <3>1 DEF NoRun
    <3>4. \A e : Swept(b, e)' => Swept(b, e)
      BY <3>2, <3>3 DEF Swept
    <3>5. \A e \in Docs : Active(e)' <=> Active(e)
      BY <3>3, KycAssumption DEF Active, Tasks
    <3>6. OneReading(b)'
      BY <2>1, <3>2, <3>3, <3>4, <3>5 DEF OneReading
    <3> QED
      BY <2>1, <3>6, ApprovalKept
  <2> QED
    BY <2>2, <2>3
<1> QED
  BY <1>2, <1>3, <1>4 DEF SweepStep

LEMMA TimeKeeps ==
  ASSUME NEW b, Boxes = {b}, KycBase, OneReading(b), ApprovedByReading, Ages \/ Restart(b)
  PROVE  OneReading(b)' /\ ApprovedByReading'
<1>1. ASSUME Ages PROVE OneReading(b)' /\ ApprovedByReading'
  <2>1. docs \in [Docs -> DocRows] /\ runs \in [Tasks -> RunRows] /\ UNCHANGED <<kyc, sweep>>
    BY <1>1, KycParts DEF Ages
  <2>2. \A d \in Docs : docs'[d].ocr = docs[d].ocr /\ docs'[d].status = docs[d].status
    BY <1>1, <2>1 DEF Ages, DocRows
  <2>3. \A r \in Tasks : runs'[r].pc = runs[r].pc /\ runs'[r].doc = runs[r].doc
    BY <1>1, <2>1 DEF Ages, RunRows
  <2>4. \A r \in Tasks : ReadingContinues(r)
    BY <2>3 DEF ReadingContinues, Active
  <2> QED
    BY <2>1, <2>2, <2>4, ReadingsKept, ApprovalKept
<1>2. ASSUME Restart(b) PROVE OneReading(b)' /\ ApprovedByReading'
  <2>1. UNCHANGED <<docs, kyc>> /\ sweep' = [sweep EXCEPT ![b] = NoSweep]
        /\ \A r \in Tasks : runs'[r] = IF runs[r].box = b THEN NoRun ELSE runs[r]
    BY <1>2 DEF Restart
  <2>2. sweep'[b].todo \subseteq sweep[b].todo
    BY <2>1, KycParts DEF NoSweep
  <2>3. \A r \in Tasks : ReadingContinues(r)
    BY <2>1, NoRunContinues DEF ReadingContinues, Active
  <2> QED
    BY <2>1, <2>2, <2>3, RowsAlone
<1> QED
  BY <1>1, <1>2

\* With one box, and while a run is over before its document may be taken up again (the 70 seconds
\* of a run, the 2 minutes of the sweep), a member is approved only while an identity document of
\* theirs is: nothing that reads a document finds the one an approval rests on (kycocr.go
\* FinishKYCOCR).
THEOREM OneBoxKeepsApproval ==
  ASSUME NEW b, Boxes = {b}, RunTime <= MinAge
  PROVE  KycSpec => []ApprovedHasDocument
<1>1. KycInit => KycInv(b)
  BY KycStarts DEF KycInv
<1>2. ASSUME KycInv(b), [KycNext]_kycVars PROVE KycInv(b)'
  <2>1. KycBase /\ OneReading(b) /\ ApprovedByReading
    BY <1>2 DEF KycInv
  <2>2. ASSUME UNCHANGED kycVars PROVE OneReading(b)' /\ ApprovedByReading'
    BY <2>1, <2>2, NoReadingBegins, RowsAlone DEF kycVars
  <2>3. ASSUME KycNext PROVE OneReading(b)' /\ ApprovedByReading'
    BY <2>1, <2>3, MemberKeeps, MarkKeeps, RunKeeps, SweepKeeps, TimeKeeps DEF KycNext
  <2>4. OneReading(b)' /\ ApprovedByReading'
    BY <1>2, <2>2, <2>3
  <2> QED
    BY <1>2, <2>1, <2>4, BaseSteps DEF KycInv
<1>3. KycInv(b) => ApprovedHasDocument
  BY DEF KycInv, ApprovedByReading, ApprovedHasDocument
<1>4. KycInv(b) /\ [KycNext]_kycVars => KycInv(b)'
  BY <1>2
<1> QED
  BY <1>1, <1>3, <1>4, PTL DEF KycSpec

-----------------------------------------------------------------------------
(* Members: the inductive invariant.                                       *)

Pcs == {"idle", "find", "insert", "write", "resolve", "sponsor", "intent", "record", "owner", "locked", "place",
        "lock", "edit", "delete"}
Kinds == {"", "profile", "onboarding", "checkout", "register", "verified", "activate", "edit", "delete"}
People == [mail : Addresses \cup {Nobody}, status : Statuses, flagged : BOOLEAN, admin : BOOLEAN]
Seats == [status : Statuses \cup {"none"}, sponsor : Persons \cup {Nobody}]
Attributions ==
  [sponsor : Persons \cup {Nobody}, source : {"none", "register", "verified_login", "admin_tree_relocation"},
   state : {"none", "fresh", "old", "consumed"}]
MemberCalls ==
  [pc : Pcs, kind : Kinds, mail : Addresses \cup {Nobody}, who : Persons \cup {Nobody},
   patch : Patches \cup {<<>>}, to : Addresses \cup Persons \cup {Nobody}, sponsor : Persons \cup {Nobody},
   seated : BOOLEAN, hint : Attributions]
Orders ==
  [mail : Addresses \cup {Nobody}, who : Persons, sponsor : Persons, seated : BOOLEAN, hint : Attributions]

Shapes ==
  /\ person \in [Persons -> People] /\ seat \in [Persons -> Seats]
  /\ fields \in [Persons -> [Fields -> Texts \cup {Nobody}]]
  /\ onboarded \subseteq Persons /\ holding \subseteq Persons
  /\ banned \subseteq ({"mail"} \X Addresses) \cup ({"name", "phone"} \X Texts)
  /\ referral \in [Addresses -> Attributions]
  /\ intents \subseteq Orders
  /\ rowLock \in [Persons -> Requests \cup {Nobody}]
  /\ request \in [Requests -> MemberCalls]

\* What a request knows at each of its steps: who it is about, that its person is there, and that
\* the attribution it has seen standing is the one that stands.
Knows(q) ==
  /\ q.pc \in {"find", "insert", "write", "resolve", "sponsor", "intent", "record"} => q.mail \in Addresses
  /\ q.pc \in {"find", "insert"} /\ q.kind = "checkout" => q.to \in Persons \cup {Nobody}
  /\ q.pc \in {"resolve", "sponsor"} => q.to \in Persons \cup {Nobody}
  /\ q.pc \in {"sponsor", "intent", "owner", "locked", "place", "lock", "edit", "delete"} => q.who \in Persons
  /\ q.pc \in {"sponsor", "intent", "place", "lock", "edit"} => Exists(q.who)
  /\ q.pc \in {"record", "owner", "locked", "place"} => q.to \in Persons
  /\ q.pc \in {"owner", "locked"} => q.mail = LoginMail[q.who] /\ q.mail \in Addresses
  /\ q.pc \in {"lock", "edit"} => q.to \in Addresses \cup {Nobody}
  /\ q.pc = "intent" => q.sponsor \in Persons
  /\ q.hint # NoReferral => q.mail \in Addresses /\ Fresh(q.mail) /\ q.hint = referral[q.mail]
  /\ q.pc = "intent" /\ q.hint # NoReferral /\ ~q.seated => q.sponsor = q.hint.sponsor

RequestsKnow == \A r \in Requests : Knows(request[r])

\* A row that is not there yet is empty, and nothing refers to it.
UnbornEmpty == \A p \in Persons : ~Exists(p) => \A f \in Fields : fields[p][f] = Nobody
SeatedExist == \A p \in Persons : Seated(p) => Exists(p)
PayersExist == \A i \in intents : Exists(i.who)

\* An attribution that stands names a person.
FreshNamed == \A e \in Addresses : Fresh(e) => referral[e].sponsor \in Persons

MInv ==
  Shapes /\ RequestsKnow /\ UnbornEmpty /\ SeatedExist /\ PayersExist /\ FreshNamed /\ NoSilentSponsor

-----------------------------------------------------------------------------
(* Lemmas about the operators.                                             *)

LEMMA PatchValues ==
  ASSUME NEW patch \in Patches \cup {<<>>}, NEW f \in DOMAIN patch
  PROVE  f \in Fields /\ patch[f] \in Texts
<1>1. CASE patch = <<>>
  BY <1>1
<1>2. CASE patch \in Patches
  <2>1. PICK F \in SUBSET Fields : patch \in [F -> Texts]
    BY <1>2, MembersAssumption
  <2> QED
    BY <2>1
<1> QED
  BY <1>1, <1>2

LEMMA MergedType ==
  ASSUME NEW row \in [Fields -> Texts \cup {Nobody}], NEW patch \in Patches \cup {<<>>}
  PROVE  Merged(row, patch) \in [Fields -> Texts \cup {Nobody}]
  BY PatchValues DEF Merged

LEMMA NoRequestKnows == NoRequest \in MemberCalls /\ NoRequest.pc = "idle" /\ Knows(NoRequest) /\ NoReferral \in Attributions
<1>1. NoReferral \in Attributions
  BY DEF NoReferral, Attributions
<1>2. NoRequest \in MemberCalls
  BY <1>1 DEF NoRequest, MemberCalls, Pcs, Kinds
<1>3. NoRequest.pc = "idle" /\ NoRequest.hint = NoReferral
  BY DEF NoRequest
<1> QED
  BY <1>1, <1>2, <1>3 DEF Knows

\* The steps of one request, by which nobody disappears and no attribution changes.
LEMMA RequestMoves ==
  ASSUME MInv, NEW r \in Requests, NEW q \in MemberCalls, Knows(q)',
         request' = [request EXCEPT ![r] = q],
         \A p \in Persons : Exists(p) => Exists(p)', referral' = referral
  PROVE  request' \in [Requests -> MemberCalls] /\ RequestsKnow'
<1>1. request' \in [Requests -> MemberCalls] /\ request'[r] = q /\ \A x \in Requests \ {r} : request'[x] = request[x]
  BY DEF MInv, Shapes
<1>2. ASSUME NEW x \in Requests \ {r} PROVE Knows(request[x])'
  <2>1. Knows(request[x])
    BY DEF MInv, RequestsKnow
  <2>2. request'[x] = request[x]
    BY <1>1
  <2> QED
    BY <2>1, <2>2 DEF Knows, Fresh
<1>3. Knows(request[r])'
  BY <1>1 DEF Knows, Fresh, Exists
<1> QED
  BY <1>1, <1>2, <1>3 DEF RequestsKnow

LEMMA RequestLeaves ==
  ASSUME MInv, NEW r \in Requests, Leave(r),
         \A p \in Persons : Exists(p) => Exists(p)', referral' = referral
  PROVE  request' \in [Requests -> MemberCalls] /\ RequestsKnow'
<1>1. Knows(NoRequest)'
  BY DEF NoRequest, NoReferral, Knows
<1> QED
  BY <1>1, NoRequestKnows, RequestMoves DEF Leave

LEMMA NobodyMoves ==
  ASSUME MInv, request' = request, \A p \in Persons : Exists(p) => Exists(p)', referral' = referral
  PROVE  request' \in [Requests -> MemberCalls] /\ RequestsKnow'
<1>1. ASSUME NEW x \in Requests PROVE Knows(request[x])'
  <2>1. Knows(request[x])
    BY DEF MInv, RequestsKnow
  <2> QED
    BY <2>1 DEF Knows, Fresh
<1> QED
  BY <1>1 DEF MInv, Shapes, RequestsKnow

\* A new attribution: nobody holds on to the one before.
LEMMA Attributes ==
  ASSUME MInv, NEW e \in Addresses, NEW row \in Attributions, NEW r,
         row.state = "fresh" => row.sponsor \in Persons, Attribute(e, row, r), person' = person
  PROVE  /\ request' \in [Requests -> MemberCalls] /\ RequestsKnow'
         /\ referral' \in [Addresses -> Attributions] /\ FreshNamed'
<1>1. referral' = [referral EXCEPT ![e] = row]
  BY DEF Attribute
<1>2. referral' \in [Addresses -> Attributions] /\ FreshNamed'
  BY <1>1 DEF MInv, Shapes, FreshNamed, Fresh
<1>3. ASSUME NEW x \in Requests PROVE request'[x] \in MemberCalls /\ Knows(request[x])'
  <2>1. request'[x] = IF x = r THEN NoRequest
                      ELSE IF request[x].mail = e THEN [request[x] EXCEPT !.hint = NoReferral] ELSE request[x]
    BY DEF Attribute
  <2>2. request[x] \in MemberCalls /\ Knows(request[x])
    BY DEF MInv, Shapes, RequestsKnow
  <2>3. CASE x = r
    BY <2>1, <2>3, NoRequestKnows DEF NoRequest, Knows
  <2>4. CASE x # r /\ request[x].mail = e
    <3>1. request'[x] = [request[x] EXCEPT !.hint = NoReferral]
      BY <2>1, <2>4
    <3>2. request'[x] \in MemberCalls /\ request'[x].hint = NoReferral
      BY <3>1, <2>2, NoRequestKnows DEF MemberCalls
    <3>3. /\ request'[x].pc = request[x].pc /\ request'[x].kind = request[x].kind
          /\ request'[x].mail = request[x].mail /\ request'[x].who = request[x].who
          /\ request'[x].to = request[x].to /\ request'[x].sponsor = request[x].sponsor
      BY <3>1, <2>2 DEF MemberCalls
    <3> QED
      BY <2>2, <3>2, <3>3 DEF Knows, Exists
  <2>5. CASE x # r /\ request[x].mail # e
    <3>1. request'[x] = request[x]
      BY <2>1, <2>5
    <3>2. \A d \in Addresses : d # e => referral'[d] = referral[d]
      BY <1>1 DEF MInv, Shapes
    <3> QED
      BY <2>2, <2>5, <3>1, <3>2 DEF Knows, Exists, Fresh
  <2> QED
    BY <2>3, <2>4, <2>5
<1>4. request' = [x \in Requests |-> request'[x]]
  BY DEF Attribute
<1> QED
  BY <1>2, <1>3, <1>4 DEF RequestsKnow

-----------------------------------------------------------------------------
LEMMA MembersStart == MembersInit => MInv
<1> SUFFICES ASSUME MembersInit PROVE MInv
  OBVIOUS
<1>1. Shapes
  <2>1. person \in [Persons -> People]
    BY DEF MembersInit, People, Statuses
  <2>2. seat \in [Persons -> Seats]
    BY MembersAssumption DEF MembersInit, Seats, NoNode, Statuses
  <2>3. fields \in [Persons -> [Fields -> Texts \cup {Nobody}]]
    BY DEF MembersInit
  <2>4. referral \in [Addresses -> Attributions] /\ request \in [Requests -> MemberCalls]
    BY NoRequestKnows DEF MembersInit
  <2> QED
    BY <2>1, <2>2, <2>3, <2>4 DEF MembersInit, Shapes
<1>2. RequestsKnow
  BY NoRequestKnows DEF MembersInit, RequestsKnow
<1>3. UnbornEmpty
  BY DEF MembersInit, UnbornEmpty
<1>4. SeatedExist
  <2> SUFFICES ASSUME NEW p \in Persons, Seated(p) PROVE Exists(p)
    BY DEF SeatedExist
  <2>1. seat[p].status = "active"
    BY DEF MembersInit, Seated, NoNode
  <2> QED
    BY <2>1 DEF MembersInit
<1>5. PayersExist /\ FreshNamed /\ NoSilentSponsor
  BY DEF MembersInit, PayersExist, FreshNamed, NoSilentSponsor, Fresh, NoReferral
<1> QED
  BY <1>1, <1>2, <1>3, <1>4, <1>5 DEF MInv

-----------------------------------------------------------------------------
(* One lemma per action.                                                   *)

\* What a step that leaves the books alone has to show.
LEMMA Undisturbed ==
  ASSUME MInv, UNCHANGED <<person, fields, onboarded, seat, holding, banned, referral, intents>>,
         rowLock' \in [Persons -> Requests \cup {Nobody}], request' \in [Requests -> MemberCalls], RequestsKnow'
  PROVE  MInv'
  BY DEF MInv, Shapes, UnbornEmpty, SeatedExist, PayersExist, FreshNamed, NoSilentSponsor, Exists, Seated, Fresh

\* A request that begins, or goes on, without touching the books.
LEMMA Proceeds ==
  ASSUME MInv, NEW r \in Requests, NEW q \in MemberCalls, Knows(q), request' = [request EXCEPT ![r] = q],
         UNCHANGED <<person, fields, onboarded, seat, holding, banned, referral, intents>>,
         rowLock' \in [Persons -> Requests \cup {Nobody}]
  PROVE  MInv'
<1>1. Knows(q)' /\ \A p \in Persons : Exists(p) => Exists(p)'
  BY DEF Knows, Exists, Fresh
<1> QED
  BY <1>1, RequestMoves, Undisturbed

LEMMA Leaves ==
  ASSUME MInv, NEW r \in Requests, Leave(r),
         UNCHANGED <<person, fields, onboarded, seat, holding, banned, referral, intents>>,
         rowLock' \in [Persons -> Requests \cup {Nobody}]
  PROVE  MInv'
  BY NoRequestKnows, Proceeds DEF Leave

LEMMA MemberAsksKeeps ==
  ASSUME MInv, NEW r \in Requests, NEW e \in Addresses, NEW patch \in Patches \cup {<<>>},
         NEW kind \in Kinds, NEW to \in Persons \cup {Nobody}, MemberAsks(r, kind, e, patch, to)
  PROVE  MInv'
<1> DEFINE q == [NoRequest EXCEPT !.pc = "find", !.kind = kind, !.mail = e, !.patch = patch, !.to = to,
                                  !.hint = IF Fresh(e) THEN referral[e] ELSE NoReferral]
<1>1. /\ q.pc = "find" /\ q.kind = kind /\ q.mail = e /\ q.to = to
      /\ q.hint = IF Fresh(e) THEN referral[e] ELSE NoReferral
  BY DEF NoRequest
<1>2. q \in MemberCalls
  BY NoRequestKnows, ZenonT(60) DEF NoRequest, MemberCalls, Pcs, MInv, Shapes
<1>3. Knows(q)
  BY <1>1 DEF Knows
<1>4. /\ request' = [request EXCEPT ![r] = q] /\ rowLock' \in [Persons -> Requests \cup {Nobody}]
      /\ UNCHANGED <<person, fields, onboarded, seat, holding, banned, referral, intents>>
  BY DEF MemberAsks, MInv, Shapes
<1> QED
  BY <1>2, <1>3, <1>4, Proceeds

LEMMA RegisterStartKeeps ==
  ASSUME MInv, NEW r \in Requests, NEW e \in Addresses, NEW to \in Persons, RegisterStart(r, e, to)
  PROVE  MInv'
<1> DEFINE q == [NoRequest EXCEPT !.pc = "record", !.kind = "register", !.mail = e, !.to = to]
<1>1 q \in MemberCalls /\ Knows(q)
  <2>1. q.pc = "record" /\ q.mail = e /\ q.to = to /\ q.hint = NoReferral
    BY DEF NoRequest
  <2>2. q \in MemberCalls
    BY NoRequestKnows DEF NoRequest, MemberCalls, Pcs, Kinds
  <2> HIDE DEF q
  <2> QED
    BY <2>1, <2>2 DEF Knows
<1>2. /\ request' = [request EXCEPT ![r] = q] /\ rowLock' \in [Persons -> Requests \cup {Nobody}]
      /\ UNCHANGED <<person, fields, onboarded, seat, holding, banned, referral, intents>>
  BY DEF RegisterStart, MembersSame, MInv, Shapes
<1> QED
  BY <1>1, <1>2, Proceeds

LEMMA VerifiedStartKeeps ==
  ASSUME MInv, NEW r \in Requests, NEW p \in Persons, NEW to \in Persons, VerifiedStart(r, p, to)
  PROVE  MInv'
<1> DEFINE q == [NoRequest EXCEPT !.pc = "owner", !.kind = "verified", !.mail = LoginMail[p], !.who = p, !.to = to]
<1>1. LoginMail[p] \in Addresses
  BY MembersAssumption DEF VerifiedStart, Bound
<1>2 q \in MemberCalls /\ Knows(q)
  <2>1. q.pc = "owner" /\ q.mail = LoginMail[p] /\ q.who = p /\ q.to = to /\ q.hint = NoReferral
    BY DEF NoRequest
  <2>2. q \in MemberCalls
    BY <1>1, NoRequestKnows DEF NoRequest, MemberCalls, Pcs, Kinds
  <2> HIDE DEF q
  <2> QED
    BY <1>1, <2>1, <2>2 DEF Knows
<1>3. /\ request' = [request EXCEPT ![r] = q] /\ rowLock' \in [Persons -> Requests \cup {Nobody}]
      /\ UNCHANGED <<person, fields, onboarded, seat, holding, banned, referral, intents>>
  BY DEF VerifiedStart, MembersSame, MInv, Shapes
<1> QED
  BY <1>2, <1>3, Proceeds

LEMMA PlaceLockKeeps ==
  ASSUME MInv, NEW r \in Requests, NEW i \in intents, PlaceLock(r, i)
  PROVE  MInv'
<1> DEFINE q == [NoRequest EXCEPT !.pc = "place", !.kind = "activate", !.who = i.who, !.to = i.sponsor]
<1>1. i.who \in Persons /\ i.sponsor \in Persons /\ Exists(i.who)
  BY DEF MInv, Shapes, Orders, PayersExist
<1>2 q \in MemberCalls /\ Knows(q)
  <2>1. q.pc = "place" /\ q.who = i.who /\ q.to = i.sponsor /\ q.hint = NoReferral
    BY DEF NoRequest
  <2>2. q \in MemberCalls
    BY <1>1, NoRequestKnows DEF NoRequest, MemberCalls, Pcs, Kinds
  <2> HIDE DEF q
  <2> QED
    BY <1>1, <2>1, <2>2 DEF Knows
<1>3. /\ request' = [request EXCEPT ![r] = q] /\ rowLock' \in [Persons -> Requests \cup {Nobody}]
      /\ UNCHANGED <<person, fields, onboarded, seat, holding, banned, referral, intents>>
  BY <1>1 DEF PlaceLock, MInv, Shapes
<1> QED
  BY <1>2, <1>3, Proceeds

LEMMA EditStartKeeps ==
  ASSUME MInv, NEW r \in Requests, NEW p \in Persons, NEW patch \in Patches, NEW to \in Addresses \cup {Nobody},
         EditStart(r, p, patch, to)
  PROVE  MInv'
<1> DEFINE q == [NoRequest EXCEPT !.pc = "lock", !.kind = "edit", !.who = p, !.patch = patch, !.to = to]
<1>1 q \in MemberCalls /\ Knows(q)
  <2>1. q.pc = "lock" /\ q.who = p /\ q.to = to /\ q.hint = NoReferral
    BY DEF NoRequest
  <2>2. q \in MemberCalls
    BY NoRequestKnows DEF NoRequest, MemberCalls, Pcs, Kinds
  <2> HIDE DEF q
  <2> QED
    BY <2>1, <2>2 DEF Knows, EditStart
<1>2. /\ request' = [request EXCEPT ![r] = q] /\ rowLock' \in [Persons -> Requests \cup {Nobody}]
      /\ UNCHANGED <<person, fields, onboarded, seat, holding, banned, referral, intents>>
  BY DEF EditStart, MembersSame, MInv, Shapes
<1> QED
  BY <1>1, <1>2, Proceeds

LEMMA DeleteStartKeeps ==
  ASSUME MInv, NEW r \in Requests, NEW p \in Persons, DeleteStart(r, p)
  PROVE  MInv'
<1> DEFINE q == [NoRequest EXCEPT !.pc = "delete", !.kind = "delete", !.who = p]
<1>1 q \in MemberCalls /\ Knows(q)
  <2>1. q.pc = "delete" /\ q.who = p /\ q.hint = NoReferral
    BY DEF NoRequest
  <2>2. q \in MemberCalls
    BY NoRequestKnows DEF NoRequest, MemberCalls, Pcs, Kinds
  <2> HIDE DEF q
  <2> QED
    BY <2>1, <2>2 DEF Knows
<1>2. /\ request' = [request EXCEPT ![r] = q] /\ rowLock' \in [Persons -> Requests \cup {Nobody}]
      /\ UNCHANGED <<person, fields, onboarded, seat, holding, banned, referral, intents>>
  BY DEF DeleteStart, MembersSame, MInv, Shapes
<1> QED
  BY <1>1, <1>2, Proceeds

\* A request that goes on to its next step and learns nothing.
LEMMA MemberMovesOn ==
  ASSUME MInv, NEW r \in Requests, NEW pc \in Pcs,
         NEW q, q = [request[r] EXCEPT !.pc = pc]
  PROVE  /\ q \in MemberCalls /\ q.pc = pc /\ q.kind = request[r].kind /\ q.mail = request[r].mail
         /\ q.who = request[r].who /\ q.to = request[r].to /\ q.sponsor = request[r].sponsor
         /\ q.seated = request[r].seated /\ q.hint = request[r].hint /\ q.patch = request[r].patch
  BY DEF MInv, Shapes, MemberCalls

LEMMA FindPersonKeeps ==
  ASSUME MInv, NEW r \in Requests, FindPerson(r)
  PROVE  MInv'
<1> DEFINE pc == IF PersonsAt(request[r].mail) = {} THEN "insert" ELSE After(request[r].kind)
<1> DEFINE q == [request[r] EXCEPT !.pc = pc]
<1>1. pc \in Pcs /\ pc \in {"insert", "resolve", "write"} /\ (pc = "resolve" => request[r].kind = "checkout")
  BY DEF After, Pcs
<1>2. request' = [request EXCEPT ![r] = q] /\ request[r].pc = "find"
  BY DEF FindPerson, Moves, Stands, MInv, Shapes
<1>3. Knows(request[r])
  BY DEF MInv, RequestsKnow
<1> HIDE DEF pc
<1>4. q \in MemberCalls /\ Knows(q)
  BY <1>1, <1>2, <1>3, MemberMovesOn DEF Knows
<1>5. /\ rowLock' \in [Persons -> Requests \cup {Nobody}]
      /\ UNCHANGED <<person, fields, onboarded, seat, holding, banned, referral, intents>>
  BY DEF FindPerson, MembersSame, MInv, Shapes
<1> QED
  BY <1>2, <1>4, <1>5, Proceeds

LEMMA InsertPersonKeeps ==
  ASSUME MInv, NEW r \in Requests, InsertPerson(r)
  PROVE  MInv'
<1> DEFINE e == request[r].mail
<1> DEFINE patch == request[r].patch
<1> PICK q : q = [request[r] EXCEPT !.pc = After(request[r].kind)]
  OBVIOUS
<1>1. request' = [request EXCEPT ![r] = q] /\ request[r].pc = "insert"
  BY DEF InsertPerson, Moves, Stands, MInv, Shapes
<1>2. Knows(request[r]) /\ e \in Addresses /\ e # Nobody
  BY <1>1, MembersAssumption DEF MInv, RequestsKnow, Knows
<1>3. q \in MemberCalls /\ q.pc \in {"resolve", "write"} /\ (q.pc = "resolve" => request[r].kind = "checkout")
  BY MemberMovesOn DEF After, Pcs
<1>4. Knows(q)
  BY <1>1, <1>2, <1>3, MemberMovesOn DEF Knows, After, Pcs
<1>5. UNCHANGED <<onboarded, seat, holding, banned, referral, rowLock, intents>>
  BY DEF InsertPerson, MembersSame
<1>6. CASE PersonsAt(e) # {}
  <2>1. UNCHANGED <<person, fields>>
    BY <1>6 DEF InsertPerson
  <2>2. rowLock' \in [Persons -> Requests \cup {Nobody}]
    BY <1>5 DEF MInv, Shapes
  <2> QED
    BY <1>1, <1>3, <1>4, <1>5, <2>1, <2>2, Proceeds
<1>7. CASE PersonsAt(e) = {}
  <2>1. PICK p \in Persons :
          /\ ~Exists(p)
          /\ person' = [person EXCEPT ![p] = [mail |-> e, status |-> "active", flagged |-> FALSE, admin |-> FALSE]]
          /\ fields' = [fields EXCEPT ![p] = [f \in Fields |->
               IF f \in DOMAIN patch \ {"wallet"} THEN patch[f] ELSE Nobody]]
    BY <1>7 DEF InsertPerson
  <2>2. person' \in [Persons -> People] /\ \A x \in Persons : Exists(x) => Exists(x)'
    BY <2>1, <1>2 DEF MInv, Shapes, People, Statuses, Exists
  <2>3. Exists(p)'
    BY <2>1, <1>2 DEF MInv, Shapes, Exists
  <2>4. fields' \in [Persons -> [Fields -> Texts \cup {Nobody}]]
    <3>1. patch \in Patches \cup {<<>>}
      BY DEF MInv, Shapes, MemberCalls
    <3>2. [f \in Fields |-> IF f \in DOMAIN patch \ {"wallet"} THEN patch[f] ELSE Nobody]
            \in [Fields -> Texts \cup {Nobody}]
      BY <3>1, PatchValues
    <3> QED
      BY <2>1, <3>2 DEF MInv, Shapes
  <2>5. UnbornEmpty'
    BY <2>1, <2>2, <2>3 DEF MInv, Shapes, UnbornEmpty, Exists
  <2>6. Knows(q)'
    BY <1>4, <1>5, <1>3, <2>2 DEF Knows, Fresh
  <2>7. request' \in [Requests -> MemberCalls] /\ RequestsKnow'
    BY <1>1, <1>3, <1>5, <2>2, <2>6, RequestMoves
  <2>8. SeatedExist' /\ PayersExist' /\ FreshNamed' /\ NoSilentSponsor'
    BY <1>5, <2>2 DEF MInv, SeatedExist, PayersExist, FreshNamed, NoSilentSponsor, Seated, Fresh, Shapes, Orders
  <2>9. Shapes'
    BY <1>5, <2>2, <2>4, <2>7 DEF MInv, Shapes
  <2> QED
    BY <2>5, <2>7, <2>8, <2>9 DEF MInv
<1> QED
  BY <1>6, <1>7

LEMMA WriteFieldsKeeps ==
  ASSUME MInv, NEW r \in Requests, WriteFields(r)
  PROVE  MInv'
<1> DEFINE found == PersonsAt(request[r].mail)
<1>1. UNCHANGED <<person, seat, holding, banned, referral, intents, rowLock>> /\ Leave(r)
  BY DEF WriteFields
<1>2. fields' = [p \in Persons |-> IF p \in found THEN Merged(fields[p], request[r].patch) ELSE fields[p]]
  BY DEF WriteFields
<1>3. found \subseteq Persons /\ \A p \in found : Exists(p)
  BY MembersAssumption DEF PersonsAt, Exists
<1>4. fields' \in [Persons -> [Fields -> Texts \cup {Nobody}]]
  <2>1. request[r].patch \in Patches \cup {<<>>}
    BY DEF MInv, Shapes, MemberCalls
  <2>2. \A p \in Persons : fields[p] \in [Fields -> Texts \cup {Nobody}]
    BY DEF MInv, Shapes
  <2>3. \A p \in Persons : Merged(fields[p], request[r].patch) \in [Fields -> Texts \cup {Nobody}]
    BY <2>1, <2>2, MergedType
  <2> QED
    BY <1>2, <2>2, <2>3
<1>5. onboarded' \subseteq Persons
  BY <1>3 DEF WriteFields, MInv, Shapes
<1>6. request' \in [Requests -> MemberCalls] /\ RequestsKnow'
  BY <1>1, RequestLeaves DEF Exists
<1>7. UnbornEmpty'
  BY <1>1, <1>2, <1>3 DEF MInv, UnbornEmpty, Exists
<1>8. SeatedExist' /\ PayersExist' /\ FreshNamed' /\ NoSilentSponsor'
  BY <1>1 DEF MInv, SeatedExist, PayersExist, FreshNamed, NoSilentSponsor, Seated, Fresh, Exists
<1>9. Shapes'
  BY <1>1, <1>4, <1>5, <1>6 DEF MInv, Shapes
<1> QED
  BY <1>6, <1>7, <1>8, <1>9 DEF MInv

LEMMA ResolveBuyerKeeps ==
  ASSUME MInv, NEW r \in Requests, ResolveBuyer(r)
  PROVE  MInv'
<1>1. /\ rowLock' \in [Persons -> Requests \cup {Nobody}]
      /\ UNCHANGED <<person, fields, onboarded, seat, holding, banned, referral, intents>>
  BY DEF ResolveBuyer, MembersSame, MInv, Shapes
<1>2. CASE PersonsAt(request[r].mail) = {}
  BY <1>1, <1>2, Leaves DEF ResolveBuyer
<1>3. CASE PersonsAt(request[r].mail) # {}
  <2>1. PICK p \in PersonsAt(request[r].mail) :
          request' = [request EXCEPT ![r].pc = "sponsor", ![r].who = p, ![r].seated = Seated(p),
                                     ![r].sponsor = seat[p].sponsor]
    BY <1>3 DEF ResolveBuyer
  <2> DEFINE q == [request[r] EXCEPT !.pc = "sponsor", !.who = p, !.seated = Seated(p), !.sponsor = seat[p].sponsor]
  <2>2. p \in Persons /\ Exists(p)
    BY MembersAssumption DEF PersonsAt, Exists
  <2>3. request' = [request EXCEPT ![r] = q] /\ request[r].pc = "resolve"
    BY <2>1 DEF ResolveBuyer, Stands, MInv, Shapes
  <2>4. seat[p].sponsor \in Persons \cup {Nobody}
    BY <2>2 DEF MInv, Shapes, Seats
  <2>5. /\ q \in MemberCalls /\ q.pc = "sponsor" /\ q.who = p /\ q.mail = request[r].mail /\ q.to = request[r].to
        /\ q.hint = request[r].hint
    <3>1. Seated(p) \in BOOLEAN
      BY DEF Seated
    <3>2. request[r] \in MemberCalls
      BY DEF MInv, Shapes
    <3> QED
      BY <2>2, <2>4, <3>1, <3>2 DEF MemberCalls, Pcs
  <2>6. Knows(request[r])
    BY DEF MInv, RequestsKnow
  <2> HIDE DEF q
  <2>7. Knows(q)
    BY <2>2, <2>3, <2>5, <2>6 DEF Knows
  <2> QED
    BY <1>1, <2>3, <2>5, <2>7, Proceeds
<1> QED
  BY <1>2, <1>3

LEMMA CheckoutSponsorKeeps ==
  ASSUME MInv, NEW r \in Requests, CheckoutSponsor(r)
  PROVE  MInv'
<1> DEFINE e == request[r].mail
<1> DEFINE chosen == IF request[r].seated THEN request[r].sponsor
                     ELSE IF Attributed(e) THEN referral[e].sponsor ELSE request[r].to
<1> DEFINE named == IF chosen = Nobody THEN Founder ELSE chosen
<1>1. /\ rowLock' \in [Persons -> Requests \cup {Nobody}]
      /\ UNCHANGED <<person, fields, onboarded, seat, holding, banned, referral, intents>>
  BY DEF CheckoutSponsor, MembersSame, MInv, Shapes
<1>2. request[r].pc = "sponsor" /\ Knows(request[r]) /\ request[r] \in MemberCalls
  BY DEF CheckoutSponsor, Stands, MInv, Shapes, RequestsKnow
<1>3. e \in Addresses
  BY <1>2 DEF Knows
<1>4. chosen \in Persons \cup {Nobody} /\ named \in Persons
  <2>1. referral[e].sponsor \in Persons \cup {Nobody} /\ request[r].sponsor \in Persons \cup {Nobody}
        /\ request[r].to \in Persons \cup {Nobody}
    BY <1>2, <1>3 DEF MInv, Shapes, Attributions, MemberCalls, Knows
  <2> QED
    BY <2>1, MembersAssumption
<1>5. ~request[r].seated /\ request[r].hint # NoReferral => named = request[r].hint.sponsor
  <2> SUFFICES ASSUME ~request[r].seated, request[r].hint # NoReferral PROVE named = request[r].hint.sponsor
    OBVIOUS
  <2>1. Fresh(e) /\ request[r].hint = referral[e]
    BY <1>2 DEF Knows
  <2>2. chosen = referral[e].sponsor /\ referral[e].sponsor \in Persons
    BY <1>3, <2>1 DEF Attributed, MInv, FreshNamed
  <2>3. chosen # Nobody
    BY <2>2, MembersAssumption
  <2> QED
    BY <2>1, <2>2, <2>3
<1>6. CASE ~request[r].seated /\ chosen # Nobody /\ ~Eligible(chosen)
  BY <1>1, <1>6, Leaves DEF CheckoutSponsor
<1>7. CASE ~(~request[r].seated /\ chosen # Nobody /\ ~Eligible(chosen))
  <2>1. request' = [request EXCEPT ![r].pc = "intent", ![r].sponsor = named]
    BY <1>7 DEF CheckoutSponsor
  <2> HIDE DEF named
  <2> DEFINE q == [request[r] EXCEPT !.pc = "intent", !.sponsor = named]
  <2>2. request' = [request EXCEPT ![r] = q]
    BY <2>1 DEF MInv, Shapes
  <2>3. /\ q \in MemberCalls /\ q.pc = "intent" /\ q.who = request[r].who /\ q.mail = e
        /\ q.hint = request[r].hint /\ q.sponsor = named /\ q.seated = request[r].seated
    BY <1>2, <1>4 DEF MemberCalls, Pcs
  <2> HIDE DEF q
  <2>4. Knows(q)
    BY <1>2, <1>4, <1>5, <2>3 DEF Knows
  <2> QED
    BY <1>1, <2>2, <2>3, <2>4, Proceeds
<1> QED
  BY <1>6, <1>7

LEMMA CreateIntentKeeps ==
  ASSUME MInv, NEW r \in Requests, CreateIntent(r)
  PROVE  MInv'
<1> DEFINE q == request[r]
<1> DEFINE new == [mail |-> q.mail, who |-> q.who, sponsor |-> q.sponsor, seated |-> q.seated, hint |-> q.hint]
<1>1. /\ UNCHANGED <<person, fields, onboarded, seat, holding, banned, referral, rowLock>>
      /\ intents' = intents \cup {new} /\ Leave(r) /\ q.pc = "intent"
  BY DEF CreateIntent, MembersSame, Stands
<1>2. Knows(q) /\ q \in MemberCalls
  BY DEF MInv, Shapes, RequestsKnow
<1>3. new \in Orders /\ Exists(new.who)
  BY <1>1, <1>2 DEF Knows, MemberCalls, Orders
<1>4. new.hint # NoReferral /\ ~new.seated => new.sponsor = new.hint.sponsor
  BY <1>1, <1>2 DEF Knows
<1> HIDE DEF new
<1>5. request' \in [Requests -> MemberCalls] /\ RequestsKnow'
  BY <1>1, RequestLeaves DEF Exists
<1>6. PayersExist' /\ NoSilentSponsor'
  BY <1>1, <1>3, <1>4 DEF MInv, PayersExist, NoSilentSponsor, Exists
<1>7. UnbornEmpty' /\ SeatedExist' /\ FreshNamed'
  BY <1>1 DEF MInv, UnbornEmpty, SeatedExist, FreshNamed, Exists, Seated, Fresh
<1>8. Shapes'
  BY <1>1, <1>3, <1>5 DEF MInv, Shapes
<1> QED
  BY <1>5, <1>6, <1>7, <1>8 DEF MInv

LEMMA RequestFailsKeeps ==
  ASSUME MInv, NEW r \in Requests, RequestFails(r)
  PROVE  MInv'
<1>1. rowLock' \in [Persons -> Requests \cup {Nobody}]
  BY DEF RequestFails, MInv, Shapes
<1> QED
  BY <1>1, Leaves DEF RequestFails

\* A step that writes an attribution and nothing else of what the invariant reads.
LEMMA AttributionKept ==
  ASSUME MInv, NEW e \in Addresses, NEW row \in Attributions, NEW r,
         row.state = "fresh" => row.sponsor \in Persons, Attribute(e, row, r),
         UNCHANGED <<person, fields, onboarded, seat, holding, banned, intents, rowLock>>
  PROVE  MInv'
<1>1. /\ request' \in [Requests -> MemberCalls] /\ RequestsKnow'
      /\ referral' \in [Addresses -> Attributions] /\ FreshNamed'
  BY Attributes
<1> QED
  BY <1>1 DEF MInv, Shapes, UnbornEmpty, SeatedExist, PayersExist, NoSilentSponsor, Exists, Seated

LEMMA RecordReferralKeeps ==
  ASSUME MInv, NEW r \in Requests, RecordReferral(r)
  PROVE  MInv'
<1> DEFINE row == [sponsor |-> request[r].to, source |-> "register", state |-> "fresh"]
<1>1. request[r].mail \in Addresses /\ request[r].to \in Persons
  BY DEF RecordReferral, Stands, MInv, RequestsKnow, Knows
<1>2. row \in Attributions /\ row.sponsor \in Persons
  BY <1>1 DEF Attributions
<1>3. Attribute(request[r].mail, row, r)
  BY DEF RecordReferral
<1> HIDE DEF row
<1> QED
  BY <1>1, <1>2, <1>3, AttributionKept DEF RecordReferral

LEMMA VerifiedOwnerKeeps ==
  ASSUME MInv, NEW r \in Requests, VerifiedOwner(r)
  PROVE  MInv'
<1>1. /\ rowLock' \in [Persons -> Requests \cup {Nobody}]
      /\ UNCHANGED <<person, fields, onboarded, seat, holding, banned, referral, intents>>
  BY DEF VerifiedOwner, MembersSame, MInv, Shapes
<1>2. CASE ~Bound(request[r].who)
  BY <1>1, <1>2, Leaves DEF VerifiedOwner
<1>3. CASE Bound(request[r].who)
  <2> DEFINE q == [request[r] EXCEPT !.pc = "locked", !.seated = Seated(request[r].who)]
  <2>1. request' = [request EXCEPT ![r] = q] /\ request[r].pc = "owner"
    BY <1>3 DEF VerifiedOwner, Stands, MInv, Shapes
  <2>2. /\ q \in MemberCalls /\ q.pc = "locked" /\ q.who = request[r].who /\ q.mail = request[r].mail
        /\ q.to = request[r].to /\ q.hint = request[r].hint
    <3>1. request[r] \in MemberCalls /\ Seated(request[r].who) \in BOOLEAN
      BY DEF MInv, Shapes, Seated
    <3> QED
      BY <3>1 DEF MemberCalls, Pcs
  <2>3. Knows(request[r])
    BY DEF MInv, RequestsKnow
  <2> HIDE DEF q
  <2>4. Knows(q)
    BY <2>1, <2>2, <2>3 DEF Knows
  <2> QED
    BY <1>1, <2>1, <2>2, <2>4, Proceeds
<1> QED
  BY <1>2, <1>3

LEMMA VerifiedReferralKeeps ==
  ASSUME MInv, NEW r \in Requests, VerifiedReferral(r)
  PROVE  MInv'
<1> DEFINE p == request[r].who
<1> DEFINE to == request[r].to
<1> DEFINE row == [sponsor |-> to, source |-> "verified_login", state |-> "fresh"]
<1> DEFINE accepted == /\ MayAttribute(r) /\ ~person[p].flagged /\ person[p].status = "active"
                       /\ ~Vetoed(p) /\ Eligible(to)
<1>1. request[r].mail \in Addresses /\ to \in Persons
  BY DEF VerifiedReferral, Stands, MInv, RequestsKnow, Knows
<1>2. row \in Attributions /\ row.sponsor \in Persons
  BY <1>1 DEF Attributions
<1>3. UNCHANGED <<person, fields, onboarded, seat, holding, banned, intents, rowLock>>
  BY DEF VerifiedReferral
<1>4. CASE accepted
  <2>1. Attribute(request[r].mail, row, r)
    BY <1>4 DEF VerifiedReferral
  <2> HIDE DEF row
  <2> QED
    BY <1>1, <1>2, <1>3, <2>1, AttributionKept
<1>5. CASE ~accepted
  <2>1. Leave(r) /\ referral' = referral
    BY <1>5 DEF VerifiedReferral
  <2>2. rowLock' \in [Persons -> Requests \cup {Nobody}]
    BY <1>3 DEF MInv, Shapes
  <2> QED
    BY <1>3, <2>1, <2>2, Leaves
<1> QED
  BY <1>4, <1>5

LEMMA ReferralAgesKeeps ==
  ASSUME MInv, NEW e \in Addresses, ReferralAges(e)
  PROVE  MInv'
<1> DEFINE row == [referral[e] EXCEPT !.state = "old"]
<1>1. row \in Attributions /\ row.state = "old"
  BY DEF MInv, Shapes, Attributions
<1>2. Attribute(e, row, Nobody)
  BY DEF ReferralAges
<1> HIDE DEF row
<1> QED
  BY <1>1, <1>2, AttributionKept DEF ReferralAges

LEMMA PlaceCommitKeeps ==
  ASSUME MInv, NEW r \in Requests, PlaceCommit(r)
  PROVE  MInv'
<1> DEFINE p == request[r].who
<1> DEFINE to == request[r].to
<1>1. UNCHANGED <<person, fields, onboarded, banned, referral, intents>> /\ Leave(r)
  BY DEF PlaceCommit
<1>2. p \in Persons /\ to \in Persons /\ Exists(p)
  BY DEF PlaceCommit, Stands, MInv, RequestsKnow, Knows
<1>3. rowLock' \in [Persons -> Requests \cup {Nobody}]
  BY DEF PlaceCommit, MInv, Shapes
<1>4. request' \in [Requests -> MemberCalls] /\ RequestsKnow'
  BY <1>1, RequestLeaves DEF Exists
<1>5. /\ seat' = seat \/ seat' = [seat EXCEPT ![p] = [status |-> "active", sponsor |-> to]]
      /\ holding' = holding \/ holding' = holding \cup {p}
  BY DEF PlaceCommit
<1>6. seat' \in [Persons -> Seats] /\ holding' \subseteq Persons
  BY <1>2, <1>5 DEF MInv, Shapes, Seats, Statuses
<1>7. SeatedExist'
  BY <1>1, <1>2, <1>5 DEF MInv, Shapes, SeatedExist, Seated, Exists
<1>8. UnbornEmpty' /\ PayersExist' /\ FreshNamed' /\ NoSilentSponsor'
  BY <1>1 DEF MInv, UnbornEmpty, PayersExist, FreshNamed, NoSilentSponsor, Exists, Fresh
<1>9. Shapes'
  BY <1>1, <1>3, <1>4, <1>6 DEF MInv, Shapes
<1> QED
  BY <1>4, <1>7, <1>8, <1>9 DEF MInv

LEMMA RelocatedKeeps ==
  ASSUME MInv, NEW p \in Persons, NEW to \in Persons, Relocated(p, to)
  PROVE  MInv'
<1> DEFINE row == [sponsor |-> to, source |-> "admin_tree_relocation", state |-> "consumed"]
<1>1. UNCHANGED <<person, fields, onboarded, holding, banned, rowLock>>
  BY DEF Relocated
<1>2. person[p].mail \in Addresses
  BY DEF Relocated, MInv, SeatedExist, Exists, Shapes, People
<1>3. row \in Attributions /\ row.state = "consumed"
  BY DEF Attributions
<1>4. Attribute(person[p].mail, row, Nobody)
  BY DEF Relocated
<1> HIDE DEF row
<1>5. /\ request' \in [Requests -> MemberCalls] /\ RequestsKnow'
      /\ referral' \in [Addresses -> Attributions] /\ FreshNamed'
  BY <1>1, <1>2, <1>3, <1>4, Attributes
<1>6. seat' = [seat EXCEPT ![p].sponsor = to] /\ Seated(p)
  BY DEF Relocated
<1>7. seat' \in [Persons -> Seats] /\ SeatedExist'
  BY <1>1, <1>6 DEF MInv, Shapes, Seats, SeatedExist, Seated, Exists
<1>8. intents' = {IF i.who = p THEN [i EXCEPT !.sponsor = to, !.hint = NoReferral] ELSE i : i \in intents}
  BY DEF Relocated
<1>9. \A i \in intents' :
        /\ i \in Orders /\ Exists(i.who)
        /\ i.hint # NoReferral /\ ~i.seated => i.sponsor = i.hint.sponsor
  <2> SUFFICES ASSUME NEW o \in intents, NEW i,
                      i = IF o.who = p THEN [o EXCEPT !.sponsor = to, !.hint = NoReferral] ELSE o
               PROVE  /\ i \in Orders /\ Exists(i.who)
                      /\ i.hint # NoReferral /\ ~i.seated => i.sponsor = i.hint.sponsor
    BY <1>8
  <2>1. o \in Orders /\ Exists(o.who) /\ (o.hint # NoReferral /\ ~o.seated => o.sponsor = o.hint.sponsor)
    BY DEF MInv, Shapes, PayersExist, NoSilentSponsor
  <2>2. CASE o.who = p
    <3>1. i = [o EXCEPT !.sponsor = to, !.hint = NoReferral]
      BY <2>2
    <3>2. i \in Orders /\ i.who = o.who /\ i.hint = NoReferral
      BY <3>1, <2>1, NoRequestKnows DEF Orders
    <3> QED
      BY <2>1, <3>2
  <2> QED
    BY <2>1, <2>2
<1>10. PayersExist' /\ NoSilentSponsor' /\ intents' \subseteq Orders
  BY <1>1, <1>9 DEF PayersExist, NoSilentSponsor, Exists
<1>11. UnbornEmpty'
  BY <1>1 DEF MInv, UnbornEmpty, Exists
<1>12. Shapes'
  BY <1>1, <1>5, <1>7, <1>10 DEF MInv, Shapes
<1> QED
  BY <1>5, <1>7, <1>10, <1>11, <1>12 DEF MInv

LEMMA EditLockKeeps ==
  ASSUME MInv, NEW r \in Requests, EditLock(r)
  PROVE  MInv'
<1> DEFINE q == [request[r] EXCEPT !.pc = "edit"]
<1>1. request' = [request EXCEPT ![r] = q] /\ request[r].pc = "lock"
  BY DEF EditLock, Moves, Stands, MInv, Shapes
<1>2. Knows(request[r])
  BY DEF MInv, RequestsKnow
<1>3. q \in MemberCalls /\ Knows(q)
  BY <1>1, <1>2, MemberMovesOn DEF Knows, Pcs
<1>4. /\ rowLock' \in [Persons -> Requests \cup {Nobody}]
      /\ UNCHANGED <<person, fields, onboarded, seat, holding, banned, referral, intents>>
  BY DEF EditLock, MInv, Shapes
<1> QED
  BY <1>1, <1>3, <1>4, Proceeds

LEMMA EditCommitKeeps ==
  ASSUME MInv, NEW r \in Requests, EditCommit(r)
  PROVE  MInv'
<1> DEFINE p == request[r].who
<1> DEFINE to == request[r].to
<1> DEFINE patch == request[r].patch
<1> DEFINE renamed == to # Nobody /\ to # person[p].mail
<1>1. UNCHANGED <<onboarded, seat, holding, banned, referral>> /\ Leave(r)
  BY DEF EditCommit
<1>2. p \in Persons /\ Exists(p) /\ to \in Addresses \cup {Nobody}
  BY DEF EditCommit, Stands, MInv, RequestsKnow, Knows
<1>3. rowLock' \in [Persons -> Requests \cup {Nobody}]
  BY DEF EditCommit, MInv, Shapes
<1>4. /\ person' = person \/ (renamed /\ person' = [person EXCEPT ![p].mail = to])
      /\ fields' = fields \/ fields' = [fields EXCEPT ![p] = Merged(fields[p], patch)]
      /\ \/ intents' = intents
         \/ renamed /\ intents' = {IF i.who = p THEN [i EXCEPT !.mail = to] ELSE i : i \in intents}
  BY <1>2 DEF EditCommit, MInv, Shapes
<1>5. person' \in [Persons -> People] /\ \A x \in Persons : Exists(x) => Exists(x)'
  <2>1. CASE person' = person
    BY <2>1 DEF MInv, Shapes, Exists
  <2>2. CASE renamed /\ person' = [person EXCEPT ![p].mail = to]
    <3>1. to \in Addresses /\ to # Nobody /\ person[p] \in People
      BY <1>2, <2>2 DEF MInv, Shapes
    <3>2. [person[p] EXCEPT !.mail = to] \in People /\ [person[p] EXCEPT !.mail = to].mail = to
      BY <3>1 DEF People
    <3>3. person' = [person EXCEPT ![p] = [person[p] EXCEPT !.mail = to]]
      BY <2>2
    <3> QED
      BY <1>2, <3>1, <3>2, <3>3 DEF MInv, Shapes, Exists
  <2> QED
    BY <1>4, <2>1, <2>2
<1>6. fields' \in [Persons -> [Fields -> Texts \cup {Nobody}]] /\ \A x \in Persons \ {p} : fields'[x] = fields[x]
  <2>1. patch \in Patches \cup {<<>>} /\ fields[p] \in [Fields -> Texts \cup {Nobody}]
    BY <1>2 DEF MInv, Shapes, MemberCalls
  <2>2. Merged(fields[p], patch) \in [Fields -> Texts \cup {Nobody}]
    BY <2>1, MergedType
  <2> QED
    BY <1>2, <1>4, <2>2 DEF MInv, Shapes
<1>7. UnbornEmpty'
  BY <1>2, <1>5, <1>6 DEF MInv, UnbornEmpty
<1>8. \A i \in intents' :
        /\ i \in Orders /\ Exists(i.who)'
        /\ i.hint # NoReferral /\ ~i.seated => i.sponsor = i.hint.sponsor
  <2>1. ASSUME NEW i \in intents
        PROVE  i \in Orders /\ Exists(i.who)' /\ (i.hint # NoReferral /\ ~i.seated => i.sponsor = i.hint.sponsor)
    BY <1>5 DEF MInv, Shapes, Orders, PayersExist, NoSilentSponsor
  <2>2. ASSUME NEW o \in intents, NEW i, renamed, i = IF o.who = p THEN [o EXCEPT !.mail = to] ELSE o
        PROVE  i \in Orders /\ Exists(i.who)' /\ (i.hint # NoReferral /\ ~i.seated => i.sponsor = i.hint.sponsor)
    <3>1. /\ i \in Orders /\ i.who = o.who /\ i.hint = o.hint /\ i.seated = o.seated /\ i.sponsor = o.sponsor
      BY <1>2, <2>1, <2>2 DEF Orders
    <3> QED
      BY <3>1, <2>1
  <2> QED
    BY <1>4, <2>1, <2>2
<1>9. PayersExist' /\ NoSilentSponsor' /\ intents' \subseteq Orders
  BY <1>8 DEF PayersExist, NoSilentSponsor
<1>10. request' \in [Requests -> MemberCalls] /\ RequestsKnow'
  BY <1>1, <1>5, RequestLeaves
<1>11. SeatedExist' /\ FreshNamed'
  BY <1>1, <1>5 DEF MInv, SeatedExist, FreshNamed, Seated, Fresh
<1>12. Shapes'
  BY <1>1, <1>3, <1>5, <1>6, <1>9, <1>10 DEF MInv, Shapes
<1> QED
  BY <1>7, <1>9, <1>10, <1>11, <1>12 DEF MInv

\* The state of a person and of its affiliate, whoever writes them.
LEMMA StatesKept ==
  ASSUME MInv, NEW p \in Persons, NEW row \in People, row.mail = person[p].mail, NEW status \in Statuses,
         person' = [person EXCEPT ![p] = row],
         seat' = seat \/ (Seated(p) /\ seat' = [seat EXCEPT ![p].status = status]),
         request' \in [Requests -> MemberCalls], RequestsKnow',
         UNCHANGED <<fields, onboarded, holding, banned, referral, intents, rowLock>>
  PROVE  MInv'
<1>1. person' \in [Persons -> People] /\ \A x \in Persons : Exists(x)' <=> Exists(x)
  BY DEF MInv, Shapes, Exists
<1>2. seat' \in [Persons -> Seats] /\ SeatedExist'
  <2>1. CASE seat' = seat
    BY <1>1, <2>1 DEF MInv, Shapes, SeatedExist, Seated
  <2>2. CASE Seated(p) /\ seat' = [seat EXCEPT ![p].status = status]
    <3>1. seat[p] \in Seats
      BY DEF MInv, Shapes
    <3>2. [seat[p] EXCEPT !.status = status] \in Seats
      BY <3>1 DEF Seats
    <3>3. seat' \in [Persons -> Seats] /\ \A x \in Persons \ {p} : seat'[x] = seat[x]
      BY <2>2, <3>2 DEF MInv, Shapes
    <3> QED
      BY <1>1, <2>2, <3>3 DEF MInv, SeatedExist, Seated
  <2> QED
    BY <2>1, <2>2
<1>3. UnbornEmpty' /\ PayersExist' /\ FreshNamed' /\ NoSilentSponsor'
  BY <1>1 DEF MInv, UnbornEmpty, PayersExist, FreshNamed, NoSilentSponsor, Fresh, Shapes, Orders
<1> QED
  BY <1>1, <1>2, <1>3 DEF MInv, Shapes

LEMMA SoftDeleteKeeps ==
  ASSUME MInv, NEW r \in Requests, SoftDelete(r)
  PROVE  MInv'
<1> DEFINE p == request[r].who
<1> DEFINE row == [person[p] EXCEPT !.status = "deleted"]
<1>1. p \in Persons
  BY DEF SoftDelete, Stands, MInv, RequestsKnow, Knows
<1>2. person' = [person EXCEPT ![p] = row] /\ Leave(r) /\ referral' = referral
  BY <1>1 DEF SoftDelete, MInv, Shapes
<1>3. row \in People /\ row.mail = person[p].mail
  <2>1. person[p] \in People
    BY <1>1 DEF MInv, Shapes
  <2> QED
    BY <2>1 DEF People, Statuses
<1>4. \A x \in Persons : Exists(x) => Exists(x)'
  BY <1>1, <1>2, <1>3 DEF MInv, Shapes, Exists
<1>5. request' \in [Requests -> MemberCalls] /\ RequestsKnow'
  BY <1>2, <1>4, RequestLeaves
<1>6. "deleted" \in Statuses
  BY DEF Statuses
<1>7. seat' = seat \/ (Seated(p) /\ seat' = [seat EXCEPT ![p].status = "deleted"])
  BY DEF SoftDelete
<1> HIDE DEF p, row
<1> QED
  BY <1>1, <1>2, <1>3, <1>5, <1>6, <1>7, StatesKept DEF SoftDelete

LEMMA SetBlockedKeeps ==
  ASSUME MInv, NEW p \in Persons, NEW blocked \in BOOLEAN, SetBlocked(p, blocked)
  PROVE  MInv'
<1> DEFINE status == IF blocked THEN "suspended" ELSE "active"
<1> DEFINE row == [person[p] EXCEPT !.flagged = blocked, !.status = status]
<1>1. status \in Statuses
  BY DEF Statuses
<1>2. person' = [person EXCEPT ![p] = row]
  BY DEF SetBlocked, MInv, Shapes
<1>3. seat' = seat \/ (Seated(p) /\ seat' = [seat EXCEPT ![p].status = status])
  BY DEF SetBlocked
<1> HIDE DEF status
<1>4. row \in People /\ row.mail = person[p].mail
  BY <1>1 DEF MInv, Shapes, People
<1>5. \A x \in Persons : Exists(x) => Exists(x)'
  BY <1>2, <1>4 DEF MInv, Shapes, Exists
<1>6. request' \in [Requests -> MemberCalls] /\ RequestsKnow'
  BY <1>5, NobodyMoves DEF SetBlocked
<1> HIDE DEF row
<1> QED
  BY <1>1, <1>2, <1>3, <1>4, <1>6, StatesKept DEF SetBlocked

LEMMA SetAdminFlagKeeps ==
  ASSUME MInv, NEW p \in Persons, NEW grant \in BOOLEAN, SetAdminFlag(p, grant)
  PROVE  MInv'
<1> DEFINE row == [person[p] EXCEPT !.admin = grant]
<1>1. person' = [person EXCEPT ![p] = row] /\ seat' = seat
  BY DEF SetAdminFlag, MInv, Shapes
<1>2. row \in People /\ row.mail = person[p].mail
  BY DEF MInv, Shapes, People
<1>3. \A x \in Persons : Exists(x) => Exists(x)'
  BY <1>1, <1>2 DEF MInv, Shapes, Exists
<1>4. request' \in [Requests -> MemberCalls] /\ RequestsKnow'
  BY <1>3, NobodyMoves DEF SetAdminFlag
<1>5. "active" \in Statuses
  BY DEF Statuses
<1> HIDE DEF row
<1> QED
  BY <1>1, <1>2, <1>4, <1>5, StatesKept DEF SetAdminFlag

LEMMA BlacklistKeeps ==
  ASSUME MInv, RemoveBlacklist \/ \E e \in Addresses : AddBlacklist(e)
  PROVE  MInv'
<1>1. /\ UNCHANGED <<person, fields, onboarded, seat, holding, referral, intents, rowLock, request>>
      /\ banned' \subseteq ({"mail"} \X Addresses) \cup ({"name", "phone"} \X Texts)
  BY DEF AddBlacklist, RemoveBlacklist, MInv, Shapes
<1>2. request' \in [Requests -> MemberCalls] /\ RequestsKnow'
  BY <1>1, NobodyMoves DEF Exists
<1> QED
  BY <1>1, <1>2 DEF MInv, Shapes, UnbornEmpty, SeatedExist, PayersExist, FreshNamed, NoSilentSponsor, Exists, Seated,
       Fresh

-----------------------------------------------------------------------------
LEMMA MembersSteps ==
  ASSUME MInv, [MembersNext]_memberVars
  PROVE  MInv'
<1>1. ASSUME NEW r \in Requests, RequestStep(r) PROVE MInv'
  BY <1>1, FindPersonKeeps, InsertPersonKeeps, WriteFieldsKeeps, ResolveBuyerKeeps, CheckoutSponsorKeeps,
     CreateIntentKeeps, RecordReferralKeeps, VerifiedOwnerKeeps, VerifiedReferralKeeps, PlaceCommitKeeps,
     EditLockKeeps, EditCommitKeeps, SoftDeleteKeeps, RequestFailsKeeps DEF RequestStep
<1>2. ASSUME NEW r \in Requests, NEW e \in Addresses, NEW patch \in Patches,
             MemberAsks(r, "profile", e, patch, Nobody) \/ MemberAsks(r, "onboarding", e, patch, Nobody)
      PROVE  MInv'
  BY <1>2, MemberAsksKeeps DEF Kinds
<1>3. ASSUME NEW r \in Requests, NEW e \in Addresses, NEW to \in Persons \cup {Nobody},
             MemberAsks(r, "checkout", e, <<>>, to)
      PROVE  MInv'
  BY <1>3, MemberAsksKeeps DEF Kinds
<1>4. CASE UNCHANGED memberVars
  <2>1. UNCHANGED <<person, fields, onboarded, seat, holding, banned, referral, intents, rowLock, request>>
    BY <1>4 DEF memberVars
  <2>2. request' \in [Requests -> MemberCalls] /\ RequestsKnow' /\ rowLock' \in [Persons -> Requests \cup {Nobody}]
    BY <2>1, NobodyMoves DEF Exists, MInv, Shapes
  <2> QED
    BY <2>1, <2>2, Undisturbed
<1>5. ASSUME NEW r \in Requests, NEW p \in Persons, NEW patch \in Patches, NEW to \in Addresses \cup {Nobody},
             EditStart(r, p, patch, to)
      PROVE  MInv'
  BY <1>5, EditStartKeeps
<1>6. CASE MembersNext
  <2>1. CASE \E r \in Requests, e \in Addresses, patch \in Patches :
               \/ DOMAIN patch # {} /\ MemberAsks(r, "profile", e, patch, Nobody)
               \/ DOMAIN patch = {"name", "phone"} /\ MemberAsks(r, "onboarding", e, patch, Nobody)
    BY <2>1, <1>2
  <2>2. CASE \E r \in Requests, e \in Addresses, to \in Persons \cup {Nobody} : MemberAsks(r, "checkout", e, <<>>, to)
    BY <2>2, <1>3
  <2>3. CASE \E r \in Requests, p \in Persons, patch \in Patches, to \in Addresses \cup {Nobody} :
               "wallet" \notin DOMAIN patch /\ (DOMAIN patch # {} \/ to # Nobody) /\ EditStart(r, p, patch, to)
    BY <2>3, <1>5
  <2>4. CASE \E e \in Addresses : ReferralAges(e) \/ AddBlacklist(e)
    BY <2>4, ReferralAgesKeeps, BlacklistKeeps
  <2>5. CASE \E p \in Persons, b \in BOOLEAN : SetBlocked(p, b) \/ SetAdminFlag(p, b)
    BY <2>5, SetBlockedKeeps, SetAdminFlagKeeps
  <2>6. CASE \/ \E r \in Requests, e \in Addresses, to \in Persons : RegisterStart(r, e, to)
             \/ \E r \in Requests, p \in Persons, to \in Persons : VerifiedStart(r, p, to)
             \/ \E r \in Requests, i \in intents : PlaceLock(r, i)
             \/ \E r \in Requests, p \in Persons : DeleteStart(r, p)
             \/ \E p, to \in Persons : Relocated(p, to)
    BY <2>6, RegisterStartKeeps, VerifiedStartKeeps, PlaceLockKeeps, DeleteStartKeeps, RelocatedKeeps
  <2> QED
    BY <1>6, <1>1, <2>1, <2>2, <2>3, <2>4, <2>5, <2>6, BlacklistKeeps DEF MembersNext
<1> QED
  BY <1>4, <1>6

LEMMA MembersInvariant == MembersSpec => []MInv
  BY MembersStart, MembersSteps, PTL DEF MembersSpec

\* The rows of persons, affiliates, attributions and locks are what the schema allows.
THEOREM MembersTypeCorrect == MembersSpec => []MembersTypeOK
<1>1. MInv => MembersTypeOK
  BY DEF MInv, Shapes, MembersTypeOK, People, Seats, Attributions
<1> QED
  BY <1>1, MembersInvariant, PTL

\* A checkout that began under an attribution that still stands is made under its sponsor, or not at all
\* (registration_referral.go:63, http_checkout.go:272).
THEOREM AttributionDecides == MembersSpec => []NoSilentSponsor
  BY MembersInvariant, PTL DEF MInv

\* A verified link is recorded only for a person that has no affiliate and still has the login's mail
\* (verified_registration_referral.go:68).
THEOREM LinksPrecedePlacement == MembersSpec => LinkOnlyBeforePlacement
<1>1. ASSUME MInv, [MembersNext]_memberVars, NEW e \in Addresses, referral'[e] # referral[e],
             referral'[e].source = "verified_login", referral'[e].state = "fresh"
      PROVE  \E p \in Persons : LoginMail[p] = e /\ person[p].mail = e /\ ~Seated(p)
  <2>1. ASSUME NEW d, NEW row, NEW r, Attribute(d, row, r)
        PROVE  d = e /\ referral'[e] = row
    <3>1. referral' = [referral EXCEPT ![d] = row]
      BY <2>1 DEF Attribute
    <3> QED
      BY <3>1, <1>1 DEF MInv, Shapes
  <2>2. referral' # referral
    BY <1>1
  <2>3. PICK r \in Requests : RecordReferral(r) \/ VerifiedReferral(r)
    <3>1. ASSUME NEW d \in Addresses, ReferralAges(d) PROVE FALSE
      <4>1. referral'[e] = [referral[d] EXCEPT !.state = "old"]
        BY <3>1, <2>1 DEF ReferralAges
      <4> QED
        BY <4>1, <1>1 DEF MInv, Shapes, Attributions
    <3>2. ASSUME NEW p \in Persons, NEW to \in Persons, Relocated(p, to) PROVE FALSE
      <4>1. referral'[e] = [sponsor |-> to, source |-> "admin_tree_relocation", state |-> "consumed"]
        BY <3>2, <2>1 DEF Relocated
      <4> QED
        BY <4>1, <1>1
    <3>3. ASSUME NEW r \in Requests, RequestStep(r), ~RecordReferral(r), ~VerifiedReferral(r) PROVE FALSE
      BY <3>3, <2>2 DEF RequestStep, FindPerson, InsertPerson, WriteFields, ResolveBuyer, CheckoutSponsor, CreateIntent,
         VerifiedOwner, PlaceCommit, EditLock, EditCommit, SoftDelete, RequestFails, MembersSame
    <3> QED
      BY <1>1, <2>2, <3>1, <3>2, <3>3 DEF MembersNext, memberVars, MemberAsks, RegisterStart, VerifiedStart, PlaceLock,
         EditStart, DeleteStart, AddBlacklist, RemoveBlacklist, SetBlocked, SetAdminFlag, MembersSame
  <2>4. CASE RecordReferral(r)
    <3>1. referral'[e] = [sponsor |-> request[r].to, source |-> "register", state |-> "fresh"]
      BY <2>4, <2>1 DEF RecordReferral
    <3> QED
      BY <3>1, <1>1
  <2>5. CASE VerifiedReferral(r)
    <3>1. MayAttribute(r) /\ e = request[r].mail
      <4>1. MayAttribute(r) /\ \E row : Attribute(request[r].mail, row, r)
        BY <2>5, <2>2 DEF VerifiedReferral
      <4> QED
        BY <4>1, <2>1
    <3>2. request[r].who \in Persons /\ request[r].mail = LoginMail[request[r].who]
      BY <2>5, <1>1 DEF VerifiedReferral, Stands, MInv, RequestsKnow, Knows
    <3> QED
      BY <3>1, <3>2 DEF MayAttribute, Bound
  <2> QED
    BY <2>3, <2>4, <2>5
<1>2. MInv /\ [MembersNext]_memberVars =>
        [\A e \in Addresses :
           referral'[e] # referral[e] /\ referral'[e].source = "verified_login" /\ referral'[e].state = "fresh" =>
             \E p \in Persons : LoginMail[p] = e /\ person[p].mail = e /\ ~Seated(p)]_memberVars
  BY <1>1
<1> QED
  BY <1>2, MembersInvariant, PTL DEF MembersSpec, LinkOnlyBeforePlacement

\* Profile, onboarding and administrator write the fields their request carries and no others
\* (profile.go:66).
THEOREM FieldsAreNotErased == MembersSpec => NobodyErases
<1>1. ASSUME MInv, [MembersNext]_memberVars, NEW p \in Persons, NEW f \in Fields, fields'[p][f] # fields[p][f]
      PROVE  \E r \in Requests : /\ request[r].pc \in {"insert", "write", "edit"} /\ request'[r] # request[r]
                                 /\ f \in DOMAIN request[r].patch
                                 /\ fields'[p][f] = request[r].patch[f]
  <2>1. fields' # fields
    BY <1>1
  <2>2. PICK r \in Requests : InsertPerson(r) \/ WriteFields(r) \/ EditCommit(r)
    <3>1. ASSUME NEW r \in Requests, RequestStep(r), ~InsertPerson(r), ~WriteFields(r), ~EditCommit(r) PROVE FALSE
      BY <3>1, <2>1 DEF RequestStep, FindPerson, ResolveBuyer, CheckoutSponsor, CreateIntent, RecordReferral,
         VerifiedOwner, VerifiedReferral, PlaceCommit, EditLock, SoftDelete, RequestFails, MembersSame
    <3> QED
      BY <1>1, <2>1, <3>1 DEF MembersNext, memberVars, MemberAsks, RegisterStart, VerifiedStart, PlaceLock, ReferralAges,
         Relocated, EditStart, DeleteStart, AddBlacklist, RemoveBlacklist, SetBlocked, SetAdminFlag, MembersSame
  <2> DEFINE patch == request[r].patch
  <2>3. request[r] \in MemberCalls
    BY <1>1 DEF MInv, Shapes
  <2>4. ASSUME NEW q, q.pc # request[r].pc, request' = [request EXCEPT ![r] = q] PROVE request'[r] # request[r]
    BY <2>4, <1>1 DEF MInv, Shapes
  <2>5. CASE InsertPerson(r)
    <3>1. PICK x \in Persons :
            /\ ~Exists(x)
            /\ fields' = [fields EXCEPT ![x] = [g \in Fields |->
                 IF g \in DOMAIN patch \ {"wallet"} THEN patch[g] ELSE Nobody]]
      BY <2>1, <2>5 DEF InsertPerson
    <3>2. x = p /\ fields'[p][f] = IF f \in DOMAIN patch \ {"wallet"} THEN patch[f] ELSE Nobody
      BY <3>1, <1>1 DEF MInv, Shapes
    <3>3. fields[p][f] = Nobody
      BY <3>1, <3>2, <1>1 DEF MInv, UnbornEmpty
    <3>4. request[r].pc = "insert" /\ request'[r] # request[r]
      <4> DEFINE q == [request[r] EXCEPT !.pc = After(request[r].kind)]
      <4>1. request' = [request EXCEPT ![r] = q] /\ request[r].pc = "insert"
        BY <2>5, <1>1 DEF InsertPerson, Moves, Stands, MInv, Shapes
      <4>2. q.pc \in {"resolve", "write"}
        BY <2>3 DEF MemberCalls, After
      <4> HIDE DEF q
      <4> QED
        BY <4>1, <4>2, <2>4
    <3> QED
      BY <3>2, <3>3, <3>4, <1>1
  <2>6. ASSUME Leave(r), request[r].pc # "idle" PROVE request'[r] # request[r]
    BY <2>6, <2>4, NoRequestKnows DEF Leave
  <2>7. ASSUME fields'[p] = Merged(fields[p], patch) PROVE f \in DOMAIN patch /\ fields'[p][f] = patch[f]
    BY <2>7, <1>1 DEF Merged
  <2>8. CASE WriteFields(r)
    <3>1. fields'[p] = Merged(fields[p], patch)
      BY <2>8, <1>1 DEF WriteFields
    <3>2. request[r].pc = "write" /\ Leave(r)
      BY <2>8 DEF WriteFields, Stands
    <3> QED
      BY <3>1, <3>2, <2>6, <2>7
  <2>9. CASE EditCommit(r)
    <3>1. request[r].pc = "edit" /\ Leave(r) /\ request[r].who \in Persons
      BY <2>9, <1>1 DEF EditCommit, Stands, MInv, RequestsKnow, Knows
    <3>2. fields' = [fields EXCEPT ![request[r].who] = Merged(fields[request[r].who], patch)]
      BY <2>9, <2>1, <3>1, <1>1 DEF EditCommit, MInv, Shapes
    <3>3. fields'[p] = Merged(fields[p], patch)
      BY <3>2, <1>1 DEF MInv, Shapes
    <3> QED
      BY <3>1, <3>3, <2>6, <2>7
  <2> QED
    BY <2>2, <2>5, <2>8, <2>9
<1>2. MInv /\ [MembersNext]_memberVars =>
        [\A p \in Persons, f \in Fields :
           fields'[p][f] # fields[p][f] =>
             \E r \in Requests : /\ request[r].pc \in {"insert", "write", "edit"} /\ request'[r] # request[r]
                                 /\ f \in DOMAIN request[r].patch
                                 /\ fields'[p][f] = request[r].patch[f]]_memberVars
  BY <1>1
<1> QED
  BY <1>2, MembersInvariant, PTL DEF MembersSpec, NobodyErases
=============================================================================
