--------------------------- MODULE BinaryPeriods ---------------------------
(***************************************************************************)
(* The weekly cycle of the bonus engine (vp-engine/internal/bonusengine):  *)
(* the scheduler, which runs on several boxes, closes every open period    *)
(* whose week has ended and opens the period of the current week; closing  *)
(* a period pays the binary blocks, the points, the rank instalments and   *)
(* the streams that depend on purchases, all throttled by one theta, while *)
(* purchases go on and the daily ROI consumes the same package caps.       *)
(*                                                                         *)
(* CloseBinaryPeriod is one SERIALIZABLE transaction.  Its first statement *)
(* waits for the advisory lock of the period but takes the snapshot first: *)
(* what it pays is computed on that snapshot, and it commits only if no    *)
(* row it writes was written meanwhile.  The purchases are READ COMMITTED  *)
(* transactions and conflict with nothing.                                 *)
(***************************************************************************)
EXTENDS BonusRules, FiniteSets, FiniteSetsExt

CONSTANTS
  Boxes,                  \* engines that run the scheduler
  Earners,                \* affiliates with two legs and a package of their own
  Buyers, Leg,            \* purchasers, and the leg of each earner they are in
  Sponsor,                \* who earns on their purchases (first and second generation)
  Plan,                   \* the plan_config row, with the package's price built in
  Standings,              \* how an earner may qualify: "out", "reduced", "full"
  Late,                   \* may a purchase of the last week commit in this one?
  MaxWeek, MaxSales,      \* bounds of the instance
  None

Weeks == 1..MaxWeek

PlanRecord ==
  [pv : Nat, price : Nat,                      \* of a purchase
   blockSize : Nat \ {0}, bonusPerBlock : Nat,
   alpha : Nat, scale : Nat \ {0},             \* treasury share (%), unit of theta
   periodCap : Nat, packageCap : Nat,          \* T3, T2
   reduction : 0..100,                         \* R1, mode "reduce" (%)
   referralRate : Nat, royaltyRate : Nat,      \* %
   pointsPerBlock : Nat, dollarsPerPoint : Nat, pointsCadence : Nat \ {0},
   yieldGross : Nat, yieldCadence : Nat \ {0},
   rankPoints : Nat, rankBonus : Nat, rankInstallments : Nat \ {0}, rankCadence : Nat \ {0},
   roi : Nat]                                  \* of an earner's CD, per week

ASSUME ConstantsAssumption ==
  /\ Leg \in [Buyers -> [Earners -> {"L", "R", "none"}]]
  /\ Sponsor \in [Buyers -> [first : Earners \cup {None}, second : Earners \cup {None}]]
  /\ Plan \in PlanRecord
  /\ Standings \subseteq {"out", "reduced", "full"} /\ Standings # {}
  /\ Late \in BOOLEAN
  /\ MaxWeek \in Nat \ {0} /\ MaxSales \in Nat
  /\ IsFiniteSet(Earners)
  /\ None \notin Boxes \cup Earners

VARIABLES
  week,                   \* now() in weeks
  sold,                   \* purchases so far
  pv,                     \* left_pv_lifetime and right_pv_lifetime
  inflow, touched,        \* purchases and ancestors of the buyers, by week
  referral, royalty,      \* first and second generation commissions, by week
  period,                 \* rows of binary_period
  hist,                   \* blocks paid: the sum of binary_node_state
  points,                 \* points_accrued
  rank,                   \* week the rank was achieved (0: not yet), instalments settled
  capPaid,                \* paid_total of package_cap_state
  roi,                    \* week of the last ROI accrual, and the ROI credited so far
  paid,                   \* wallet movements of each period
  adv,                    \* advisory lock of each period
  job                     \* local state of the boxes

salesVars == <<sold, pv, inflow, touched, referral, royalty>>
payVars == <<hist, points, rank, capPaid, paid>>
vars == <<week, salesVars, period, payVars, roi, adv, job>>

NoPay == [a \in Earners |-> 0]
NoPlan == [inflows |-> 0, theta |-> 0, capRead |-> NoPay, blocks |-> NoPay, binary |-> NoPay,
           points |-> NoPay, earned |-> NoPay,
           rank |-> [a \in Earners |-> [since |-> 0, settled |-> {}, net |-> 0]], other |-> NoPay]

Idle == [pc |-> "idle", todo |-> {}, plan |-> NoPlan]

Init ==
  /\ week = 1
  /\ sold = 0
  /\ pv = [a \in Earners |-> [L |-> 0, R |-> 0]]
  /\ inflow = [w \in Weeks |-> 0]
  /\ touched = [w \in Weeks |-> {}]
  /\ referral = [w \in Weeks |-> NoPay]
  /\ royalty = [w \in Weeks |-> NoPay]
  /\ period = [w \in Weeks |-> [status |-> "none", inflows |-> 0, theta |-> 0]]
  /\ hist = NoPay
  /\ points = NoPay
  /\ rank = [a \in Earners |-> [since |-> 0, settled |-> {}]]
  /\ capPaid = NoPay
  /\ roi = [a \in Earners |-> [last |-> 1, total |-> 0]]
  /\ paid = [w \in Weeks |-> [a \in Earners |-> [binary |-> 0, points |-> 0, rank |-> 0, other |-> 0]]]
  /\ adv = [w \in Weeks |-> None]
  /\ job = [b \in Boxes |-> Idle]

-----------------------------------------------------------------------------
(* Purchases and the daily ROI.                                            *)

\* Commission of one purchase for the earner e of a generation.
Commission(rate, e) ==
  [a \in Earners |-> IF a = e THEN Percent(rate, Plan.price) ELSE 0]

Plus(f, g) == [a \in Earners |-> f[a] + g[a]]

\* The activation posts the inflow and the pv_credit event, whose trigger adds the PV
\* to the buyer's leg of every ancestor.  Both carry the time the transaction began.
Buy(b, w) ==
  /\ sold < MaxSales
  /\ w = week \/ (Late /\ w = week - 1)
  /\ w \in Weeks
  /\ sold' = sold + 1
  /\ pv' = [a \in Earners |-> CASE Leg[b][a] = "L" -> [pv[a] EXCEPT !.L = @ + Plan.pv]
                                [] Leg[b][a] = "R" -> [pv[a] EXCEPT !.R = @ + Plan.pv]
                                [] OTHER -> pv[a]]
  /\ inflow' = [inflow EXCEPT ![w] = @ + Plan.price]
  /\ touched' = [touched EXCEPT ![w] = @ \cup {a \in Earners : Leg[b][a] # "none"}]
  /\ referral' = [referral EXCEPT ![w] = Plus(@, Commission(Plan.referralRate, Sponsor[b].first))]
  /\ royalty' = [royalty EXCEPT ![w] = Plus(@, Commission(Plan.royaltyRate, Sponsor[b].second))]
  /\ UNCHANGED <<week, period, payVars, roi, adv, job>>

\* remainingPackageCap
CapLeft(a) == Minus(Plan.packageCap, capPaid[a])

\* AccrueCDROIDaily, one transaction for the CDs of all earners: the days since the last
\* accrual (weeks here), capped by the package under the row lock of its cap; a CD whose
\* cap is spent is left as it is.
AccrueCDROIDaily ==
  LET gross == [a \in Earners |-> Least((week - roi[a].last) * Plan.roi, CapLeft(a))] IN
  /\ \E a \in Earners : gross[a] > 0
  /\ capPaid' = Plus(capPaid, gross)
  /\ roi' = [a \in Earners |-> IF gross[a] > 0
                             THEN [last |-> week, total |-> roi[a].total + gross[a]]
                             ELSE roi[a]]
  /\ UNCHANGED <<week, salesVars, period, hist, points, rank, paid, adv, job>>

Tick ==
  /\ week < MaxWeek
  /\ week' = week + 1
  /\ UNCHANGED <<salesVars, period, payVars, roi, adv, job>>

-----------------------------------------------------------------------------
(* The content of a closing, computed on the snapshot.  q says how each    *)
(* earner qualifies (active, both legs alive, own sales on both, recent    *)
(* purchase); g are the earners whose directs open the yield and referrals.*)

Matched(a) == Least(pv[a].L, pv[a].R)

\* Bug (B2 of candidate.go): every closing pays the whole history again.
BugWholeHistory(a) == Matched(a) \div Plan.blockSize

\* Blocks of the lifetime volume that no closing has paid.
NewBlocks(a) == Minus(Matched(a) \div Plan.blockSize, hist[a])

\* EnumerateCandidates: touched in the week, qualified, with an open package; T3
\* before T2.
BinaryGross(w, q, a) ==
  IF a \in touched[w] /\ q[a] # "out"
  THEN Least(Least(NewBlocks(a) * Plan.bonusPerBlock, Plan.periodCap), CapLeft(a))
  ELSE 0

\* periodIndex: the position of the period among those that exist.
PeriodIndex(w) == Cardinality({v \in Weeks : v <= w /\ period[v].status # "none"})

Falls(w, cadence) == PeriodIndex(w) % cadence = 0

\* What T3 leaves to the points once the binary of the period is counted.
PeriodCapLeft(binary) == Minus(Plan.periodCap, binary)

PointsGross(w, binary, a) ==
  IF Falls(w, Plan.pointsCadence)
  THEN Least(Least(points[a] * Plan.dollarsPerPoint, PeriodCapLeft(binary)), CapLeft(a))
  ELSE 0

\* A rank is achieved once, at the first closing that sees the volume ...
RankSince(w, a) ==
  IF rank[a].since = 0 /\ Plan.rankBonus > 0 /\ Matched(a) >= Plan.rankPoints
  THEN w ELSE rank[a].since

\* ... and pays N instalments, the last one with the remainder of the division.
Installment(i) ==
  IF i < Plan.rankInstallments THEN Plan.rankBonus \div Plan.rankInstallments
  ELSE Plan.rankBonus - (Plan.rankInstallments - 1) * (Plan.rankBonus \div Plan.rankInstallments)

\* Bug: an instalment due at the end of the period is left to the next one.
BugDueBefore(w, a) ==
  IF RankSince(w, a) = 0 THEN {}
  ELSE {i \in 1..Plan.rankInstallments \ rank[a].settled :
          RankSince(w, a) + (i - 1) * Plan.rankCadence < w}

\* The instalments this period settles: due by its end, whatever happened before.
DueInstallments(w, a) ==
  IF RankSince(w, a) = 0 THEN {}
  ELSE {i \in 1..Plan.rankInstallments \ rank[a].settled :
          RankSince(w, a) + (i - 1) * Plan.rankCadence <= w}

\* The streams capped by theta alone, added up for the earner: the yield and the
\* referrals ask for active directs on both legs, the royalties do not.
OtherGross(w, g, a) ==
  royalty[w][a] +
  (IF a \in g
   THEN referral[w][a] + (IF Falls(w, Plan.yieldCadence) THEN Plan.yieldGross ELSE 0)
   ELSE 0)

\* Every stream enters the projected outflow before theta.
Projected(binary, pts, instal, other) ==
  SumFunctionOnSet([a \in Earners |-> binary[a] + pts[a] + instal[a] + other[a]], Earners)

Net(gross, theta) == NetOf(gross, theta, Plan.scale)

InstallmentsGross(due) == SumFunctionOnSet([i \in due |-> Installment(i)], due)
InstallmentsNet(due, theta) == SumFunctionOnSet([i \in due |-> Net(Installment(i), theta)], due)

BinaryNet(q, gross, theta, a) ==
  IF q[a] = "reduced" THEN Percent(Plan.reduction, Net(gross[a], theta)) ELSE Net(gross[a], theta)

\* PayV2Streams reads the cap again, after the binary of this very transaction.
CapLeftAfter(a, binaryNet) == Minus(CapLeft(a), binaryNet)

PointsNet(gross, theta, a, binaryNet) == Least(Net(gross[a], theta), CapLeftAfter(a, binaryNet))

\* AccruePoints: whole blocks that theta left, for every candidate.
PointsEarned(gross, theta, a) ==
  IF gross[a] > 0
  THEN ((NewBlocks(a) * theta) \div Plan.scale) * Plan.pointsPerBlock
  ELSE 0

Closing(w, q, g) ==
  LET binary == [a \in Earners |-> BinaryGross(w, q, a)]
      pts    == [a \in Earners |-> PointsGross(w, binary[a], a)]
      due    == [a \in Earners |-> DueInstallments(w, a)]
      instal == [a \in Earners |-> InstallmentsGross(due[a])]
      other  == [a \in Earners |-> OtherGross(w, g, a)]
      theta  == ComputeTheta(Plan.alpha, inflow[w], Projected(binary, pts, instal, other), Plan.scale)
      net    == [a \in Earners |-> BinaryNet(q, binary, theta, a)]
  IN [inflows |-> inflow[w],
      theta   |-> theta,
      capRead |-> capPaid,
      blocks  |-> [a \in Earners |-> IF net[a] > 0 THEN NewBlocks(a) ELSE 0],
      binary  |-> net,
      points  |-> [a \in Earners |-> PointsNet(pts, theta, a, net[a])],
      earned  |-> [a \in Earners |-> PointsEarned(binary, theta, a)],
      rank    |-> [a \in Earners |-> [since |-> RankSince(w, a), settled |-> rank[a].settled \cup due[a],
                                      net |-> InstallmentsNet(due[a], theta)]],
      other   |-> [a \in Earners |-> Net(other[a], theta)]]

-----------------------------------------------------------------------------
(* runBinaryCycle: close what has ended, in order, and open the current    *)
(* week.  It runs on every box, each Monday and whenever a box starts.     *)

GoTo(b, pc) == job' = [job EXCEPT ![b].pc = pc]

\* Bug: the period of the running week can be picked too (the race between boxes
\* that pickPeriodToClose describes).
BugAnyOpen(w) == period[w].status = "open"

\* pickPeriodsToClose
Ended(w) == period[w].status = "open" /\ w < week

CycleStart(b) ==
  /\ job[b].pc = "idle"
  /\ job' = [job EXCEPT ![b] = [Idle EXCEPT !.pc = "close", !.todo = {w \in Weeks : Ended(w)}]]
  /\ UNCHANGED <<week, salesVars, period, payVars, roi, adv>>

Oldest(S) == CHOOSE w \in S : \A v \in S : w <= v

Turn(b) == Oldest(job[b].todo)

\* CloseBinaryPeriod: a closed period is left alone; else the snapshot is taken.
CloseSnapshot(b) ==
  /\ job[b].pc = "close" /\ job[b].todo # {}
  /\ IF period[Turn(b)].status = "closed"
     THEN job' = [job EXCEPT ![b].todo = @ \ {Turn(b)}]
     ELSE \E q \in [Earners -> Standings], g \in SUBSET Earners :
            job' = [job EXCEPT ![b] = [@ EXCEPT !.pc = "lock", !.plan = Closing(Turn(b), q, g)]]
  /\ UNCHANGED <<week, salesVars, period, payVars, roi, adv>>

\* SELECT ... FOR UPDATE of the period under the advisory lock: a row that was
\* closed after the snapshot is a serialization failure.
StillOpen(w) == period[w].status = "open"

CloseLock(b) ==
  /\ job[b].pc = "lock"
  /\ adv[Turn(b)] = None
  /\ IF StillOpen(Turn(b))
     THEN adv' = [adv EXCEPT ![Turn(b)] = b] /\ GoTo(b, "pay")
     ELSE UNCHANGED adv /\ GoTo(b, "next")
  /\ UNCHANGED <<week, salesVars, period, payVars, roi>>

\* Bug: the caps are written at READ COMMITTED, over a ROI that came in between.
BugNoConflict(b) == TRUE

\* An UPDATE of a cap that the ROI wrote after the snapshot fails with 40001.
CapsUnchanged(b) ==
  \A a \in Earners :
    job[b].plan.binary[a] + job[b].plan.points[a] > 0 => capPaid[a] = job[b].plan.capRead[a]

\* Bug (H2 of binary_close.go): the points of the period are accrued before the reset.
BugAccruedFirst(b, a) ==
  IF job[b].plan.points[a] > 0 THEN 0 ELSE points[a] + job[b].plan.earned[a]

\* Converted points are reset (the caps destroy the excess), and then the points of
\* this period are added: they wait for the next conversion.
PointsAfter(b, a) ==
  (IF job[b].plan.points[a] > 0 THEN 0 ELSE points[a]) + job[b].plan.earned[a]

CloseCommit(b) ==
  LET w == Turn(b)
      p == job[b].plan
  IN
  /\ job[b].pc = "pay"
  /\ CapsUnchanged(b)
  /\ period' = [period EXCEPT ![w] = [status |-> "closed", inflows |-> p.inflows, theta |-> p.theta]]
  /\ hist' = [a \in Earners |-> hist[a] + p.blocks[a]]
  /\ capPaid' = [a \in Earners |-> capPaid[a] + p.binary[a] + p.points[a]]
  /\ points' = [a \in Earners |-> PointsAfter(b, a)]
  /\ rank' = [a \in Earners |-> [since |-> p.rank[a].since, settled |-> p.rank[a].settled]]
  /\ paid' = [paid EXCEPT ![w] = [a \in Earners |-> [binary |-> p.binary[a], points |-> p.points[a],
                                                     rank |-> p.rank[a].net, other |-> p.other[a]]]]
  /\ adv' = [adv EXCEPT ![w] = None]
  /\ job' = [job EXCEPT ![b] = [Idle EXCEPT !.pc = "close", !.todo = job[b].todo \ {w}]]
  /\ UNCHANGED <<week, salesVars, roi>>

\* The first failure ends the catch-up.
AfterFailure(b) == [Idle EXCEPT !.pc = "next"]

\* Bug: a session lock, which outlives the transaction that took it.
BugSessionLock(b) == adv

Free(b) == [w \in Weeks |-> IF adv[w] = b THEN None ELSE adv[w]]

\* A closing fails: a conflict, a lost connection, the financial guard.
CloseFail(b) ==
  /\ job[b].pc \in {"close", "lock", "pay"} /\ job[b].todo # {}
  /\ adv' = Free(b)
  /\ job' = [job EXCEPT ![b] = AfterFailure(b)]
  /\ UNCHANGED <<week, salesVars, period, payVars, roi>>

\* fn_open_next_binary_period: the period of the current week, if there is none yet.
OpenNext(b) ==
  /\ \/ job[b].pc = "next"
     \/ job[b].pc = "close" /\ job[b].todo = {}
  /\ period' = IF period[week].status = "none" THEN [period EXCEPT ![week].status = "open"] ELSE period
  /\ job' = [job EXCEPT ![b] = Idle]
  /\ UNCHANGED <<week, salesVars, payVars, roi, adv>>

\* The box stops, or the period could not be opened.
Crash(b) ==
  /\ job[b].pc # "idle"
  /\ adv' = Free(b)
  /\ job' = [job EXCEPT ![b] = Idle]
  /\ UNCHANGED <<week, salesVars, period, payVars, roi>>

Next ==
  \/ \E b \in Buyers, w \in Weeks : Buy(b, w)
  \/ AccrueCDROIDaily
  \/ Tick
  \/ \E b \in Boxes : \/ CycleStart(b) \/ CloseSnapshot(b) \/ CloseLock(b) \/ CloseCommit(b)
                      \/ CloseFail(b) \/ OpenNext(b) \/ Crash(b)

Spec == Init /\ [][Next]_vars

\* A box that has begun goes on or fails.  Boxes run the cycle again and again (each
\* Monday, each start), and what can be tried again and again succeeds at last.
Step(b) == CloseSnapshot(b) \/ CloseLock(b) \/ CloseCommit(b) \/ OpenNext(b)

Fairness ==
  \A b \in Boxes :
    /\ WF_vars(Step(b) \/ CloseFail(b) \/ Crash(b))
    /\ SF_vars(CycleStart(b)) /\ SF_vars(CloseSnapshot(b))
    /\ SF_vars(CloseLock(b)) /\ SF_vars(CloseCommit(b))

FairSpec == Spec /\ Fairness

-----------------------------------------------------------------------------
(* Type correctness.                                                       *)

Theta == 0..Plan.scale
Amounts == [Earners -> Nat]
RankRecord == [since : {0} \cup Weeks, settled : SUBSET (1..Plan.rankInstallments)]
PlanOfClosing ==
  [inflows : Nat, theta : Theta, capRead : Amounts, blocks : Amounts, binary : Amounts,
   points : Amounts, earned : Amounts, other : Amounts,
   rank : [Earners -> [since : {0} \cup Weeks, settled : SUBSET (1..Plan.rankInstallments), net : Nat]]]
Payment == [binary : Nat, points : Nat, rank : Nat, other : Nat]

\* Every variable has its type: the rows of the engine, the locks and the boxes; in
\* particular theta is a fraction.
TypeOK ==
  /\ week \in Weeks /\ sold \in Nat
  /\ pv \in [Earners -> [L : Nat, R : Nat]]
  /\ inflow \in [Weeks -> Nat]
  /\ touched \in [Weeks -> SUBSET Earners]
  /\ referral \in [Weeks -> Amounts] /\ royalty \in [Weeks -> Amounts]
  /\ period \in [Weeks -> [status : {"none", "open", "closed"}, inflows : Nat, theta : Theta]]
  /\ hist \in Amounts /\ points \in Amounts /\ capPaid \in Amounts
  /\ rank \in [Earners -> RankRecord]
  /\ roi \in [Earners -> [last : Weeks, total : Nat]]
  /\ paid \in [Weeks -> [Earners -> Payment]]
  /\ adv \in [Weeks -> Boxes \cup {None}]
  /\ job \in [Boxes -> [pc : {"idle", "close", "lock", "pay", "next"},
                        todo : SUBSET Weeks, plan : PlanOfClosing]]

-----------------------------------------------------------------------------
(* Money.                                                                  *)

\* Every block of matched volume is paid at most once, in whichever period: by a late
\* closing, by two boxes, or after weeks in which the earner did not qualify.
BlocksPaidOnce == \A a \in Earners : hist[a] <= Matched(a) \div Plan.blockSize

PaidTo(w, a) == paid[w][a].binary + paid[w][a].points + paid[w][a].rank + paid[w][a].other
CapUse(w, a) == paid[w][a].binary + paid[w][a].points

\* T1: what the network is paid in a period, all streams but the ROI, is within the
\* treasury's share of its inflows, for each period that was closed.
\* T2: the trigger on package_cap_state never fires, because a closing and the daily
\* ROI, which write the same row, both pay up to what is left; and the cap consumed is
\* exactly what was credited.  T3: binary and points of a period share one cap.
LimitsKept ==
  /\ \A w \in Weeks : period[w].status = "closed" =>
       100 * SumFunctionOnSet([a \in Earners |-> PaidTo(w, a)], Earners) <= Plan.alpha * period[w].inflows
  /\ \A a \in Earners :
       /\ capPaid[a] <= Plan.packageCap
       /\ capPaid[a] = roi[a].total + SumFunctionOnSet([w \in Weeks |-> CapUse(w, a)], Weeks)
       /\ \A w \in Weeks : CapUse(w, a) <= Plan.periodCap

-----------------------------------------------------------------------------
(* The cycle.                                                              *)

Closes(w) == period[w].status = "open" /\ period'[w].status = "closed"

\* No box closes the week that runs: a box that comes late finds the new period open
\* and leaves it.
NeverEarly == [][\A w \in Weeks : Closes(w) => w < week]_vars

\* Periods are closed in chronological order, by any number of boxes that may fail
\* anywhere.
Chronological ==
  [][\A v, w \in Weeks : Closes(w) /\ v < w => period[v].status # "open"]_vars

\* A closed period is final, and nothing but the step that closes a period pays: a box
\* that comes second, late or again neither overwrites a snapshot nor pays on it.
ClosedIsFinal ==
  [][/\ \A w \in Weeks : period[w].status = "closed" => period'[w] = period[w]
     /\ \A w \in Weeks : paid'[w] # paid[w] => Closes(w)
     /\ (\A w \in Weeks : ~Closes(w)) => UNCHANGED <<hist, points, rank>>]_vars

\* A period is closed once, after its week, after every period before it, and for good.
ClosesInTurn == NeverEarly /\ Chronological /\ ClosedIsFinal

\* The points of the period that closes are not lost in the conversion of older ones.
PointsDeferred ==
  [][\A w \in Weeks, a \in Earners : Closes(w) => points'[a] >= job[adv[w]].plan.earned[a]]_vars

\* A closing settles every instalment due by then, those of weeks nobody closed too.
InstallmentsNotLost ==
  \A w \in Weeks, a \in Earners : period[w].status = "closed" /\ rank[a].since # 0 =>
    {i \in 1..Plan.rankInstallments : rank[a].since + (i - 1) * Plan.rankCadence <= w}
      \subseteq rank[a].settled

\* Every period whose week has ended is closed in the end.
EndedCloses ==
  \A w \in Weeks : (period[w].status = "open" /\ w < week) ~> (period[w].status = "closed")
=============================================================================
