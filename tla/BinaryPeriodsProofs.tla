------------------------ MODULE BinaryPeriodsProofs ------------------------
(***************************************************************************)
(* Proofs about BinaryPeriods for any boxes, earners, buyers and plan.     *)
(* First the cycle: IInv says which periods the boxes hold and what a      *)
(* snapshot still knows, whatever the amounts are.  Then the money:        *)
(* MoneyInv adds the types, what a closing is about to pay, and that a     *)
(* period which is not closed has paid nothing.                            *)
(***************************************************************************)
EXTENDS BinaryPeriods, Sums, WellFoundedInduction, TLAPS

-----------------------------------------------------------------------------
(* Arithmetic.                                                             *)

\* ComputeTheta: theta is a fraction, and the projected payments under it are within
\* the treasury's share of the inflows, whatever the streams add up to.
THEOREM ThetaWithinTreasury ==
  ASSUME NEW alpha \in Nat, NEW inflows \in Nat, NEW projected \in Nat, NEW scale \in Nat \ {0}
  PROVE  /\ ComputeTheta(alpha, inflows, projected, scale) \in 0..scale
         /\ 100 * projected * ComputeTheta(alpha, inflows, projected, scale)
              <= alpha * inflows * scale
<1> DEFINE a == alpha * inflows * scale
<1> DEFINE d == 100 * projected
<1> DEFINE theta == ComputeTheta(alpha, inflows, projected, scale)
<1>1. a \in Nat /\ d \in Nat
  OBVIOUS
<1>2. CASE projected = 0
  <2>1. theta = scale /\ d = 0
    BY <1>2 DEF ComputeTheta
  <2> QED
    BY <2>1, <1>1, <1>2
<1>3. CASE projected # 0
  <2>1. theta = Least(scale, a \div d)
    BY <1>3 DEF ComputeTheta
  <2>2. d # 0
    BY <1>3
  <2> HIDE DEF a, d, theta
  <2>3. a \div d \in Nat /\ d * (a \div d) <= a
    BY <1>1, <2>2
  <2>4. theta \in 0..scale /\ theta <= a \div d
    BY <2>1, <2>3 DEF Least
  <2>5. d * theta <= a
    <3>1. d * theta <= d * (a \div d)
      BY <2>4, <2>3, <1>1, ProductMonotone
    <3>2. d * theta \in Nat /\ d * (a \div d) \in Nat
      BY <2>4, <2>3, <1>1
    <3> QED
      BY <3>1, <3>2, <2>3, <1>1
  <2> QED
    BY <2>4, <2>5 DEF a, d, theta
<1> QED
  BY <1>2, <1>3

\* Under a fraction a payment is never more than its gross amount.
THEOREM NetWithinGross ==
  ASSUME NEW gross \in Nat, NEW scale \in Nat \ {0}, NEW theta \in 0..scale
  PROVE  NetOf(gross, theta, scale) \in 0..gross
<1>1. gross * theta \in Nat /\ gross * theta <= gross * scale
  BY ProductMonotone
<1>2. ASSUME NEW p \in Nat, p <= gross * scale
      PROVE  p \div scale \in 0..gross
  <2>1. gross * scale \in Nat /\ (gross * scale) \div scale = gross
    OBVIOUS
  <2> QED
    BY <1>2, <2>1, DivMonotone
<1> QED
  BY <1>1, <1>2 DEF NetOf

\* routeSplit: the part for the retirement plan and the part for the wallet are both
\* amounts of the payment and add up to it.
THEOREM SplitIsExact ==
  ASSUME NEW net \in Nat, NEW pct \in Nat
  PROVE  /\ ToRetirement(net, pct) \in 0..net /\ ToWithdrawable(net, pct) \in 0..net
         /\ ToRetirement(net, pct) + ToWithdrawable(net, pct) = net
<1>1. pct * net \in Nat
  OBVIOUS
<1>2. ASSUME NEW p \in Nat
      PROVE  p \div 100 \in Nat
  OBVIOUS
<1>3. Percent(pct, net) \in Nat
  BY <1>1, <1>2 DEF Percent
<1>4. ToRetirement(net, pct) \in 0..net
  BY <1>3 DEF ToRetirement, Least
<1> QED
  BY <1>4 DEF ToWithdrawable

-----------------------------------------------------------------------------
(* The inductive invariant.                                                *)

Pcs == {"idle", "close", "lock", "pay", "next"}

Blocks(a) == Matched(a) \div Plan.blockSize

\* The instalments of a rank achieved in week s that are due by the end of week w.
DueBy(s, w) == {i \in 1..Plan.rankInstallments : s + (i - 1) * Plan.rankCadence <= w}

\* The part of the type that the arguments need: everything but the amounts that
\* depend on theta.
Shape ==
  /\ week \in Weeks
  /\ pv \in [Earners -> [L : Nat, R : Nat]]
  /\ DOMAIN period = Weeks
  /\ \A w \in Weeks : /\ DOMAIN period[w] = {"status", "inflows", "theta"}
                      /\ period[w].status \in {"none", "open", "closed"}
  /\ hist \in [Earners -> Nat]
  /\ rank \in [Earners -> RankRecord]
  /\ DOMAIN paid = Weeks
  /\ adv \in [Weeks -> Boxes \cup {None}]
  /\ DOMAIN job = Boxes
  /\ \A b \in Boxes : /\ DOMAIN job[b] = {"pc", "todo", "plan"}
                      /\ job[b].pc \in Pcs
                      /\ job[b].todo \in SUBSET Weeks
                      /\ job[b].pc \in {"lock", "pay"} => job[b].todo # {}

\* A box only has weeks to close that have ended and have a period.
TodoEnded ==
  \A b \in Boxes : \A w \in job[b].todo : w < week /\ period[w].status \in {"open", "closed"}

\* Only weeks that have ended are closed, and no open period is older than a closed one.
ClosedInOrder ==
  \A w \in Weeks : period[w].status = "closed" =>
    w < week /\ \A v \in Weeks : v < w => period[v].status # "open"

\* A box that has a week to close also has every older open period to close.
NoneLeftBehind ==
  \A b \in Boxes : \A w \in job[b].todo, v \in Weeks :
    v < w /\ period[v].status = "open" => v \in job[b].todo

\* A box that pays holds the lock of its period, and the period is open.
LockHeld ==
  \A b \in Boxes : job[b].pc = "pay" => adv[Turn(b)] = b /\ period[Turn(b)].status = "open"

\* While the period of a closing is open, what was computed on the snapshot still
\* describes the state: the blocks are unpaid, and the ranks are those of now.
PlanFits(b, a) ==
  LET p == job[b].plan IN
  /\ p.blocks[a] \in Nat
  /\ hist[a] + p.blocks[a] <= Blocks(a)
  /\ [since |-> p.rank[a].since, settled |-> p.rank[a].settled] \in RankRecord
  /\ p.rank[a].since \in {rank[a].since, Turn(b)}
  /\ rank[a].since # 0 => p.rank[a].since = rank[a].since
  /\ rank[a].settled \subseteq p.rank[a].settled
  /\ p.rank[a].since # 0 => DueBy(p.rank[a].since, Turn(b)) \subseteq p.rank[a].settled

SnapshotHolds ==
  \A b \in Boxes : job[b].pc \in {"lock", "pay"} /\ period[Turn(b)].status = "open" =>
    \A a \in Earners : PlanFits(b, a)

IInv ==
  /\ Shape /\ TodoEnded /\ ClosedInOrder /\ NoneLeftBehind /\ LockHeld
  /\ SnapshotHolds /\ BlocksPaidOnce /\ InstallmentsNotLost

-----------------------------------------------------------------------------
(* What each action does, field by field.                                  *)

LEMMA Constants ==
  /\ Weeks \subseteq Nat \ {0} /\ 1 \in Weeks
  /\ Plan.pv \in Nat /\ Plan.blockSize \in Nat \ {0}
  /\ Plan.rankInstallments \in Nat \ {0} /\ Plan.rankCadence \in Nat \ {0}
  /\ None \notin Boxes
<1>1. Plan \in PlanRecord /\ None \notin Boxes \cup Earners /\ MaxWeek \in Nat \ {0}
  BY ConstantsAssumption
<1>2. Plan.pv \in Nat /\ Plan.blockSize \in Nat \ {0}
  BY <1>1 DEF PlanRecord
<1>3. Plan.rankInstallments \in Nat \ {0} /\ Plan.rankCadence \in Nat \ {0}
  BY <1>1 DEF PlanRecord
<1> QED
  BY <1>1, <1>2, <1>3 DEF Weeks

\* The oldest of some weeks is one of them.
LEMMA OldestIsOldest ==
  ASSUME NEW S \in SUBSET Weeks, S # {}
  PROVE  Oldest(S) \in S /\ \A v \in S : Oldest(S) <= v
<1> DEFINE R == {p \in Nat \X Nat : p[1] < p[2]}
<1>1. IsWellFoundedOn(R, Nat)
  BY NatLessThanWellFounded DEF OpToRel
<1>2. S \subseteq Nat
  BY Constants
<1>3. PICK w \in S : \A v \in S : ~ (<<v, w>> \in R)
  <2> HIDE DEF R
  <2> QED
    BY <1>1, <1>2, WFMin
<1>4. \A v \in S : w <= v
  <2> SUFFICES ASSUME NEW v \in S PROVE w <= v
    OBVIOUS
  <2>1. v \in Nat /\ w \in Nat /\ ~ (<<v, w>> \in R)
    BY <1>2, <1>3
  <2> QED
    BY <2>1
<1> QED
  BY <1>4 DEF Oldest

LEMMA TurnIsOldest ==
  ASSUME Shape, NEW b \in Boxes, job[b].todo # {}
  PROVE  Turn(b) \in job[b].todo /\ Turn(b) \in Weeks /\ \A v \in job[b].todo : Turn(b) <= v
<1>1. job[b].todo \in SUBSET Weeks
  BY DEF Shape
<1> QED
  BY <1>1, OldestIsOldest DEF Turn

LEMMA StepBuy ==
  ASSUME Shape, NEW b \in Buyers, NEW w \in Weeks, Buy(b, w)
  PROVE  /\ pv' \in [Earners -> [L : Nat, R : Nat]]
         /\ \A a \in Earners : pv[a].L <= pv'[a].L /\ pv[a].R <= pv'[a].R
         /\ UNCHANGED <<week, period, hist, rank, paid, adv, job>>
<1>1. UNCHANGED <<week, period, hist, rank, paid, adv, job>>
  BY DEF Buy, payVars
<1> DEFINE new(a) == CASE Leg[b][a] = "L" -> [pv[a] EXCEPT !.L = @ + Plan.pv]
                       [] Leg[b][a] = "R" -> [pv[a] EXCEPT !.R = @ + Plan.pv]
                       [] OTHER -> pv[a]
<1>2. pv' = [a \in Earners |-> new(a)]
  BY DEF Buy
<1>3. ASSUME NEW a \in Earners
      PROVE  new(a) \in [L : Nat, R : Nat] /\ pv[a].L <= new(a).L /\ pv[a].R <= new(a).R
  BY Constants DEF Shape
<1> HIDE DEF new
<1> QED
  BY <1>1, <1>2, <1>3

LEMMA StepCycleStart ==
  ASSUME Shape, NEW b \in Boxes, CycleStart(b)
  PROVE  /\ DOMAIN job' = Boxes /\ DOMAIN job'[b] = {"pc", "todo", "plan"}
         /\ \A c \in Boxes : c # b => job'[c] = job[c]
         /\ job'[b].pc = "close" /\ job'[b].todo = {w \in Weeks : Ended(w)}
         /\ UNCHANGED <<week, pv, period, hist, rank, paid, adv>>
<1>1. job' = [job EXCEPT ![b] = [Idle EXCEPT !.pc = "close", !.todo = {w \in Weeks : Ended(w)}]]
  BY DEF CycleStart
<1>2. UNCHANGED <<week, pv, period, hist, rank, paid, adv>>
  BY DEF CycleStart, salesVars, payVars
<1> HIDE DEF Ended
<1> QED
  BY <1>1, <1>2 DEF Shape, Idle

\* What a closing computes for the blocks and the rank of an earner.
LEMMA ClosingFields ==
  ASSUME NEW w, NEW q, NEW g, NEW a \in Earners
  PROVE  /\ Closing(w, q, g).blocks[a] \in {0, NewBlocks(a)}
         /\ Closing(w, q, g).rank[a].since = RankSince(w, a)
         /\ Closing(w, q, g).rank[a].settled = rank[a].settled \cup DueInstallments(w, a)
  BY DEF Closing

LEMMA StepCloseSnapshot ==
  ASSUME Shape, NEW b \in Boxes, CloseSnapshot(b)
  PROVE  /\ DOMAIN job' = Boxes /\ DOMAIN job'[b] = {"pc", "todo", "plan"}
         /\ \A c \in Boxes : c # b => job'[c] = job[c]
         /\ job[b].todo # {}
         /\ \/ /\ period[Turn(b)].status = "closed"
               /\ job'[b].pc = "close" /\ job'[b].todo = job[b].todo \ {Turn(b)}
            \/ /\ job'[b].pc = "lock" /\ job'[b].todo = job[b].todo
               /\ \A a \in Earners :
                    /\ job'[b].plan.blocks[a] \in {0, NewBlocks(a)}
                    /\ job'[b].plan.rank[a].since = RankSince(Turn(b), a)
                    /\ job'[b].plan.rank[a].settled
                         = rank[a].settled \cup DueInstallments(Turn(b), a)
         /\ UNCHANGED <<week, pv, period, hist, rank, paid, adv>>
<1>1. UNCHANGED <<week, pv, period, hist, rank, paid, adv>>
  BY DEF CloseSnapshot, salesVars, payVars
<1>2. job[b].pc = "close" /\ job[b].todo # {}
  BY DEF CloseSnapshot
<1>3. CASE period[Turn(b)].status = "closed"
  <2>1. job' = [job EXCEPT ![b].todo = @ \ {Turn(b)}]
    BY <1>3 DEF CloseSnapshot
  <2> QED
    BY <1>1, <1>2, <1>3, <2>1 DEF Shape
<1>4. CASE period[Turn(b)].status # "closed"
  <2>1. PICK q \in [Earners -> Standings], g \in SUBSET Earners :
          job' = [job EXCEPT ![b] = [@ EXCEPT !.pc = "lock", !.plan = Closing(Turn(b), q, g)]]
    BY <1>4 DEF CloseSnapshot
  <2>2. /\ DOMAIN job' = Boxes /\ DOMAIN job'[b] = {"pc", "todo", "plan"}
        /\ \A c \in Boxes : c # b => job'[c] = job[c]
        /\ job'[b].pc = "lock" /\ job'[b].todo = job[b].todo
        /\ job'[b].plan = Closing(Turn(b), q, g)
    BY <2>1 DEF Shape
  <2> QED
    BY <1>1, <1>2, <2>2, ClosingFields
<1> QED
  BY <1>3, <1>4

LEMMA StepCloseLock ==
  ASSUME Shape, NEW b \in Boxes, CloseLock(b)
  PROVE  /\ DOMAIN job' = Boxes /\ DOMAIN job'[b] = {"pc", "todo", "plan"}
         /\ \A c \in Boxes : c # b => job'[c] = job[c]
         /\ job[b].pc = "lock" /\ adv[Turn(b)] = None
         /\ job'[b].todo = job[b].todo /\ job'[b].plan = job[b].plan
         /\ \/ /\ period[Turn(b)].status = "open" /\ job'[b].pc = "pay"
               /\ adv' = [adv EXCEPT ![Turn(b)] = b]
            \/ job'[b].pc = "next" /\ adv' = adv
         /\ UNCHANGED <<week, pv, period, hist, rank, paid>>
<1>1. UNCHANGED <<week, pv, period, hist, rank, paid>>
  BY DEF CloseLock, salesVars, payVars
<1>2. job[b].pc = "lock" /\ adv[Turn(b)] = None
  BY DEF CloseLock
<1>3. \/ /\ period[Turn(b)].status = "open" /\ adv' = [adv EXCEPT ![Turn(b)] = b]
         /\ job' = [job EXCEPT ![b].pc = "pay"]
      \/ adv' = adv /\ job' = [job EXCEPT ![b].pc = "next"]
  BY DEF CloseLock, StillOpen, GoTo
<1> QED
  BY <1>1, <1>2, <1>3 DEF Shape

LEMMA StepCloseCommit ==
  ASSUME Shape, NEW b \in Boxes, CloseCommit(b)
  PROVE  /\ DOMAIN job' = Boxes /\ DOMAIN job'[b] = {"pc", "todo", "plan"}
         /\ \A c \in Boxes : c # b => job'[c] = job[c]
         /\ job[b].pc = "pay" /\ job'[b].pc = "close"
         /\ job'[b].todo = job[b].todo \ {Turn(b)}
         /\ DOMAIN period' = Weeks
         /\ DOMAIN period'[Turn(b)] = {"status", "inflows", "theta"}
         /\ period'[Turn(b)].status = "closed"
         /\ \A w \in Weeks : w # Turn(b) => period'[w] = period[w]
         /\ hist' = [a \in Earners |-> hist[a] + job[b].plan.blocks[a]]
         /\ rank' = [a \in Earners |-> [since |-> job[b].plan.rank[a].since,
                                        settled |-> job[b].plan.rank[a].settled]]
         /\ DOMAIN paid' = Weeks /\ \A w \in Weeks : w # Turn(b) => paid'[w] = paid[w]
         /\ adv' = [adv EXCEPT ![Turn(b)] = None]
         /\ UNCHANGED <<week, pv>>
<1>1. UNCHANGED <<week, pv>>
  BY DEF CloseCommit, salesVars
<1>2. job[b].pc = "pay"
  BY DEF CloseCommit
<1>3. Turn(b) \in Weeks
  BY <1>2, TurnIsOldest DEF Shape
<1>4. /\ period' = [period EXCEPT ![Turn(b)] = [status |-> "closed", inflows |-> job[b].plan.inflows,
                                                theta |-> job[b].plan.theta]]
      /\ hist' = [a \in Earners |-> hist[a] + job[b].plan.blocks[a]]
      /\ rank' = [a \in Earners |-> [since |-> job[b].plan.rank[a].since,
                                     settled |-> job[b].plan.rank[a].settled]]
      /\ adv' = [adv EXCEPT ![Turn(b)] = None]
      /\ job' = [job EXCEPT ![b] = [Idle EXCEPT !.pc = "close", !.todo = job[b].todo \ {Turn(b)}]]
  BY DEF CloseCommit
<1>5. PICK new : paid' = [paid EXCEPT ![Turn(b)] = new]
  BY DEF CloseCommit
<1>6. DOMAIN paid' = Weeks /\ \A w \in Weeks : w # Turn(b) => paid'[w] = paid[w]
  BY <1>5 DEF Shape
<1>7. /\ DOMAIN period' = Weeks
      /\ DOMAIN period'[Turn(b)] = {"status", "inflows", "theta"}
      /\ period'[Turn(b)].status = "closed"
      /\ \A w \in Weeks : w # Turn(b) => period'[w] = period[w]
  BY <1>3, <1>4 DEF Shape
<1>8. /\ DOMAIN job' = Boxes /\ DOMAIN job'[b] = {"pc", "todo", "plan"}
      /\ \A c \in Boxes : c # b => job'[c] = job[c]
      /\ job'[b].pc = "close" /\ job'[b].todo = job[b].todo \ {Turn(b)}
  BY <1>4 DEF Shape, Idle
<1> QED
  BY <1>1, <1>2, <1>4, <1>6, <1>7, <1>8

\* A box that fails or stops lets go of its locks.
LEMMA StepCloseFail ==
  ASSUME Shape, NEW b \in Boxes, CloseFail(b) \/ Crash(b)
  PROVE  /\ DOMAIN job' = Boxes /\ DOMAIN job'[b] = {"pc", "todo", "plan"}
         /\ \A c \in Boxes : c # b => job'[c] = job[c]
         /\ job'[b].pc \in {"idle", "next"} /\ job'[b].todo = {}
         /\ adv' = Free(b)
         /\ UNCHANGED <<week, pv, period, hist, rank, paid>>
<1>1. UNCHANGED <<week, pv, period, hist, rank, paid>> /\ adv' = Free(b)
  BY DEF CloseFail, Crash, salesVars, payVars
<1>2. job' = [job EXCEPT ![b] = [Idle EXCEPT !.pc = "next"]] \/ job' = [job EXCEPT ![b] = Idle]
  BY DEF CloseFail, Crash, AfterFailure
<1> QED
  BY <1>1, <1>2 DEF Shape, Idle

LEMMA StepOpenNext ==
  ASSUME Shape, NEW b \in Boxes, OpenNext(b)
  PROVE  /\ DOMAIN job' = Boxes /\ DOMAIN job'[b] = {"pc", "todo", "plan"}
         /\ \A c \in Boxes : c # b => job'[c] = job[c]
         /\ job'[b].pc = "idle" /\ job'[b].todo = {}
         /\ DOMAIN period' = Weeks
         /\ \A w \in Weeks : \/ period'[w] = period[w]
                             \/ /\ w = week /\ period[w].status = "none"
                                /\ period'[w].status = "open"
                                /\ DOMAIN period'[w] = {"status", "inflows", "theta"}
         /\ UNCHANGED <<week, pv, hist, rank, paid, adv>>
<1>1. UNCHANGED <<week, pv, hist, rank, paid, adv>>
  BY DEF OpenNext, salesVars, payVars
<1>2. job' = [job EXCEPT ![b] = Idle]
  BY DEF OpenNext
<1>3. \/ period' = period
      \/ period[week].status = "none" /\ period' = [period EXCEPT ![week].status = "open"]
  BY DEF OpenNext
<1>4. /\ DOMAIN period' = Weeks
      /\ \A w \in Weeks : \/ period'[w] = period[w]
                          \/ /\ w = week /\ period[w].status = "none"
                             /\ period'[w].status = "open"
                             /\ DOMAIN period'[w] = {"status", "inflows", "theta"}
  BY <1>3 DEF Shape
<1> QED
  BY <1>1, <1>2, <1>4 DEF Shape, Idle

LEMMA StepQuiet ==
  ASSUME AccrueCDROIDaily \/ UNCHANGED vars
  PROVE  UNCHANGED <<week, pv, period, hist, rank, paid, adv, job>>
  BY DEF AccrueCDROIDaily, vars, salesVars, payVars

LEMMA StepTick ==
  ASSUME Shape, Tick
  PROVE  week' = week + 1 /\ week' \in Weeks
         /\ UNCHANGED <<pv, period, hist, rank, paid, adv, job>>
  BY ConstantsAssumption DEF Tick, Shape, Weeks, salesVars, payVars

LEMMA NextCases ==
  ASSUME [Next]_vars, NEW P,
         AccrueCDROIDaily \/ UNCHANGED vars => P, Tick => P,
         \A b \in Buyers, w \in Weeks : Buy(b, w) => P,
         \A b \in Boxes : /\ CycleStart(b) => P
                          /\ CloseSnapshot(b) => P
                          /\ CloseLock(b) => P
                          /\ CloseCommit(b) => P
                          /\ CloseFail(b) \/ Crash(b) => P
                          /\ OpenNext(b) => P
  PROVE  P
  BY DEF Next

-----------------------------------------------------------------------------
(* Facts about one state.                                                  *)

LEMMA BlocksTyped ==
  ASSUME Shape, NEW a \in Earners
  PROVE  Blocks(a) \in Nat
<1>1. Matched(a) \in Nat
  BY DEF Shape, Matched, Least
<1> QED
  BY <1>1, Constants, DivMonotone DEF Blocks

\* Purchases only add blocks.
LEMMA BlocksGrow ==
  ASSUME Shape, NEW b \in Buyers, NEW w \in Weeks, Buy(b, w), NEW a \in Earners
  PROVE  Blocks(a) \in Nat /\ Blocks(a)' \in Nat /\ Blocks(a) <= Blocks(a)'
<1>1. Matched(a) \in Nat /\ Matched(a)' \in Nat /\ Matched(a) <= Matched(a)'
  BY StepBuy DEF Shape, Matched, Least
<1> QED
  BY <1>1, Constants, DivMonotone DEF Blocks

\* Two boxes whose next period is open are about to close the same one.
LEMMA SameTurn ==
  ASSUME Shape, NoneLeftBehind, NEW b \in Boxes, NEW c \in Boxes,
         job[b].todo # {}, job[c].todo # {},
         period[Turn(b)].status = "open", period[Turn(c)].status = "open"
  PROVE  Turn(b) = Turn(c)
<1>1. /\ Turn(b) \in job[b].todo /\ Turn(b) \in Weeks /\ \A v \in job[b].todo : Turn(b) <= v
      /\ Turn(c) \in job[c].todo /\ Turn(c) \in Weeks /\ \A v \in job[c].todo : Turn(c) <= v
  BY TurnIsOldest
<1>2. Turn(b) \in Nat /\ Turn(c) \in Nat
  BY <1>1, Constants
<1>3. ~ Turn(b) < Turn(c)
  BY <1>1, <1>2 DEF NoneLeftBehind
<1>4. ~ Turn(c) < Turn(b)
  BY <1>1, <1>2 DEF NoneLeftBehind
<1> QED
  BY <1>2, <1>3, <1>4

\* Nothing is due before the week of the rank.
LEMMA NothingDueBefore ==
  ASSUME NEW s \in Weeks, NEW w \in Weeks, w < s
  PROVE  DueBy(s, w) = {}
<1> SUFFICES ASSUME NEW i \in 1..Plan.rankInstallments PROVE ~ (s + (i - 1) * Plan.rankCadence <= w)
  BY DEF DueBy
<1>1. i - 1 \in Nat /\ Plan.rankCadence \in Nat
  BY Constants
<1>2. (i - 1) * Plan.rankCadence \in Nat
  BY <1>1, ProductMonotone
<1>3. s \in Nat /\ w \in Nat
  BY Constants
<1> HIDE <1>1
<1> QED
  BY <1>2, <1>3

LEMMA InstallmentsMeaning ==
  InstallmentsNotLost <=>
    \A w \in Weeks, a \in Earners :
      period[w].status = "closed" /\ rank[a].since # 0 => DueBy(rank[a].since, w) \subseteq rank[a].settled
  BY DEF InstallmentsNotLost, DueBy

\* A closing that pays leaves the earners within their volume and their instalments settled.
LEMMA CommitFits ==
  ASSUME IInv, NEW b \in Boxes, CloseCommit(b)
  PROVE  /\ Turn(b) \in job[b].todo /\ Turn(b) \in Weeks /\ Turn(b) < week
         /\ adv[Turn(b)] = b /\ period[Turn(b)].status = "open"
         /\ \A a \in Earners : PlanFits(b, a)
<1>1. job[b].pc = "pay" /\ job[b].todo # {}
  BY StepCloseCommit DEF IInv, Shape
<1>2. Turn(b) \in job[b].todo /\ Turn(b) \in Weeks
  BY <1>1, TurnIsOldest DEF IInv
<1>3. Turn(b) < week
  BY <1>2 DEF IInv, TodoEnded
<1>4. adv[Turn(b)] = b /\ period[Turn(b)].status = "open"
  BY <1>1 DEF IInv, LockHeld
<1> QED
  BY <1>1, <1>2, <1>3, <1>4 DEF IInv, SnapshotHolds

-----------------------------------------------------------------------------
(* The invariant holds initially and is kept, conjunct by conjunct.        *)

LEMMA InitIInv == Init => IInv
<1> SUFFICES ASSUME Init PROVE IInv
  OBVIOUS
<1>1. Shape
  <2>1. week \in Weeks /\ hist \in [Earners -> Nat] /\ adv \in [Weeks -> Boxes \cup {None}]
    BY Constants DEF Init, NoPay
  <2>2. pv \in [Earners -> [L : Nat, R : Nat]] /\ rank \in [Earners -> RankRecord]
    BY DEF Init, RankRecord
  <2>3. DOMAIN period = Weeks /\ DOMAIN paid = Weeks
        /\ \A w \in Weeks : /\ DOMAIN period[w] = {"status", "inflows", "theta"}
                            /\ period[w].status \in {"none", "open", "closed"}
    BY DEF Init
  <2>4. /\ DOMAIN job = Boxes
        /\ \A b \in Boxes : /\ DOMAIN job[b] = {"pc", "todo", "plan"}
                            /\ job[b].pc \in Pcs
                            /\ job[b].todo \in SUBSET Weeks
                            /\ job[b].pc \in {"lock", "pay"} => job[b].todo # {}
    BY DEF Init, Idle, Pcs
  <2> QED
    BY <2>1, <2>2, <2>3, <2>4 DEF Shape
<1>2. \A b \in Boxes : job[b].pc = "idle" /\ job[b].todo = {}
  BY DEF Init, Idle
<1>3. \A w \in Weeks : period[w].status = "none"
  BY DEF Init
<1>4. BlocksPaidOnce
  <2> SUFFICES ASSUME NEW a \in Earners PROVE hist[a] <= Blocks(a)
    BY DEF BlocksPaidOnce, Blocks
  <2>1. hist[a] = 0
    BY DEF Init, NoPay
  <2> QED
    BY <2>1, <1>1, BlocksTyped
<1> QED
  BY <1>1, <1>2, <1>3, <1>4
     DEF IInv, TodoEnded, ClosedInOrder, NoneLeftBehind, LockHeld, SnapshotHolds, InstallmentsNotLost

LEMMA ShapeKept ==
  ASSUME IInv, [Next]_vars
  PROVE  Shape'
<1> USE DEF IInv
<1>1. AccrueCDROIDaily \/ UNCHANGED vars => Shape'
  BY StepQuiet DEF Shape
<1>2. Tick => Shape'
  BY StepTick DEF Shape
<1>3. ASSUME NEW b \in Buyers, NEW w \in Weeks, Buy(b, w) PROVE Shape'
  BY <1>3, StepBuy DEF Shape
<1>4. ASSUME NEW b \in Boxes, CycleStart(b) PROVE Shape'
  BY <1>4, StepCycleStart DEF Shape, Pcs
<1>5. ASSUME NEW b \in Boxes, CloseSnapshot(b) PROVE Shape'
  BY <1>5, StepCloseSnapshot DEF Shape, Pcs
<1>6. ASSUME NEW b \in Boxes, CloseLock(b) PROVE Shape'
  <2>1. Turn(b) \in Weeks
    BY <1>6, StepCloseLock, TurnIsOldest DEF Shape
  <2>2. adv' \in [Weeks -> Boxes \cup {None}]
    BY <1>6, <2>1, StepCloseLock DEF Shape
  <2> QED
    BY <1>6, <2>2, StepCloseLock DEF Shape, Pcs
<1>7. ASSUME NEW b \in Boxes, CloseCommit(b) PROVE Shape'
  <2>1. \A a \in Earners : PlanFits(b, a)
    BY <1>7, CommitFits
  <2>2. hist' \in [Earners -> Nat] /\ rank' \in [Earners -> RankRecord]
    <3>1. ASSUME NEW a \in Earners
          PROVE  /\ hist[a] + job[b].plan.blocks[a] \in Nat
                 /\ [since |-> job[b].plan.rank[a].since,
                     settled |-> job[b].plan.rank[a].settled] \in RankRecord
      <4>1. hist[a] \in Nat
        BY DEF Shape
      <4>2. job[b].plan.blocks[a] \in Nat
        BY <2>1 DEF PlanFits
      <4>3. [since |-> job[b].plan.rank[a].since,
             settled |-> job[b].plan.rank[a].settled] \in RankRecord
        BY <2>1 DEF PlanFits
      <4> QED
        BY <4>1, <4>2, <4>3
    <3>2. /\ hist' = [a \in Earners |-> hist[a] + job[b].plan.blocks[a]]
          /\ rank' = [a \in Earners |-> [since |-> job[b].plan.rank[a].since,
                                         settled |-> job[b].plan.rank[a].settled]]
      BY <1>7, StepCloseCommit
    <3> QED
      BY <3>1, <3>2
  <2>3. adv' \in [Weeks -> Boxes \cup {None}]
    BY <1>7, StepCloseCommit DEF Shape
  <2>4. \A w \in Weeks : /\ DOMAIN period'[w] = {"status", "inflows", "theta"}
                         /\ period'[w].status \in {"none", "open", "closed"}
    BY <1>7, StepCloseCommit DEF Shape
  <2> QED
    BY <1>7, <2>2, <2>3, <2>4, StepCloseCommit DEF Shape, Pcs
<1>8. ASSUME NEW b \in Boxes, CloseFail(b) \/ Crash(b) PROVE Shape'
  <2>1. adv' \in [Weeks -> Boxes \cup {None}]
    BY <1>8, StepCloseFail DEF Shape, Free
  <2> QED
    BY <1>8, <2>1, StepCloseFail DEF Shape, Pcs
<1>9. ASSUME NEW b \in Boxes, OpenNext(b) PROVE Shape'
  BY <1>9, StepOpenNext DEF Shape, Pcs
<1> QED
  BY <1>1, <1>2, <1>3, <1>4, <1>5, <1>6, <1>7, <1>8, <1>9, NextCases

LEMMA TodoEndedKept ==
  ASSUME IInv, [Next]_vars
  PROVE  TodoEnded'
<1> USE DEF IInv
<1>1. AccrueCDROIDaily \/ UNCHANGED vars => TodoEnded'
  BY StepQuiet DEF TodoEnded
<1>2. Tick => TodoEnded'
  <2> SUFFICES ASSUME Tick, NEW b \in Boxes, NEW w \in job[b].todo PROVE w < week + 1
    BY StepTick DEF TodoEnded
  <2>1. w \in Weeks /\ week \in Weeks
    BY DEF Shape
  <2>2. w < week
    BY DEF TodoEnded
  <2> QED
    BY <2>1, <2>2, Constants
<1>3. ASSUME NEW b \in Buyers, NEW w \in Weeks, Buy(b, w) PROVE TodoEnded'
  BY <1>3, StepBuy DEF TodoEnded
<1>4. ASSUME NEW b \in Boxes, CycleStart(b) PROVE TodoEnded'
  BY <1>4, StepCycleStart DEF TodoEnded, Ended
<1>5. ASSUME NEW b \in Boxes, CloseSnapshot(b) PROVE TodoEnded'
  BY <1>5, StepCloseSnapshot DEF TodoEnded
<1>6. ASSUME NEW b \in Boxes, CloseLock(b) PROVE TodoEnded'
  BY <1>6, StepCloseLock DEF TodoEnded
<1>7. ASSUME NEW b \in Boxes, CloseCommit(b) PROVE TodoEnded'
  <2> SUFFICES ASSUME NEW c \in Boxes, NEW w \in job'[c].todo
               PROVE  w < week' /\ period'[w].status \in {"open", "closed"}
    BY DEF TodoEnded
  <2>1. w \in job[c].todo /\ w \in Weeks
    BY <1>7, StepCloseCommit DEF Shape
  <2> QED
    BY <1>7, <2>1, StepCloseCommit DEF TodoEnded
<1>8. ASSUME NEW b \in Boxes, CloseFail(b) \/ Crash(b) PROVE TodoEnded'
  BY <1>8, StepCloseFail DEF TodoEnded
<1>9. ASSUME NEW b \in Boxes, OpenNext(b) PROVE TodoEnded'
  <2> SUFFICES ASSUME NEW c \in Boxes, NEW w \in job'[c].todo
               PROVE  w < week' /\ period'[w].status \in {"open", "closed"}
    BY DEF TodoEnded
  <2>1. w \in job[c].todo /\ w \in Weeks
    BY <1>9, StepOpenNext DEF Shape
  <2> QED
    BY <1>9, <2>1, StepOpenNext DEF TodoEnded
<1> QED
  BY <1>1, <1>2, <1>3, <1>4, <1>5, <1>6, <1>7, <1>8, <1>9, NextCases

LEMMA ClosedInOrderKept ==
  ASSUME IInv, [Next]_vars
  PROVE  ClosedInOrder'
<1> USE DEF IInv
<1>1. AccrueCDROIDaily \/ UNCHANGED vars => ClosedInOrder'
  BY StepQuiet DEF ClosedInOrder
<1>2. Tick => ClosedInOrder'
  BY StepTick, Constants DEF ClosedInOrder, Shape
<1>3. ASSUME NEW b \in Buyers, NEW w \in Weeks, Buy(b, w) PROVE ClosedInOrder'
  BY <1>3, StepBuy DEF ClosedInOrder
<1>4. ASSUME NEW b \in Boxes, CycleStart(b) PROVE ClosedInOrder'
  BY <1>4, StepCycleStart DEF ClosedInOrder
<1>5. ASSUME NEW b \in Boxes, CloseSnapshot(b) PROVE ClosedInOrder'
  BY <1>5, StepCloseSnapshot DEF ClosedInOrder
<1>6. ASSUME NEW b \in Boxes, CloseLock(b) PROVE ClosedInOrder'
  BY <1>6, StepCloseLock DEF ClosedInOrder
<1>7. ASSUME NEW b \in Boxes, CloseCommit(b) PROVE ClosedInOrder'
  <2> SUFFICES ASSUME NEW w \in Weeks, period'[w].status = "closed"
               PROVE  w < week' /\ \A v \in Weeks : v < w => period'[v].status # "open"
    BY DEF ClosedInOrder
  <2>1. /\ Turn(b) \in job[b].todo /\ Turn(b) < week
        /\ \A v \in job[b].todo : Turn(b) <= v
    BY <1>7, CommitFits, TurnIsOldest
  <2>2. CASE w = Turn(b)
    <3> SUFFICES ASSUME NEW v \in Weeks, v < w PROVE period[v].status # "open"
      BY <1>7, <2>1, <2>2, StepCloseCommit
    <3>1. v \notin job[b].todo
      BY <2>1, <2>2, Constants DEF Shape
    <3> QED
      BY <2>1, <2>2, <3>1 DEF NoneLeftBehind
  <2>3. CASE w # Turn(b)
    BY <1>7, <2>3, StepCloseCommit DEF ClosedInOrder
  <2> QED
    BY <2>2, <2>3
<1>8. ASSUME NEW b \in Boxes, CloseFail(b) \/ Crash(b) PROVE ClosedInOrder'
  BY <1>8, StepCloseFail DEF ClosedInOrder
<1>9. ASSUME NEW b \in Boxes, OpenNext(b) PROVE ClosedInOrder'
  <2> SUFFICES ASSUME NEW w \in Weeks, period'[w].status = "closed"
               PROVE  w < week' /\ \A v \in Weeks : v < w => period'[v].status # "open"
    BY DEF ClosedInOrder
  <2>1. w < week' /\ week' = week /\ \A v \in Weeks : v < w => period[v].status # "open"
    BY <1>9, StepOpenNext DEF ClosedInOrder
  <2> SUFFICES ASSUME NEW v \in Weeks, v < w PROVE period'[v].status # "open"
    BY <2>1
  <2>2. v # week
    BY <2>1, Constants DEF Shape
  <2> QED
    BY <1>9, <2>1, <2>2, StepOpenNext
<1> QED
  BY <1>1, <1>2, <1>3, <1>4, <1>5, <1>6, <1>7, <1>8, <1>9, NextCases

LEMMA NoneLeftBehindKept ==
  ASSUME IInv, [Next]_vars
  PROVE  NoneLeftBehind'
<1> USE DEF IInv
<1>1. AccrueCDROIDaily \/ UNCHANGED vars => NoneLeftBehind'
  BY StepQuiet DEF NoneLeftBehind
<1>2. Tick => NoneLeftBehind'
  BY StepTick DEF NoneLeftBehind
<1>3. ASSUME NEW b \in Buyers, NEW w \in Weeks, Buy(b, w) PROVE NoneLeftBehind'
  BY <1>3, StepBuy DEF NoneLeftBehind
<1>4. ASSUME NEW b \in Boxes, CycleStart(b) PROVE NoneLeftBehind'
  <2> SUFFICES ASSUME NEW c \in Boxes, NEW w \in job'[c].todo, NEW v \in Weeks,
                      v < w, period[v].status = "open"
               PROVE  v \in job'[c].todo
    BY <1>4, StepCycleStart DEF NoneLeftBehind
  <2>1. CASE c = b
    <3>1. w \in Weeks /\ w < week /\ week \in Weeks
      BY <1>4, <2>1, StepCycleStart DEF Ended, Shape
    <3>2. v < week
      BY <3>1, Constants
    <3> QED
      BY <1>4, <2>1, <3>2, StepCycleStart DEF Ended
  <2>2. CASE c # b
    BY <1>4, <2>2, StepCycleStart DEF NoneLeftBehind
  <2> QED
    BY <2>1, <2>2
<1>5. ASSUME NEW b \in Boxes, CloseSnapshot(b) PROVE NoneLeftBehind'
  BY <1>5, StepCloseSnapshot DEF NoneLeftBehind
<1>6. ASSUME NEW b \in Boxes, CloseLock(b) PROVE NoneLeftBehind'
  BY <1>6, StepCloseLock DEF NoneLeftBehind
<1>7. ASSUME NEW b \in Boxes, CloseCommit(b) PROVE NoneLeftBehind'
  <2> SUFFICES ASSUME NEW c \in Boxes, NEW w \in job'[c].todo, NEW v \in Weeks,
                      v < w, period'[v].status = "open"
               PROVE  v \in job'[c].todo
    BY DEF NoneLeftBehind
  <2>1. v # Turn(b) /\ period[v].status = "open"
    BY <1>7, StepCloseCommit
  <2>2. w \in job[c].todo
    BY <1>7, StepCloseCommit
  <2>3. v \in job[c].todo
    BY <2>1, <2>2 DEF NoneLeftBehind
  <2> QED
    BY <1>7, <2>1, <2>3, StepCloseCommit
<1>8. ASSUME NEW b \in Boxes, CloseFail(b) \/ Crash(b) PROVE NoneLeftBehind'
  BY <1>8, StepCloseFail DEF NoneLeftBehind
<1>9. ASSUME NEW b \in Boxes, OpenNext(b) PROVE NoneLeftBehind'
  <2> SUFFICES ASSUME NEW c \in Boxes, NEW w \in job'[c].todo, NEW v \in Weeks,
                      v < w, period'[v].status = "open"
               PROVE  v \in job'[c].todo
    BY DEF NoneLeftBehind
  <2>1. c # b /\ job'[c] = job[c]
    BY <1>9, StepOpenNext
  <2>2. w \in Weeks /\ w < week /\ week \in Weeks
    BY <2>1 DEF Shape, TodoEnded
  <2>3. v # week
    BY <2>2, Constants
  <2>4. period[v].status = "open"
    BY <1>9, <2>3, StepOpenNext
  <2> QED
    BY <2>1, <2>4 DEF NoneLeftBehind
<1> QED
  BY <1>1, <1>2, <1>3, <1>4, <1>5, <1>6, <1>7, <1>8, <1>9, NextCases

LEMMA LockHeldKept ==
  ASSUME IInv, [Next]_vars
  PROVE  LockHeld'
<1> USE DEF IInv
<1>1. AccrueCDROIDaily \/ UNCHANGED vars => LockHeld'
  BY StepQuiet DEF LockHeld, Turn
<1>2. Tick => LockHeld'
  BY StepTick DEF LockHeld, Turn
<1>3. ASSUME NEW b \in Buyers, NEW w \in Weeks, Buy(b, w) PROVE LockHeld'
  BY <1>3, StepBuy DEF LockHeld, Turn
<1>4. ASSUME NEW b \in Boxes, CycleStart(b) PROVE LockHeld'
  BY <1>4, StepCycleStart DEF LockHeld, Turn
<1>5. ASSUME NEW b \in Boxes, CloseSnapshot(b) PROVE LockHeld'
  BY <1>5, StepCloseSnapshot DEF LockHeld, Turn
<1>6. ASSUME NEW b \in Boxes, CloseLock(b) PROVE LockHeld'
  <2> SUFFICES ASSUME NEW c \in Boxes, job'[c].pc = "pay"
               PROVE  adv'[Turn(c)'] = c /\ period'[Turn(c)'].status = "open"
    BY DEF LockHeld
  <2>1. Turn(b) \in Weeks /\ Turn(c)' = Turn(c)
    BY <1>6, StepCloseLock, TurnIsOldest DEF Shape, Turn
  <2>2. CASE c = b
    BY <1>6, <2>1, <2>2, StepCloseLock DEF Shape
  <2>3. CASE c # b
    <3>1. adv[Turn(c)] = c /\ period[Turn(c)].status = "open"
      BY <1>6, <2>3, StepCloseLock DEF LockHeld
    <3>2. Turn(c) # Turn(b)
      BY <1>6, <3>1, StepCloseLock, Constants
    <3>3. job[c].todo # {}
      BY <1>6, <2>3, StepCloseLock DEF Shape
    <3>4. Turn(c) \in Weeks
      BY <3>3, TurnIsOldest
    <3>5. adv'[Turn(c)] = adv[Turn(c)]
      BY <1>6, <3>2, <3>4, StepCloseLock DEF Shape
    <3> QED
      BY <1>6, <2>1, <3>1, <3>5, StepCloseLock
  <2> QED
    BY <2>2, <2>3
<1>7. ASSUME NEW b \in Boxes, CloseCommit(b) PROVE LockHeld'
  <2> SUFFICES ASSUME NEW c \in Boxes, job'[c].pc = "pay"
               PROVE  adv'[Turn(c)'] = c /\ period'[Turn(c)'].status = "open"
    BY DEF LockHeld
  <2>1. c # b /\ job'[c] = job[c]
    BY <1>7, StepCloseCommit
  <2>2. Turn(c)' = Turn(c) /\ Turn(c) \in Weeks
    BY <2>1, TurnIsOldest DEF Turn, Shape
  <2>3. adv[Turn(c)] = c /\ period[Turn(c)].status = "open"
    BY <2>1 DEF LockHeld
  <2>4. Turn(c) # Turn(b)
    BY <1>7, <2>1, <2>3, CommitFits
  <2> QED
    BY <1>7, <2>2, <2>3, <2>4, StepCloseCommit DEF Shape
<1>8. ASSUME NEW b \in Boxes, CloseFail(b) \/ Crash(b) PROVE LockHeld'
  <2> SUFFICES ASSUME NEW c \in Boxes, job'[c].pc = "pay"
               PROVE  adv'[Turn(c)'] = c /\ period'[Turn(c)'].status = "open"
    BY DEF LockHeld
  <2>1. c # b /\ job'[c] = job[c]
    BY <1>8, StepCloseFail
  <2>2. Turn(c)' = Turn(c) /\ Turn(c) \in Weeks
    BY <2>1, TurnIsOldest DEF Turn, Shape
  <2>3. adv[Turn(c)] = c /\ period[Turn(c)].status = "open"
    BY <2>1 DEF LockHeld
  <2> QED
    BY <1>8, <2>1, <2>2, <2>3, StepCloseFail DEF Free
<1>9. ASSUME NEW b \in Boxes, OpenNext(b) PROVE LockHeld'
  <2> SUFFICES ASSUME NEW c \in Boxes, job'[c].pc = "pay"
               PROVE  adv'[Turn(c)'] = c /\ period'[Turn(c)'].status = "open"
    BY DEF LockHeld
  <2>1. c # b /\ job'[c] = job[c]
    BY <1>9, StepOpenNext
  <2>2. Turn(c)' = Turn(c) /\ Turn(c) \in Weeks
    BY <2>1, TurnIsOldest DEF Turn, Shape
  <2> QED
    BY <1>9, <2>1, <2>2, StepOpenNext DEF LockHeld
<1> QED
  BY <1>1, <1>2, <1>3, <1>4, <1>5, <1>6, <1>7, <1>8, <1>9, NextCases

LEMMA BlocksPaidOnceKept ==
  ASSUME IInv, [Next]_vars
  PROVE  BlocksPaidOnce'
<1> USE DEF IInv
<1>1. AccrueCDROIDaily \/ UNCHANGED vars => BlocksPaidOnce'
  BY StepQuiet DEF BlocksPaidOnce, Matched
<1>2. Tick => BlocksPaidOnce'
  BY StepTick DEF BlocksPaidOnce, Matched
<1>3. ASSUME NEW b \in Buyers, NEW w \in Weeks, Buy(b, w) PROVE BlocksPaidOnce'
  <2> SUFFICES ASSUME NEW a \in Earners PROVE hist'[a] <= Blocks(a)'
    BY DEF BlocksPaidOnce, Blocks
  <2>1. hist'[a] = hist[a] /\ hist[a] \in Nat
    BY <1>3, StepBuy DEF Shape
  <2>2. hist[a] <= Blocks(a)
    BY DEF BlocksPaidOnce, Blocks
  <2>3. Blocks(a) \in Nat /\ Blocks(a)' \in Nat /\ Blocks(a) <= Blocks(a)'
    BY <1>3, BlocksGrow
  <2> QED
    BY <2>1, <2>2, <2>3
<1>4. ASSUME NEW b \in Boxes, CycleStart(b) PROVE BlocksPaidOnce'
  BY <1>4, StepCycleStart DEF BlocksPaidOnce, Matched
<1>5. ASSUME NEW b \in Boxes, CloseSnapshot(b) PROVE BlocksPaidOnce'
  BY <1>5, StepCloseSnapshot DEF BlocksPaidOnce, Matched
<1>6. ASSUME NEW b \in Boxes, CloseLock(b) PROVE BlocksPaidOnce'
  BY <1>6, StepCloseLock DEF BlocksPaidOnce, Matched
<1>7. ASSUME NEW b \in Boxes, CloseCommit(b) PROVE BlocksPaidOnce'
  <2> SUFFICES ASSUME NEW a \in Earners PROVE hist'[a] <= Blocks(a)'
    BY DEF BlocksPaidOnce, Blocks
  <2>1. hist'[a] = hist[a] + job[b].plan.blocks[a] /\ Blocks(a)' = Blocks(a)
    BY <1>7, StepCloseCommit DEF Blocks, Matched
  <2>2. hist[a] + job[b].plan.blocks[a] <= Blocks(a)
    BY <1>7, CommitFits DEF PlanFits
  <2> QED
    BY <2>1, <2>2
<1>8. ASSUME NEW b \in Boxes, CloseFail(b) \/ Crash(b) PROVE BlocksPaidOnce'
  BY <1>8, StepCloseFail DEF BlocksPaidOnce, Matched
<1>9. ASSUME NEW b \in Boxes, OpenNext(b) PROVE BlocksPaidOnce'
  BY <1>9, StepOpenNext DEF BlocksPaidOnce, Matched
<1> QED
  BY <1>1, <1>2, <1>3, <1>4, <1>5, <1>6, <1>7, <1>8, <1>9, NextCases

LEMMA InstallmentsNotLostKept ==
  ASSUME IInv, [Next]_vars
  PROVE  InstallmentsNotLost'
<1> USE DEF IInv
<1>1. AccrueCDROIDaily \/ UNCHANGED vars => InstallmentsNotLost'
  BY StepQuiet DEF InstallmentsNotLost
<1>2. Tick => InstallmentsNotLost'
  BY StepTick DEF InstallmentsNotLost
<1>3. ASSUME NEW b \in Buyers, NEW w \in Weeks, Buy(b, w) PROVE InstallmentsNotLost'
  BY <1>3, StepBuy DEF InstallmentsNotLost
<1>4. ASSUME NEW b \in Boxes, CycleStart(b) PROVE InstallmentsNotLost'
  BY <1>4, StepCycleStart DEF InstallmentsNotLost
<1>5. ASSUME NEW b \in Boxes, CloseSnapshot(b) PROVE InstallmentsNotLost'
  BY <1>5, StepCloseSnapshot DEF InstallmentsNotLost
<1>6. ASSUME NEW b \in Boxes, CloseLock(b) PROVE InstallmentsNotLost'
  BY <1>6, StepCloseLock DEF InstallmentsNotLost
<1>7. ASSUME NEW b \in Boxes, CloseCommit(b) PROVE InstallmentsNotLost'
  <2> DEFINE p == job[b].plan
  <2> SUFFICES ASSUME NEW v \in Weeks, NEW a \in Earners,
                      period'[v].status = "closed", rank'[a].since # 0
               PROVE  DueBy(rank'[a].since, v) \subseteq rank'[a].settled
    BY DEF InstallmentsNotLost, DueBy
  <2>1. PlanFits(b, a) /\ Turn(b) \in Weeks /\ period[Turn(b)].status = "open"
    BY <1>7, CommitFits
  <2>2. rank'[a].since = p.rank[a].since /\ rank'[a].settled = p.rank[a].settled
    BY <1>7, StepCloseCommit
  <2> HIDE DEF p
  <2>3. CASE v = Turn(b)
    BY <2>1, <2>2, <2>3 DEF PlanFits, p
  <2>4. CASE v # Turn(b) /\ rank[a].since # 0
    <3>1. period[v].status = "closed"
      BY <1>7, <2>4, StepCloseCommit
    <3>2. DueBy(rank[a].since, v) \subseteq rank[a].settled
      BY <2>4, <3>1, InstallmentsMeaning
    <3>3. p.rank[a].since = rank[a].since /\ rank[a].settled \subseteq p.rank[a].settled
      BY <2>1, <2>4 DEF PlanFits, p
    <3> QED
      BY <2>2, <3>2, <3>3
  <2>5. CASE v # Turn(b) /\ rank[a].since = 0
    <3>1. period[v].status = "closed"
      BY <1>7, <2>5, StepCloseCommit
    <3>2. p.rank[a].since = Turn(b)
      BY <2>1, <2>2, <2>5 DEF PlanFits, p
    <3>3. ~ Turn(b) < v
      BY <2>1, <3>1 DEF ClosedInOrder
    <3>4. v \in Nat /\ Turn(b) \in Nat
      BY <2>1, Constants
    <3>5. v < Turn(b)
      BY <2>5, <3>3, <3>4
    <3> QED
      BY <2>1, <2>2, <3>2, <3>5, NothingDueBefore
  <2> QED
    BY <2>3, <2>4, <2>5
<1>8. ASSUME NEW b \in Boxes, CloseFail(b) \/ Crash(b) PROVE InstallmentsNotLost'
  BY <1>8, StepCloseFail DEF InstallmentsNotLost
<1>9. ASSUME NEW b \in Boxes, OpenNext(b) PROVE InstallmentsNotLost'
  BY <1>9, StepOpenNext DEF InstallmentsNotLost
<1> QED
  BY <1>1, <1>2, <1>3, <1>4, <1>5, <1>6, <1>7, <1>8, <1>9, NextCases

\* The plan of a closing goes on fitting when blocks are added.
LEMMA PlanFitsKept ==
  ASSUME Shape, NEW b \in Boxes, NEW a \in Earners, PlanFits(b, a),
         job'[b] = job[b], hist' = hist, rank' = rank,
         Blocks(a) \in Nat, Blocks(a)' \in Nat, Blocks(a) <= Blocks(a)'
  PROVE  PlanFits(b, a)'
<1>1. Turn(b)' = Turn(b)
  BY DEF Turn
<1>2. hist[a] \in Nat /\ job[b].plan.blocks[a] \in Nat /\ hist[a] + job[b].plan.blocks[a] <= Blocks(a)
  BY DEF PlanFits, Shape
<1>3. hist[a] + job[b].plan.blocks[a] <= Blocks(a)'
  BY <1>2
<1>4. \A s, w : DueBy(s, w)' = DueBy(s, w)
  BY DEF DueBy
<1> QED
  BY <1>1, <1>2, <1>3 DEF PlanFits, DueBy

\* What a closing computes on a state fits that state.
LEMMA NewPlanFits ==
  ASSUME IInv, NEW b \in Boxes, NEW a \in Earners, CloseSnapshot(b), job'[b].pc = "lock"
  PROVE  PlanFits(b, a)'
<1> USE DEF IInv
<1> DEFINE w == Turn(b)
<1> DEFINE p == job'[b].plan
<1>1. /\ Turn(b)' = w /\ w \in Weeks
      /\ hist' = hist /\ rank' = rank /\ Blocks(a)' = Blocks(a)
      /\ p.blocks[a] \in {0, NewBlocks(a)}
      /\ p.rank[a].since = RankSince(w, a)
      /\ p.rank[a].settled = rank[a].settled \cup DueInstallments(w, a)
  BY StepCloseSnapshot, TurnIsOldest DEF Turn, Blocks, Matched
<1>2. hist[a] \in Nat /\ Blocks(a) \in Nat /\ hist[a] <= Blocks(a)
  BY BlocksTyped DEF Shape, BlocksPaidOnce, Blocks
<1>3. p.blocks[a] \in Nat /\ hist[a] + p.blocks[a] <= Blocks(a)
  BY <1>1, <1>2 DEF NewBlocks, Minus, Blocks
<1>4. rank[a] \in RankRecord
  BY DEF Shape
<1>5. rank[a].since \in {0} \cup Weeks /\ rank[a].settled \subseteq 1..Plan.rankInstallments
  BY <1>4 DEF RankRecord
<1>6. /\ RankSince(w, a) \in {rank[a].since, w}
      /\ rank[a].since # 0 => RankSince(w, a) = rank[a].since
  BY DEF RankSince
<1>7. /\ DueInstallments(w, a) \subseteq 1..Plan.rankInstallments
      /\ RankSince(w, a) # 0 => DueBy(RankSince(w, a), w) \subseteq rank[a].settled \cup DueInstallments(w, a)
  BY DEF DueInstallments, DueBy
<1> HIDE DEF w, p
<1>8. [since |-> p.rank[a].since, settled |-> p.rank[a].settled] \in RankRecord
  BY <1>1, <1>5, <1>6, <1>7 DEF RankRecord
<1>9. /\ p.blocks[a] \in Nat
      /\ hist'[a] + p.blocks[a] <= Blocks(a)'
      /\ p.rank[a].since \in {rank'[a].since, w}
      /\ rank'[a].since # 0 => p.rank[a].since = rank'[a].since
      /\ rank'[a].settled \subseteq p.rank[a].settled
      /\ p.rank[a].since # 0 => DueBy(p.rank[a].since, w) \subseteq p.rank[a].settled
  BY <1>1, <1>3, <1>6, <1>7
<1> QED
  BY <1>1, <1>8, <1>9 DEF PlanFits, DueBy, p

LEMMA SnapshotHoldsKept ==
  ASSUME IInv, [Next]_vars
  PROVE  SnapshotHolds'
<1> USE DEF IInv
<1> DEFINE Busy(c) == job[c].pc \in {"lock", "pay"} /\ period[Turn(c)].status = "open"
\* A step that leaves the plan of a box, the payments and the periods alone.
<1>a. ASSUME NEW c \in Boxes, Busy(c), job'[c] = job[c], NEW a \in Earners,
             hist' = hist, rank' = rank, pv' = pv
      PROVE  PlanFits(c, a)'
  <2>1. PlanFits(c, a)
    BY <1>a DEF SnapshotHolds
  <2>2. Blocks(a)' = Blocks(a) /\ Blocks(a) \in Nat
    BY <1>a, BlocksTyped DEF Blocks, Matched
  <2> QED
    BY <1>a, <2>1, <2>2, PlanFitsKept
<1>b. ASSUME NEW c \in Boxes, job'[c] = job[c] PROVE Turn(c)' = Turn(c)
  BY <1>b DEF Turn
<1>c. ASSUME NEW c \in Boxes, job[c].pc \in {"lock", "pay"}
      PROVE  Turn(c) \in Weeks /\ Turn(c) \in job[c].todo
  BY <1>c, TurnIsOldest DEF Shape
<1>1. AccrueCDROIDaily \/ UNCHANGED vars => SnapshotHolds'
  BY <1>a, <1>b, StepQuiet DEF SnapshotHolds
<1>2. Tick => SnapshotHolds'
  BY <1>a, <1>b, StepTick DEF SnapshotHolds
<1>3. ASSUME NEW b \in Buyers, NEW w \in Weeks, Buy(b, w) PROVE SnapshotHolds'
  <2> SUFFICES ASSUME NEW c \in Boxes, NEW a \in Earners, Busy(c)
               PROVE  PlanFits(c, a)'
    BY <1>3, <1>b, StepBuy DEF SnapshotHolds
  <2>1. PlanFits(c, a)
    BY DEF SnapshotHolds
  <2>2. Blocks(a) \in Nat /\ Blocks(a)' \in Nat /\ Blocks(a) <= Blocks(a)'
    BY <1>3, BlocksGrow
  <2> QED
    BY <1>3, <2>1, <2>2, StepBuy, PlanFitsKept
<1>4. ASSUME NEW b \in Boxes, CycleStart(b) PROVE SnapshotHolds'
  <2> SUFFICES ASSUME NEW c \in Boxes, NEW a \in Earners, Busy(c)' PROVE PlanFits(c, a)'
    BY DEF SnapshotHolds
  <2>1. c # b /\ job'[c] = job[c]
    BY <1>4, StepCycleStart
  <2> QED
    BY <1>4, <2>1, <1>a, <1>b, StepCycleStart
<1>5. ASSUME NEW b \in Boxes, CloseSnapshot(b) PROVE SnapshotHolds'
  <2> SUFFICES ASSUME NEW c \in Boxes, NEW a \in Earners, Busy(c)' PROVE PlanFits(c, a)'
    BY DEF SnapshotHolds
  <2>1. CASE c = b
    <3>1. job'[b].pc = "lock"
      BY <1>5, <2>1, StepCloseSnapshot
    <3> QED
      BY <1>5, <2>1, <3>1, NewPlanFits
  <2>2. CASE c # b
    BY <1>5, <2>2, <1>a, <1>b, StepCloseSnapshot
  <2> QED
    BY <2>1, <2>2
<1>6. ASSUME NEW b \in Boxes, CloseLock(b) PROVE SnapshotHolds'
  <2> SUFFICES ASSUME NEW c \in Boxes, NEW a \in Earners, Busy(c)' PROVE PlanFits(c, a)'
    BY DEF SnapshotHolds
  <2>1. CASE c = b
    <3>1. /\ Turn(b)' = Turn(b) /\ period' = period /\ job'[b].plan = job[b].plan
          /\ hist' = hist /\ rank' = rank /\ Blocks(a)' = Blocks(a) /\ job[b].pc = "lock"
      BY <1>6, StepCloseLock DEF Turn, Blocks, Matched
    <3>2. PlanFits(b, a)
      BY <2>1, <3>1 DEF SnapshotHolds
    <3> QED
      BY <2>1, <3>1, <3>2 DEF PlanFits, DueBy
  <2>2. CASE c # b
    BY <1>6, <2>2, <1>a, <1>b, StepCloseLock
  <2> QED
    BY <2>1, <2>2
<1>7. ASSUME NEW b \in Boxes, CloseCommit(b) PROVE SnapshotHolds'
  <2> SUFFICES ASSUME NEW c \in Boxes, Busy(c)' PROVE FALSE
    BY DEF SnapshotHolds
  <2>1. c # b /\ job'[c] = job[c] /\ Turn(c)' = Turn(c)
    BY <1>7, <1>b, StepCloseCommit
  <2>2. Turn(c) \in Weeks /\ Turn(c) \in job[c].todo
    BY <2>1, <1>c
  <2>3. Turn(c) # Turn(b) /\ period[Turn(c)].status = "open"
    BY <1>7, <2>1, <2>2, StepCloseCommit
  <2>4. Turn(b) \in job[b].todo /\ period[Turn(b)].status = "open"
    BY <1>7, CommitFits
  <2> QED
    BY <2>2, <2>3, <2>4, SameTurn
<1>8. ASSUME NEW b \in Boxes, CloseFail(b) \/ Crash(b) PROVE SnapshotHolds'
  <2> SUFFICES ASSUME NEW c \in Boxes, NEW a \in Earners, Busy(c)' PROVE PlanFits(c, a)'
    BY DEF SnapshotHolds
  <2>1. c # b /\ job'[c] = job[c]
    BY <1>8, StepCloseFail
  <2> QED
    BY <1>8, <2>1, <1>a, <1>b, StepCloseFail
<1>9. ASSUME NEW b \in Boxes, OpenNext(b) PROVE SnapshotHolds'
  <2> SUFFICES ASSUME NEW c \in Boxes, NEW a \in Earners, Busy(c)' PROVE PlanFits(c, a)'
    BY DEF SnapshotHolds
  <2>1. c # b /\ job'[c] = job[c] /\ Turn(c)' = Turn(c)
    BY <1>9, <1>b, StepOpenNext
  <2>2. Turn(c) \in job[c].todo /\ Turn(c) \in Weeks
    BY <2>1, <1>c
  <2>3. period[Turn(c)].status \in {"open", "closed"}
    BY <2>2 DEF TodoEnded
  <2>4. period[Turn(c)].status = "open"
    BY <1>9, <2>1, <2>2, <2>3, StepOpenNext
  <2> QED
    BY <1>9, <2>1, <2>4, <1>a, StepOpenNext
<1> QED
  BY <1>1, <1>2, <1>3, <1>4, <1>5, <1>6, <1>7, <1>8, <1>9, NextCases

-----------------------------------------------------------------------------
(* What follows for the cycle.                                             *)

\* The inductive invariant holds in every state, for any number of boxes, earners,
\* purchases and weeks.
THEOREM Invariance == Spec => []IInv
<1>1. Init => IInv
  BY InitIInv
<1>2. IInv /\ [Next]_vars => IInv'
  BY ShapeKept, TodoEndedKept, ClosedInOrderKept, NoneLeftBehindKept, LockHeldKept,
     SnapshotHoldsKept, BlocksPaidOnceKept, InstallmentsNotLostKept DEF IInv
<1> QED
  BY <1>1, <1>2, PTL DEF Spec

\* EnumerateCandidates and CloseBinaryPeriod: however the closings of the boxes, their
\* failures and the purchases interleave, no block of matched volume is paid twice.
THEOREM BlocksOnce == Spec => []BlocksPaidOnce
<1>1. IInv => BlocksPaidOnce
  BY DEF IInv
<1> QED
  BY <1>1, Invariance, PTL

\* The rank stream: once a period is closed, every instalment due by then is settled,
\* those of weeks that nobody closed included.
THEOREM InstallmentsKept == Spec => []InstallmentsNotLost
<1>1. IInv => InstallmentsNotLost
  BY DEF IInv
<1> QED
  BY <1>1, Invariance, PTL

\* A period is only closed by the commit of a box whose turn it is.
LEMMA ClosesByCommit ==
  ASSUME IInv, [Next]_vars, NEW w \in Weeks, Closes(w)
  PROVE  \E b \in Boxes : CloseCommit(b) /\ w = Turn(b)
<1> USE DEF IInv
<1> DEFINE P == \E b \in Boxes : CloseCommit(b) /\ w = Turn(b)
<1>0. period'[w] # period[w] /\ period'[w].status # "open"
  BY DEF Closes
<1>1. AccrueCDROIDaily \/ UNCHANGED vars => P
  BY <1>0, StepQuiet
<1>2. Tick => P
  BY <1>0, StepTick
<1>3. ASSUME NEW b \in Buyers, NEW v \in Weeks, Buy(b, v) PROVE P
  BY <1>0, <1>3, StepBuy
<1>4. ASSUME NEW b \in Boxes, CycleStart(b) PROVE P
  BY <1>0, <1>4, StepCycleStart
<1>5. ASSUME NEW b \in Boxes, CloseSnapshot(b) PROVE P
  BY <1>0, <1>5, StepCloseSnapshot
<1>6. ASSUME NEW b \in Boxes, CloseLock(b) PROVE P
  BY <1>0, <1>6, StepCloseLock
<1>7. ASSUME NEW b \in Boxes, CloseCommit(b) PROVE P
  BY <1>0, <1>7, StepCloseCommit
<1>8. ASSUME NEW b \in Boxes, CloseFail(b) \/ Crash(b) PROVE P
  BY <1>0, <1>8, StepCloseFail
<1>9. ASSUME NEW b \in Boxes, OpenNext(b) PROVE P
  BY <1>0, <1>9, StepOpenNext
<1> QED
  BY <1>1, <1>2, <1>3, <1>4, <1>5, <1>6, <1>7, <1>8, <1>9, NextCases

\* pickPeriodsToClose: no box closes the week that runs.
THEOREM OnlyEndedCloses == Spec => NeverEarly
<1>1. IInv /\ [Next]_vars => [\A w \in Weeks : Closes(w) => w < week]_vars
  BY ClosesByCommit, CommitFits
<1> QED
  BY <1>1, Invariance, PTL DEF Spec, NeverEarly

\* runBinaryCycle: when a period is closed none of the older ones is open, also after
\* failures and with several boxes at work.
THEOREM InOrder == Spec => Chronological
<1>1. ASSUME IInv, [Next]_vars, NEW v \in Weeks, NEW w \in Weeks, Closes(w), v < w
      PROVE  period[v].status # "open"
  <2>1. PICK b \in Boxes : CloseCommit(b) /\ w = Turn(b)
    BY <1>1, ClosesByCommit
  <2>2. Turn(b) \in job[b].todo /\ \A u \in job[b].todo : Turn(b) <= u
    BY <1>1, <2>1, CommitFits, TurnIsOldest DEF IInv
  <2>3. v \in Nat /\ w \in Nat
    BY Constants
  <2>4. v \notin job[b].todo
    BY <1>1, <2>1, <2>2, <2>3
  <2> QED
    BY <1>1, <2>1, <2>2, <2>4 DEF IInv, NoneLeftBehind
<1>2. IInv /\ [Next]_vars
        => [\A v, w \in Weeks : Closes(w) /\ v < w => period[v].status # "open"]_vars
  BY <1>1
<1> QED
  BY <1>2, Invariance, PTL DEF Spec, Chronological

\* CloseBinaryPeriod and the immutability trigger: a closed period and its payments never
\* change, and what a period pays is booked by the step that closes it.
THEOREM ClosedFinal == Spec => ClosedIsFinal
<1> DEFINE A == /\ \A w \in Weeks : period[w].status = "closed" => period'[w] = period[w]
                /\ \A w \in Weeks : paid'[w] # paid[w] => Closes(w)
                /\ (\A w \in Weeks : ~Closes(w)) => UNCHANGED <<hist, points, rank>>
<1>1. ASSUME IInv, [Next]_vars PROVE A
  <2> USE <1>1 DEF IInv
  <2>1. AccrueCDROIDaily \/ UNCHANGED vars => A
    BY StepQuiet DEF AccrueCDROIDaily, vars, payVars
  <2>2. Tick => A
    BY StepTick DEF Tick, payVars
  <2>3. ASSUME NEW b \in Buyers, NEW w \in Weeks, Buy(b, w) PROVE A
    BY <2>3, StepBuy DEF Buy, payVars
  <2>4. ASSUME NEW b \in Boxes, CycleStart(b) PROVE A
    BY <2>4, StepCycleStart DEF CycleStart, payVars
  <2>5. ASSUME NEW b \in Boxes, CloseSnapshot(b) PROVE A
    BY <2>5, StepCloseSnapshot DEF CloseSnapshot, payVars
  <2>6. ASSUME NEW b \in Boxes, CloseLock(b) PROVE A
    BY <2>6, StepCloseLock DEF CloseLock, payVars
  <2>7. ASSUME NEW b \in Boxes, CloseCommit(b) PROVE A
    <3>1. Turn(b) \in Weeks /\ Closes(Turn(b))
      BY <2>7, CommitFits, StepCloseCommit DEF Closes
    <3>2. \A w \in Weeks : w # Turn(b) => period'[w] = period[w] /\ paid'[w] = paid[w]
      BY <2>7, StepCloseCommit
    <3>3. period[Turn(b)].status = "open"
      BY <2>7, CommitFits
    <3> QED
      BY <3>1, <3>2, <3>3
  <2>8. ASSUME NEW b \in Boxes, CloseFail(b) \/ Crash(b) PROVE A
    BY <2>8, StepCloseFail DEF CloseFail, Crash, payVars
  <2>9. ASSUME NEW b \in Boxes, OpenNext(b) PROVE A
    <3>1. \A w \in Weeks : period[w].status = "closed" => period'[w] = period[w]
      BY <2>9, StepOpenNext
    <3>2. paid' = paid /\ UNCHANGED <<hist, points, rank>>
      BY <2>9 DEF OpenNext, payVars
    <3> QED
      BY <3>1, <3>2
  <2> QED
    BY <2>1, <2>2, <2>3, <2>4, <2>5, <2>6, <2>7, <2>8, <2>9, NextCases
<1>2. IInv /\ [Next]_vars => [A]_vars
  BY <1>1
<1> QED
  BY <1>2, Invariance, PTL DEF Spec, ClosedIsFinal

\* The three together: any number of boxes, whatever fails, close each period once, after
\* its week and in order, and nobody touches it again.
THEOREM InTurn == Spec => ClosesInTurn
<1> QED
  BY OnlyEndedCloses, InOrder, ClosedFinal DEF ClosesInTurn

-----------------------------------------------------------------------------
(* What a closing pays an earner.                                          *)

LEMMA PlanAmounts ==
  /\ Plan.price \in Nat /\ Plan.blockSize \in Nat \ {0} /\ Plan.bonusPerBlock \in Nat
  /\ Plan.alpha \in Nat /\ Plan.scale \in Nat \ {0}
  /\ Plan.periodCap \in Nat /\ Plan.packageCap \in Nat /\ Plan.reduction \in 0..100
  /\ Plan.referralRate \in Nat /\ Plan.royaltyRate \in Nat
  /\ Plan.pointsPerBlock \in Nat /\ Plan.dollarsPerPoint \in Nat /\ Plan.yieldGross \in Nat
  /\ Plan.rankBonus \in Nat /\ Plan.roi \in Nat
<1>1. Plan \in PlanRecord
  BY ConstantsAssumption
<1>2. /\ Plan.price \in Nat /\ Plan.blockSize \in Nat \ {0} /\ Plan.bonusPerBlock \in Nat
      /\ Plan.alpha \in Nat /\ Plan.scale \in Nat \ {0}
      /\ Plan.periodCap \in Nat /\ Plan.packageCap \in Nat /\ Plan.reduction \in 0..100
  BY <1>1 DEF PlanRecord
<1>3. /\ Plan.referralRate \in Nat /\ Plan.royaltyRate \in Nat
      /\ Plan.pointsPerBlock \in Nat /\ Plan.dollarsPerPoint \in Nat /\ Plan.yieldGross \in Nat
      /\ Plan.rankBonus \in Nat /\ Plan.roi \in Nat
  BY <1>1 DEF PlanRecord
<1> QED
  BY <1>2, <1>3

LEMMA LeastOf ==
  ASSUME NEW x \in Nat, NEW y \in Nat
  PROVE  Least(x, y) \in Nat /\ Least(x, y) <= x /\ Least(x, y) <= y
  BY DEF Least

LEMMA MinusOf ==
  ASSUME NEW x \in Nat, NEW y \in Nat
  PROVE  Minus(x, y) \in Nat /\ Minus(x, y) <= x /\ (y <= x => y + Minus(x, y) = x)
  BY DEF Minus

\* A percentage that is at most one hundred leaves no more than there was.
LEMMA PercentOf ==
  ASSUME NEW r \in Nat, NEW x \in Nat
  PROVE  Percent(r, x) \in Nat /\ (r <= 100 => Percent(r, x) <= x)
<1>1. r * x \in Nat
  BY ProductOf
<1>2. (r * x) \div 100 \in Nat
  BY <1>1, QuotientOf
<1>3. r <= 100 => (r * x) \div 100 <= x
  <2> SUFFICES ASSUME r <= 100 PROVE (r * x) \div 100 <= x
    OBVIOUS
  <2>1. r * x <= 100 * x /\ 100 * x \in Nat
    BY ProductMonotone
  <2>2. (r * x) \div 100 <= (100 * x) \div 100
    BY <1>1, <2>1, DivMonotone
  <2>3. (100 * x) \div 100 = x
    OBVIOUS
  <2> QED
    BY <2>2, <2>3
<1> QED
  BY <1>2, <1>3 DEF Percent

\* What theta leaves of an amount, and of what it leaves a part.
LEMMA NetAmount ==
  ASSUME NEW gross \in Nat, NEW theta \in Theta
  PROVE  /\ Net(gross, theta) \in Nat /\ Net(gross, theta) <= gross
         /\ \A x \in Nat : x <= Net(gross, theta) => Plan.scale * x <= theta * gross
<1> DEFINE n == Net(gross, theta)
<1>1. Plan.scale \in Nat \ {0} /\ theta \in Nat /\ theta \in 0..Plan.scale
  BY PlanAmounts DEF Theta
<1>2. n \in 0..gross
  BY <1>1, NetWithinGross DEF Net
<1>3. gross * theta \in Nat /\ theta * gross = gross * theta
  BY <1>1, ProductOf
<1>4. Plan.scale * n <= theta * gross
  BY <1>1, <1>3, QuotientOf DEF Net, NetOf
<1> HIDE DEF n
<1>5. ASSUME NEW x \in Nat, x <= n PROVE Plan.scale * x <= theta * gross
  <2>1. Plan.scale * x \in Nat /\ Plan.scale * n \in Nat /\ Plan.scale * x <= Plan.scale * n
    BY <1>1, <1>2, <1>5, ProductMonotone
  <2> QED
    BY <1>3, <1>4, <2>1
<1> QED
  BY <1>2, <1>5 DEF n

\* The instalments of a rank are amounts: the last one is what the others left of the bonus.
LEMMA InstallmentOf ==
  ASSUME NEW i \in 1..Plan.rankInstallments
  PROVE  Installment(i) \in Nat
<1> DEFINE N == Plan.rankInstallments
           x == Plan.rankBonus \div N
<1>1. N \in Nat \ {0} /\ Plan.rankBonus \in Nat
  BY Constants, PlanAmounts
<1>2. x \in Nat /\ N * x <= Plan.rankBonus
  BY <1>1, QuotientOf
<1>3. (N - 1) * x \in Nat /\ N * x \in Nat /\ (N - 1) * x <= N * x
  <2>1. N - 1 \in Nat /\ N \in Nat /\ N - 1 <= N
    BY <1>1
  <2> HIDE DEF x, N
  <2> QED
    BY <1>2, <2>1, ProductMonotone
<1> HIDE DEF x
<1>4. Plan.rankBonus - (N - 1) * x \in Nat
  BY <1>1, <1>2, <1>3
<1> QED
  BY <1>2, <1>4 DEF Installment, x

-----------------------------------------------------------------------------
(* What a closing computes, named.                                         *)

\* The amounts of a closing before theta, and theta.
Bin(w, q) == [a \in Earners |-> BinaryGross(w, q, a)]
Pts(w, q) == [a \in Earners |-> PointsGross(w, Bin(w, q)[a], a)]
Ins(w) == [a \in Earners |-> InstallmentsGross(DueInstallments(w, a))]
Oth(w, g) == [a \in Earners |-> OtherGross(w, g, a)]
Throttle(w, q, g) ==
  ComputeTheta(Plan.alpha, inflow[w], Projected(Bin(w, q), Pts(w, q), Ins(w), Oth(w, g)), Plan.scale)

\* c is what a closing computes under theta.
ClosingIs(c, w, q, g, theta) ==
  /\ DOMAIN c = {"inflows", "theta", "capRead", "blocks", "binary", "points", "earned", "rank", "other"}
  /\ c.inflows = inflow[w] /\ c.theta = theta /\ c.capRead = capPaid
  /\ c.binary = [a \in Earners |-> BinaryNet(q, Bin(w, q), theta, a)]
  /\ c.blocks = [a \in Earners |-> IF c.binary[a] > 0 THEN NewBlocks(a) ELSE 0]
  /\ c.points = [a \in Earners |-> PointsNet(Pts(w, q), theta, a, c.binary[a])]
  /\ c.earned = [a \in Earners |-> PointsEarned(Bin(w, q), theta, a)]
  /\ c.rank = [a \in Earners |-> [since |-> RankSince(w, a),
                                  settled |-> rank[a].settled \cup DueInstallments(w, a),
                                  net |-> InstallmentsNet(DueInstallments(w, a), theta)]]
  /\ c.other = [a \in Earners |-> Net(Oth(w, g)[a], theta)]

LEMMA ClosingMeaning ==
  ASSUME NEW w, NEW q, NEW g
  PROVE  ClosingIs(Closing(w, q, g), w, q, g, Throttle(w, q, g))
<1> DEFINE due == [a \in Earners |-> DueInstallments(w, a)]
           binary == Bin(w, q)
           pts == Pts(w, q)
           instal == [a \in Earners |-> InstallmentsGross(due[a])]
           other == Oth(w, g)
           theta == ComputeTheta(Plan.alpha, inflow[w], Projected(binary, pts, instal, other), Plan.scale)
           net == [a \in Earners |-> BinaryNet(q, binary, theta, a)]
           c == [inflows |-> inflow[w],
                 theta   |-> theta,
                 capRead |-> capPaid,
                 blocks  |-> [a \in Earners |-> IF net[a] > 0 THEN NewBlocks(a) ELSE 0],
                 binary  |-> net,
                 points  |-> [a \in Earners |-> PointsNet(pts, theta, a, net[a])],
                 earned  |-> [a \in Earners |-> PointsEarned(binary, theta, a)],
                 rank    |-> [a \in Earners |-> [since |-> RankSince(w, a), settled |-> rank[a].settled \cup due[a],
                                      net |-> InstallmentsNet(due[a], theta)]],
                 other   |-> [a \in Earners |-> Net(other[a], theta)]]
<1>1. Closing(w, q, g) = c
  BY DEF Closing, Bin, Pts, Oth
<1>2. instal = Ins(w)
  <2> HIDE DEF DueInstallments
  <2> QED
    BY DEF Ins
<1>3. theta = Throttle(w, q, g)
  <2> HIDE DEF instal, binary, pts, other
  <2>1. theta = ComputeTheta(Plan.alpha, inflow[w], Projected(binary, pts, Ins(w), other), Plan.scale)
    BY <1>2
  <2> QED
    BY <2>1 DEF Throttle, binary, pts, other
<1>4. [a \in Earners |-> [since |-> RankSince(w, a), settled |-> rank[a].settled \cup due[a],
                          net |-> InstallmentsNet(due[a], theta)]]
       = [a \in Earners |-> [since |-> RankSince(w, a),
                             settled |-> rank[a].settled \cup DueInstallments(w, a),
                             net |-> InstallmentsNet(DueInstallments(w, a), theta)]]
  <2>1. \A a \in Earners : due[a] = DueInstallments(w, a)
    OBVIOUS
  <2> HIDE DEF due, theta
  <2> QED
    BY <2>1
<1> HIDE DEF theta
<1>5. /\ DOMAIN c = {"inflows", "theta", "capRead", "blocks", "binary", "points", "earned", "rank", "other"}
      /\ c.inflows = inflow[w] /\ c.theta = theta /\ c.capRead = capPaid
      /\ c.binary = net
      /\ c.blocks = [a \in Earners |-> IF net[a] > 0 THEN NewBlocks(a) ELSE 0]
      /\ c.points = [a \in Earners |-> PointsNet(pts, theta, a, net[a])]
      /\ c.earned = [a \in Earners |-> PointsEarned(binary, theta, a)]
      /\ c.rank = [a \in Earners |-> [since |-> RankSince(w, a), settled |-> rank[a].settled \cup due[a],
                                      net |-> InstallmentsNet(due[a], theta)]]
      /\ c.other = [a \in Earners |-> Net(other[a], theta)]
  <2> HIDE DEF net, pts, binary, other, due
  <2> QED
    OBVIOUS
<1> HIDE DEF c
<1>6. ClosingIs(c, w, q, g, theta)
  BY <1>4, <1>5 DEF ClosingIs
<1> QED
  BY <1>1, <1>3, <1>6

LEMMA StateAmounts ==
  ASSUME TypeOK, NEW a \in Earners
  PROVE  /\ capPaid[a] \in Nat /\ points[a] \in Nat /\ hist[a] \in Nat
         /\ Matched(a) \in Nat /\ NewBlocks(a) \in Nat /\ CapLeft(a) \in Nat
         /\ \A w \in Weeks : royalty[w][a] \in Nat /\ referral[w][a] \in Nat
<1>1. capPaid[a] \in Nat /\ points[a] \in Nat /\ hist[a] \in Nat
  BY DEF TypeOK, Amounts
<1>2. pv[a] \in [L : Nat, R : Nat]
  BY DEF TypeOK
<1>3. Matched(a) \in Nat
  BY <1>2, LeastOf DEF Matched
<1>4. Matched(a) \div Plan.blockSize \in Nat
  BY <1>3, Constants, QuotientOf
<1>5. NewBlocks(a) \in Nat
  BY <1>1, <1>4, MinusOf DEF NewBlocks
<1>6. CapLeft(a) \in Nat
  BY <1>1, PlanAmounts, MinusOf DEF CapLeft
<1>7. \A w \in Weeks : royalty[w][a] \in Nat /\ referral[w][a] \in Nat
  BY DEF TypeOK, Amounts
<1> QED
  BY <1>1, <1>3, <1>5, <1>6, <1>7

LEMMA BinAmount ==
  ASSUME TypeOK, NEW w, NEW q, NEW a \in Earners
  PROVE  Bin(w, q)[a] \in Nat /\ Bin(w, q)[a] <= Plan.periodCap /\ Bin(w, q)[a] <= CapLeft(a)
<1> DEFINE x == NewBlocks(a) * Plan.bonusPerBlock
           y == Least(x, Plan.periodCap)
<1>1. x \in Nat /\ Plan.periodCap \in Nat /\ CapLeft(a) \in Nat
  BY StateAmounts, PlanAmounts, ProductOf
<1> HIDE DEF x
<1>2. y \in Nat /\ y <= Plan.periodCap
  BY <1>1, LeastOf
<1> HIDE DEF y
<1>3. Least(y, CapLeft(a)) \in Nat /\ Least(y, CapLeft(a)) <= y /\ Least(y, CapLeft(a)) <= CapLeft(a)
  BY <1>1, <1>2, LeastOf
<1>4. Bin(w, q)[a] = Least(y, CapLeft(a)) \/ Bin(w, q)[a] = 0
  BY DEF Bin, BinaryGross, x, y
<1> QED
  BY <1>1, <1>2, <1>3, <1>4

LEMMA PtsAmount ==
  ASSUME TypeOK, NEW w, NEW q, NEW a \in Earners
  PROVE  Pts(w, q)[a] \in Nat /\ Bin(w, q)[a] + Pts(w, q)[a] <= Plan.periodCap
<1> DEFINE x == points[a] * Plan.dollarsPerPoint
           m == PeriodCapLeft(Bin(w, q)[a])
           y == Least(x, m)
<1>1. x \in Nat /\ Plan.periodCap \in Nat /\ CapLeft(a) \in Nat
  BY StateAmounts, PlanAmounts, ProductOf
<1>2. Bin(w, q)[a] \in Nat /\ Bin(w, q)[a] <= Plan.periodCap
  BY BinAmount
<1>3. m \in Nat /\ Bin(w, q)[a] + m = Plan.periodCap
  BY <1>1, <1>2, MinusOf DEF PeriodCapLeft
<1> HIDE DEF x, m
<1>4. y \in Nat /\ y <= m
  BY <1>1, <1>3, LeastOf
<1> HIDE DEF y
<1>5. Least(y, CapLeft(a)) \in Nat /\ Least(y, CapLeft(a)) <= y
  BY <1>1, <1>4, LeastOf
<1>6. Pts(w, q)[a] = Least(y, CapLeft(a)) \/ Pts(w, q)[a] = 0
  BY DEF Pts, PointsGross, x, m, y
<1> QED
  BY <1>2, <1>3, <1>4, <1>5, <1>6

LEMMA DueIsFinite ==
  ASSUME NEW w, NEW a
  PROVE  /\ DueInstallments(w, a) \subseteq 1..Plan.rankInstallments
         /\ IsFiniteSet(DueInstallments(w, a))
<1>1. DueInstallments(w, a) \subseteq 1..Plan.rankInstallments
  BY DEF DueInstallments
<1>2. IsFiniteSet(1..Plan.rankInstallments)
  <2>1. 1 \in Int /\ Plan.rankInstallments \in Int
    BY Constants
  <2> QED
    BY <2>1, FS_Interval
<1> QED
  BY <1>1, <1>2, FS_Subset

LEMMA InsAmount ==
  ASSUME NEW w, NEW a \in Earners
  PROVE  Ins(w)[a] \in Nat
<1> DEFINE due == DueInstallments(w, a)
           f == [i \in due |-> Installment(i)]
<1>1. due \subseteq 1..Plan.rankInstallments /\ IsFiniteSet(due)
  BY DueIsFinite
<1> HIDE DEF due
<1>2. \A i \in due : f[i] \in Nat
  BY <1>1, InstallmentOf
<1> HIDE DEF f
<1>3. SumFunctionOnSet(f, due) \in Nat
  BY <1>1, <1>2, SumNat
<1> QED
  BY <1>3 DEF Ins, InstallmentsGross, f, due

LEMMA OthAmount ==
  ASSUME TypeOK, NEW w \in Weeks, NEW g, NEW a \in Earners
  PROVE  Oth(w, g)[a] \in Nat
<1>1. royalty[w][a] \in Nat /\ referral[w][a] \in Nat /\ Plan.yieldGross \in Nat
  BY StateAmounts, PlanAmounts
<1> QED
  BY <1>1 DEF Oth, OtherGross

LEMMA ThrottleOf ==
  ASSUME TypeOK, NEW w \in Weeks, NEW q, NEW g
  PROVE  LET gross == SumFunctionOnSet([a \in Earners |-> Bin(w, q)[a] + Pts(w, q)[a] + Ins(w)[a] + Oth(w, g)[a]],
                                       Earners) IN
         /\ Throttle(w, q, g) \in Theta /\ inflow[w] \in Nat /\ gross \in Nat
         /\ 100 * gross * Throttle(w, q, g) <= Plan.alpha * inflow[w] * Plan.scale
<1> DEFINE f == [a \in Earners |-> Bin(w, q)[a] + Pts(w, q)[a] + Ins(w)[a] + Oth(w, g)[a]]
           gross == SumFunctionOnSet(f, Earners)
<1>1. \A a \in Earners : f[a] \in Nat
  BY BinAmount, PtsAmount, InsAmount, OthAmount
<1>2. Throttle(w, q, g) = ComputeTheta(Plan.alpha, inflow[w], gross, Plan.scale)
  BY DEF Throttle, Projected
<1> HIDE DEF f
<1>3. gross \in Nat
  BY <1>1, ConstantsAssumption, SumNat
<1>4. inflow[w] \in Nat /\ Plan.alpha \in Nat /\ Plan.scale \in Nat \ {0}
  BY PlanAmounts DEF TypeOK
<1> HIDE DEF gross
<1> DEFINE theta == ComputeTheta(Plan.alpha, inflow[w], gross, Plan.scale)
<1>a. theta \in 0..Plan.scale /\ 100 * gross * theta <= Plan.alpha * inflow[w] * Plan.scale
  BY <1>3, <1>4, ThetaWithinTreasury
<1> HIDE DEF theta
<1>5. Throttle(w, q, g) \in Theta /\ 100 * gross * Throttle(w, q, g) <= Plan.alpha * inflow[w] * Plan.scale
  <2>1. Throttle(w, q, g) = theta
    BY <1>2 DEF theta
  <2> QED
    BY <1>a, <2>1 DEF Theta
<1> QED
  BY <1>3, <1>4, <1>5 DEF gross, f

LEMMA InsNet ==
  ASSUME NEW w, NEW a \in Earners, NEW theta \in Theta
  PROVE  /\ InstallmentsNet(DueInstallments(w, a), theta) \in Nat
         /\ Plan.scale * InstallmentsNet(DueInstallments(w, a), theta) <= theta * Ins(w)[a]
<1> DEFINE due == DueInstallments(w, a)
           f == [i \in due |-> Installment(i)]
           n == [i \in due |-> Net(Installment(i), theta)]
           sf == [i \in due |-> theta * f[i]]
           sn == [i \in due |-> Plan.scale * n[i]]
<1>1. due \subseteq 1..Plan.rankInstallments /\ IsFiniteSet(due)
  BY DueIsFinite
<1>2. theta \in Nat /\ Plan.scale \in Nat
  BY PlanAmounts DEF Theta
<1> HIDE DEF due
<1>3. ASSUME NEW i \in due
      PROVE  f[i] \in Nat /\ n[i] \in Nat /\ Plan.scale * n[i] <= theta * f[i]
  <2>1. Installment(i) \in Nat
    BY <1>1, InstallmentOf
  <2>2. Net(Installment(i), theta) \in Nat /\ Plan.scale * Net(Installment(i), theta) <= theta * Installment(i)
    BY <2>1, NetAmount
  <2> QED
    BY <2>1, <2>2
<1> HIDE DEF f, n
<1>4. \A i \in due : /\ f[i] \in Int /\ n[i] \in Int /\ sf[i] = theta * f[i] /\ sn[i] = Plan.scale * n[i]
                     /\ sf[i] \in Int /\ sn[i] \in Int /\ sn[i] <= sf[i]
  BY <1>2, <1>3, ProductOf
<1> HIDE DEF sf, sn
<1>5. SumFunctionOnSet(n, due) \in Nat
  BY <1>1, <1>3, SumNat
<1>6. SumFunctionOnSet(sf, due) = theta * SumFunctionOnSet(f, due)
  <2>1. theta \in Int
    BY <1>2
  <2> QED
    BY <1>1, <1>4, <2>1, SumScaled
<1>7. SumFunctionOnSet(sn, due) = Plan.scale * SumFunctionOnSet(n, due)
  <2>1. Plan.scale \in Int
    BY <1>2
  <2> QED
    BY <1>1, <1>4, <2>1, SumScaled
<1>8. SumFunctionOnSet(sn, due) <= SumFunctionOnSet(sf, due)
  BY <1>1, <1>4, SumWithin
<1>9. /\ SumFunctionOnSet(n, due) \in Nat
      /\ Plan.scale * SumFunctionOnSet(n, due) <= theta * SumFunctionOnSet(f, due)
  BY <1>5, <1>6, <1>7, <1>8
<1>10. /\ InstallmentsNet(DueInstallments(w, a), theta) = SumFunctionOnSet(n, due)
       /\ Ins(w)[a] = SumFunctionOnSet(f, due)
  BY DEF InstallmentsNet, Ins, InstallmentsGross, n, f, due
<1> QED
  BY <1>9, <1>10

\* The binary of an earner, under theta and the reduction.
LEMMA BinNet ==
  ASSUME TypeOK, NEW w, NEW q, NEW theta \in Theta, NEW a \in Earners
  PROVE  LET n == BinaryNet(q, Bin(w, q), theta, a) IN
         n \in Nat /\ n <= Bin(w, q)[a] /\ Plan.scale * n <= theta * Bin(w, q)[a]
<1> DEFINE x == Bin(w, q)[a]
           n == BinaryNet(q, Bin(w, q), theta, a)
<1>1. x \in Nat
  BY BinAmount
<1> HIDE DEF x
<1>2. Net(x, theta) \in Nat /\ Net(x, theta) <= x
      /\ \A y \in Nat : y <= Net(x, theta) => Plan.scale * y <= theta * x
  BY <1>1, NetAmount
<1>3. Plan.reduction \in Nat /\ Plan.reduction <= 100
  BY PlanAmounts
<1>4. Percent(Plan.reduction, Net(x, theta)) \in Nat
      /\ Percent(Plan.reduction, Net(x, theta)) <= Net(x, theta)
  BY <1>2, <1>3, PercentOf
<1>5. n = Net(x, theta) \/ n = Percent(Plan.reduction, Net(x, theta))
  BY DEF BinaryNet, x
<1> HIDE DEF n
<1>6. n \in Nat /\ n <= Net(x, theta)
  BY <1>2, <1>4, <1>5
<1>7. n \in Nat /\ n <= x /\ Plan.scale * n <= theta * x
  BY <1>1, <1>2, <1>6
<1> QED
  BY <1>7 DEF n, x

\* The points of an earner, under theta and what the binary left of the package cap.
LEMMA PtsNet ==
  ASSUME TypeOK, NEW w, NEW q, NEW theta \in Theta, NEW a \in Earners,
         NEW n \in Nat, n <= CapLeft(a)
  PROVE  LET p == PointsNet(Pts(w, q), theta, a, n) IN
         /\ p \in Nat /\ p <= Pts(w, q)[a] /\ Plan.scale * p <= theta * Pts(w, q)[a]
         /\ n + p <= CapLeft(a)
<1> DEFINE x == Pts(w, q)[a]
           m == CapLeftAfter(a, n)
           p == PointsNet(Pts(w, q), theta, a, n)
<1>1. x \in Nat /\ CapLeft(a) \in Nat
  BY PtsAmount, StateAmounts
<1> HIDE DEF x
<1>2. Net(x, theta) \in Nat /\ Net(x, theta) <= x
      /\ \A y \in Nat : y <= Net(x, theta) => Plan.scale * y <= theta * x
  BY <1>1, NetAmount
<1>3. m \in Nat /\ n + m = CapLeft(a)
  BY <1>1, MinusOf DEF CapLeftAfter
<1>4. p = Least(Net(x, theta), m)
  BY DEF PointsNet, x
<1> HIDE DEF m, p
<1>5. p \in Nat /\ p <= Net(x, theta) /\ p <= m
  BY <1>2, <1>3, <1>4, LeastOf
<1>6. /\ p \in Nat /\ p <= x /\ Plan.scale * p <= theta * x
      /\ n + p <= CapLeft(a)
  BY <1>1, <1>2, <1>3, <1>5
<1> QED
  BY <1>6 DEF p, x

LEMMA DistributeFour ==
  ASSUME NEW s \in Nat, NEW t \in Nat,
         NEW a \in Nat, NEW b \in Nat, NEW c \in Nat, NEW d \in Nat,
         NEW e \in Nat, NEW f \in Nat, NEW g \in Nat, NEW h \in Nat,
         s * a <= t * e, s * b <= t * f, s * c <= t * g, s * d <= t * h
  PROVE  s * (a + b + c + d) <= t * (e + f + g + h)
<1>1. s * (a + b + c + d) = s * a + s * b + s * c + s * d
  OBVIOUS
<1>2. t * (e + f + g + h) = t * e + t * f + t * g + t * h
  OBVIOUS
<1>3. /\ s * a \in Nat /\ s * b \in Nat /\ s * c \in Nat /\ s * d \in Nat
      /\ t * e \in Nat /\ t * f \in Nat /\ t * g \in Nat /\ t * h \in Nat
  BY ProductOf
<1>4. s * a + s * b + s * c + s * d <= t * e + t * f + t * g + t * h
  BY <1>3
<1> QED
  BY <1>1, <1>2, <1>4

\* What a closing pays one earner: within the period cap, within what is left of the
\* package cap, and no more than theta of what was projected.
LEMMA EarnerPaid ==
  ASSUME TypeOK, NEW w \in Weeks, NEW q, NEW g, NEW a \in Earners
  PROVE  LET c == Closing(w, q, g) IN
         /\ c.binary[a] \in Nat /\ c.points[a] \in Nat /\ c.rank[a].net \in Nat /\ c.other[a] \in Nat
         /\ c.binary[a] + c.points[a] <= Plan.periodCap
         /\ c.binary[a] + c.points[a] <= CapLeft(a)
         /\ Plan.scale * (c.binary[a] + c.points[a] + c.rank[a].net + c.other[a])
              <= c.theta * (Bin(w, q)[a] + Pts(w, q)[a] + Ins(w)[a] + Oth(w, g)[a])
<1> DEFINE c == Closing(w, q, g)
           theta == Throttle(w, q, g)
           n == BinaryNet(q, Bin(w, q), theta, a)
           p == PointsNet(Pts(w, q), theta, a, n)
           r == InstallmentsNet(DueInstallments(w, a), theta)
           o == Net(Oth(w, g)[a], theta)
<1>1. c.theta = theta /\ c.binary[a] = n /\ c.points[a] = p /\ c.rank[a].net = r /\ c.other[a] = o
  <2>1. ClosingIs(c, w, q, g, theta)
    BY ClosingMeaning
  <2> HIDE DEF c, theta
  <2>2. c.binary[a] = n
    BY <2>1 DEF ClosingIs
  <2> HIDE DEF n
  <2> QED
    BY <2>1, <2>2 DEF ClosingIs
<1>2. theta \in Theta
  BY ThrottleOf
<1>3. Plan.scale \in Nat /\ theta \in Nat
  BY <1>2, PlanAmounts DEF Theta
<1> HIDE DEF theta, c
<1>4. n \in Nat /\ n <= Bin(w, q)[a] /\ Plan.scale * n <= theta * Bin(w, q)[a]
  BY <1>2, BinNet
<1>5. Bin(w, q)[a] \in Nat /\ Bin(w, q)[a] <= CapLeft(a) /\ CapLeft(a) \in Nat
  BY BinAmount, StateAmounts
<1>6. Pts(w, q)[a] \in Nat /\ Bin(w, q)[a] + Pts(w, q)[a] <= Plan.periodCap /\ Plan.periodCap \in Nat
  BY PtsAmount, PlanAmounts
<1>7. Ins(w)[a] \in Nat /\ Oth(w, g)[a] \in Nat
  BY InsAmount, OthAmount
<1> HIDE DEF n
<1>8. n <= CapLeft(a)
  BY <1>4, <1>5
<1>9. /\ p \in Nat /\ p <= Pts(w, q)[a] /\ Plan.scale * p <= theta * Pts(w, q)[a]
      /\ n + p <= CapLeft(a)
  BY <1>2, <1>4, <1>8, PtsNet
<1>10. r \in Nat /\ Plan.scale * r <= theta * Ins(w)[a]
  BY <1>2, InsNet
<1>11. o \in Nat /\ Plan.scale * o <= theta * Oth(w, g)[a]
  BY <1>2, <1>7, NetAmount
<1> HIDE DEF p, r, o
<1>12. n + p <= Plan.periodCap
  BY <1>4, <1>5, <1>6, <1>9
<1>13. Plan.scale * (n + p + r + o) <= theta * (Bin(w, q)[a] + Pts(w, q)[a] + Ins(w)[a] + Oth(w, g)[a])
  BY <1>3, <1>4, <1>5, <1>6, <1>7, <1>9, <1>10, <1>11, DistributeFour
<1> QED
  BY <1>1, <1>4, <1>9, <1>10, <1>11, <1>12, <1>13 DEF c

-----------------------------------------------------------------------------
(* The throttle and the type of a closing.                                  *)

\* The throttle: what all the streams of a closing pay together is within the treasury's
\* share of the inflows of the period.
LEMMA ClosingWithinTreasury ==
  ASSUME TypeOK, NEW w \in Weeks, NEW q, NEW g
  PROVE  LET c == Closing(w, q, g) IN
         100 * SumFunctionOnSet([a \in Earners |-> c.binary[a] + c.points[a] + c.rank[a].net + c.other[a]], Earners)
           <= Plan.alpha * inflow[w]
<1> DEFINE c == Closing(w, q, g)
           theta == Throttle(w, q, g)
           pay == [a \in Earners |-> c.binary[a] + c.points[a] + c.rank[a].net + c.other[a]]
           gross == [a \in Earners |-> Bin(w, q)[a] + Pts(w, q)[a] + Ins(w)[a] + Oth(w, g)[a]]
           sp == [a \in Earners |-> Plan.scale * pay[a]]
           tg == [a \in Earners |-> theta * gross[a]]
           P == SumFunctionOnSet(pay, Earners)
           G == SumFunctionOnSet(gross, Earners)
<1>1. c.theta = theta
  <2>1. ClosingIs(c, w, q, g, theta)
    BY ClosingMeaning
  <2> HIDE DEF c, theta
  <2> QED
    BY <2>1 DEF ClosingIs
<1>2. /\ theta \in Theta /\ inflow[w] \in Nat /\ G \in Nat
      /\ 100 * G * theta <= Plan.alpha * inflow[w] * Plan.scale
  BY ThrottleOf
<1>3. Plan.scale \in Nat \ {0} /\ theta \in Nat /\ Plan.alpha \in Nat /\ IsFiniteSet(Earners)
  BY <1>2, PlanAmounts, ConstantsAssumption DEF Theta
<1>4. ASSUME NEW a \in Earners
      PROVE  pay[a] \in Nat /\ gross[a] \in Nat /\ Plan.scale * pay[a] <= theta * gross[a]
  <2>1. /\ c.binary[a] \in Nat /\ c.points[a] \in Nat /\ c.rank[a].net \in Nat /\ c.other[a] \in Nat
        /\ Plan.scale * (c.binary[a] + c.points[a] + c.rank[a].net + c.other[a])
             <= c.theta * (Bin(w, q)[a] + Pts(w, q)[a] + Ins(w)[a] + Oth(w, g)[a])
    BY EarnerPaid
  <2>2. Bin(w, q)[a] \in Nat /\ Pts(w, q)[a] \in Nat /\ Ins(w)[a] \in Nat /\ Oth(w, g)[a] \in Nat
    BY BinAmount, PtsAmount, InsAmount, OthAmount
  <2> HIDE DEF c, theta
  <2> QED
    BY <1>1, <2>1, <2>2
<1> HIDE DEF pay, gross, theta
<1>5. \A a \in Earners : /\ sp[a] = Plan.scale * pay[a] /\ tg[a] = theta * gross[a]
                         /\ sp[a] \in Int /\ tg[a] \in Int /\ sp[a] <= tg[a]
  BY <1>3, <1>4, ProductOf
<1> HIDE DEF sp, tg
<1>6. P \in Nat
  BY <1>3, <1>4, SumNat
<1>7. SumFunctionOnSet(sp, Earners) = Plan.scale * P
  <2>1. Plan.scale \in Int /\ \A a \in Earners : pay[a] \in Int
    BY <1>3, <1>4
  <2> QED
    BY <1>3, <1>5, <2>1, SumScaled
<1>8. SumFunctionOnSet(tg, Earners) = theta * G
  <2>1. theta \in Int /\ \A a \in Earners : gross[a] \in Int
    BY <1>3, <1>4
  <2> QED
    BY <1>3, <1>5, <2>1, SumScaled
<1>9. SumFunctionOnSet(sp, Earners) <= SumFunctionOnSet(tg, Earners)
  BY <1>3, <1>5, SumWithin
<1> HIDE DEF P, G
<1>10. Plan.scale * P <= theta * G
  BY <1>7, <1>8, <1>9
<1>11. Plan.alpha * inflow[w] \in Nat
  BY <1>2, <1>3, ProductOf
<1>12. 100 * P <= Plan.alpha * inflow[w]
  BY <1>2, <1>3, <1>6, <1>10, <1>11, Throttled
<1> QED
  BY <1>12 DEF P, pay, c

\* What a closing computes has its type.
LEMMA ClosingTyped ==
  ASSUME TypeOK, NEW w \in Weeks, NEW q, NEW g
  PROVE  Closing(w, q, g) \in PlanOfClosing
<1> DEFINE c == Closing(w, q, g)
           theta == Throttle(w, q, g)
<1>1. ClosingIs(c, w, q, g, theta)
  BY ClosingMeaning
<1>2. theta \in Theta /\ inflow[w] \in Nat /\ capPaid \in Amounts
  BY ThrottleOf DEF TypeOK
<1>3. \A a \in Earners : c.binary[a] \in Nat /\ c.points[a] \in Nat /\ c.rank[a].net \in Nat /\ c.other[a] \in Nat
  BY EarnerPaid
<1> HIDE DEF c, theta
<1>4. c.binary \in Amounts /\ c.points \in Amounts /\ c.other \in Amounts
  BY <1>1, <1>3 DEF ClosingIs, Amounts
<1>5. c.blocks \in Amounts
  BY <1>1, StateAmounts DEF ClosingIs, Amounts
<1>6. c.earned \in Amounts
  <2>1. ASSUME NEW a \in Earners PROVE PointsEarned(Bin(w, q), theta, a) \in Nat
    <3>1. NewBlocks(a) * theta \in Nat
      BY <1>2, PlanAmounts, StateAmounts, ProductOf DEF Theta
    <3>2. (NewBlocks(a) * theta) \div Plan.scale \in Nat
      BY <3>1, PlanAmounts, QuotientOf
    <3>3. ((NewBlocks(a) * theta) \div Plan.scale) * Plan.pointsPerBlock \in Nat
      BY <3>2, PlanAmounts, ProductOf
    <3> QED
      BY <3>3 DEF PointsEarned
  <2> QED
    BY <1>1, <2>1 DEF ClosingIs, Amounts
<1>7. c.rank \in [Earners -> [since : {0} \cup Weeks, settled : SUBSET (1..Plan.rankInstallments), net : Nat]]
  <2>1. ASSUME NEW a \in Earners
        PROVE  /\ RankSince(w, a) \in {0} \cup Weeks
               /\ rank[a].settled \cup DueInstallments(w, a) \in SUBSET (1..Plan.rankInstallments)
               /\ InstallmentsNet(DueInstallments(w, a), theta) \in Nat
    <3>1. rank[a] \in RankRecord
      BY DEF TypeOK
    <3>2. rank[a].since \in {0} \cup Weeks /\ rank[a].settled \subseteq 1..Plan.rankInstallments
      BY <3>1 DEF RankRecord
    <3>3. DueInstallments(w, a) \subseteq 1..Plan.rankInstallments
      BY DueIsFinite
    <3>4. InstallmentsNet(DueInstallments(w, a), theta) \in Nat
      BY <1>2, InsNet
    <3> QED
      BY <3>2, <3>3, <3>4 DEF RankSince
  <2>2. c.rank = [a \in Earners |-> [since |-> RankSince(w, a),
                                     settled |-> rank[a].settled \cup DueInstallments(w, a),
                                     net |-> InstallmentsNet(DueInstallments(w, a), theta)]]
    BY <1>1 DEF ClosingIs
  <2> QED
    BY <2>1, <2>2
<1>8. c.inflows \in Nat /\ c.theta \in Theta /\ c.capRead \in Amounts
  BY <1>1, <1>2 DEF ClosingIs
<1>9. c = [inflows |-> c.inflows, theta |-> c.theta, capRead |-> c.capRead, blocks |-> c.blocks,
           binary |-> c.binary, points |-> c.points, earned |-> c.earned, rank |-> c.rank, other |-> c.other]
  BY DEF c, Closing
<1> QED
  BY <1>4, <1>5, <1>6, <1>7, <1>8, <1>9 DEF PlanOfClosing, c

-----------------------------------------------------------------------------
(* Types.                                                                  *)

\* The ROI of a CD has never been accrued for days to come.
RoiPast == \A a \in Earners : roi[a].last <= week

LEMMA TypeParts ==
  TypeOK =>
    /\ week \in Weeks
    /\ \A w \in Weeks : inflow[w] \in Nat
    /\ \A w \in Weeks : period[w] \in [status : {"none", "open", "closed"}, inflows : Nat, theta : Theta]
    /\ \A a \in Earners : roi[a] \in [last : Weeks, total : Nat]
    /\ \A b \in Boxes : job[b] \in [pc : {"idle", "close", "lock", "pay", "next"},
                                    todo : SUBSET Weeks, plan : PlanOfClosing]
  BY DEF TypeOK

LEMMA PlusTyped ==
  ASSUME NEW f \in Amounts, NEW g \in Amounts
  PROVE  Plus(f, g) \in Amounts
  BY DEF Plus, Amounts

LEMMA CommissionTyped ==
  ASSUME NEW rate \in Nat, NEW e
  PROVE  Commission(rate, e) \in Amounts
<1>1. Percent(rate, Plan.price) \in Nat
  BY PlanAmounts, PercentOf
<1> QED
  BY <1>1 DEF Commission, Amounts

\* A plan that pays nothing.
LEMMA NoPlanTyped ==
  NoPlan \in PlanOfClosing /\ Idle.plan = NoPlan /\ Idle.todo = {} /\ Idle.pc = "idle"
<1>1. NoPay \in Amounts
  BY DEF NoPay, Amounts
<1>2. 0 \in Theta
  BY PlanAmounts DEF Theta
<1>3. [a \in Earners |-> [since |-> 0, settled |-> {}, net |-> 0]]
        \in [Earners -> [since : {0} \cup Weeks, settled : SUBSET (1..Plan.rankInstallments), net : Nat]]
  OBVIOUS
<1>4. NoPlan \in PlanOfClosing
  BY <1>1, <1>2, <1>3 DEF NoPlan, PlanOfClosing
<1> HIDE DEF NoPlan
<1> QED
  BY <1>4 DEF Idle

LEMMA InitTypeOK == Init => TypeOK /\ RoiPast
<1> SUFFICES ASSUME Init PROVE TypeOK /\ RoiPast
  OBVIOUS
<1>1. week \in Weeks /\ sold \in Nat /\ 1 \in Weeks
  BY Constants DEF Init
<1>2. NoPay \in Amounts /\ 0 \in Theta
  BY PlanAmounts DEF NoPay, Amounts, Theta
<1>3. /\ pv \in [Earners -> [L : Nat, R : Nat]]
      /\ inflow \in [Weeks -> Nat]
      /\ touched \in [Weeks -> SUBSET Earners]
  BY DEF Init
<1>4. referral \in [Weeks -> Amounts] /\ royalty \in [Weeks -> Amounts]
  BY <1>2 DEF Init
<1>5. period \in [Weeks -> [status : {"none", "open", "closed"}, inflows : Nat, theta : Theta]]
  BY <1>2 DEF Init
<1>6. hist \in Amounts /\ points \in Amounts /\ capPaid \in Amounts
  BY <1>2 DEF Init
<1>7. rank \in [Earners -> RankRecord]
  BY DEF Init, RankRecord
<1>8. roi \in [Earners -> [last : Weeks, total : Nat]] /\ RoiPast
  BY <1>1 DEF Init, RoiPast
<1>9. paid \in [Weeks -> [Earners -> Payment]]
  BY DEF Init, Payment
<1>10. adv \in [Weeks -> Boxes \cup {None}]
  BY DEF Init
<1>11. job \in [Boxes -> [pc : {"idle", "close", "lock", "pay", "next"},
                          todo : SUBSET Weeks, plan : PlanOfClosing]]
  <2>1. Idle \in [pc : {"idle", "close", "lock", "pay", "next"}, todo : SUBSET Weeks, plan : PlanOfClosing]
    <3> HIDE DEF NoPlan
    <3> QED
      BY NoPlanTyped DEF Idle
  <2> QED
    BY <2>1 DEF Init
<1> QED
  BY <1>1, <1>3, <1>4, <1>5, <1>6, <1>7, <1>8, <1>9, <1>10, <1>11 DEF TypeOK

\* What the types of the boxes ask of a step of one of them.
JobType == [pc : {"idle", "close", "lock", "pay", "next"}, todo : SUBSET Weeks, plan : PlanOfClosing]

LEMMA BoxTyped ==
  ASSUME TypeOK, NEW b \in Boxes, NEW new \in JobType, job' = [job EXCEPT ![b] = new]
  PROVE  job' \in [Boxes -> JobType]
<1>1. job \in [Boxes -> JobType]
  BY DEF TypeOK, JobType
<1> HIDE DEF JobType
<1> QED
  BY <1>1

LEMMA BuyTyped ==
  ASSUME TypeOK, NEW b \in Buyers, NEW w \in Weeks, Buy(b, w)
  PROVE  /\ sold' \in Nat /\ pv' \in [Earners -> [L : Nat, R : Nat]]
         /\ inflow' \in [Weeks -> Nat] /\ touched' \in [Weeks -> SUBSET Earners]
         /\ referral' \in [Weeks -> Amounts] /\ royalty' \in [Weeks -> Amounts]
<1>1. sold' \in Nat
  BY DEF Buy, TypeOK
<1>2. pv' \in [Earners -> [L : Nat, R : Nat]]
  <2>1. Plan.pv \in Nat
    BY Constants
  <2>2. \A a \in Earners : pv[a] \in [L : Nat, R : Nat]
    BY DEF TypeOK
  <2>3. ASSUME NEW a \in Earners
        PROVE  (CASE Leg[b][a] = "L" -> [pv[a] EXCEPT !.L = @ + Plan.pv]
                  [] Leg[b][a] = "R" -> [pv[a] EXCEPT !.R = @ + Plan.pv]
                  [] OTHER -> pv[a]) \in [L : Nat, R : Nat]
    BY <2>1, <2>2
  <2>4. pv' = [a \in Earners |-> CASE Leg[b][a] = "L" -> [pv[a] EXCEPT !.L = @ + Plan.pv]
                                   [] Leg[b][a] = "R" -> [pv[a] EXCEPT !.R = @ + Plan.pv]
                                   [] OTHER -> pv[a]]
    BY DEF Buy
  <2> QED
    BY <2>3, <2>4
<1>3. inflow' \in [Weeks -> Nat]
  <2>1. inflow \in [Weeks -> Nat] /\ Plan.price \in Nat /\ inflow' = [inflow EXCEPT ![w] = @ + Plan.price]
    BY PlanAmounts DEF Buy, TypeOK
  <2> QED
    BY <2>1
<1>4. touched' \in [Weeks -> SUBSET Earners]
  <2>1. /\ touched \in [Weeks -> SUBSET Earners]
        /\ touched' = [touched EXCEPT ![w] = @ \cup {a \in Earners : Leg[b][a] # "none"}]
    BY DEF Buy, TypeOK
  <2> QED
    BY <2>1
<1>5. referral' \in [Weeks -> Amounts] /\ royalty' \in [Weeks -> Amounts]
  <2> DEFINE r == Commission(Plan.referralRate, Sponsor[b].first)
             s == Commission(Plan.royaltyRate, Sponsor[b].second)
  <2>1. r \in Amounts /\ s \in Amounts
    BY PlanAmounts, CommissionTyped
  <2>2. referral' = [referral EXCEPT ![w] = Plus(@, r)] /\ royalty' = [royalty EXCEPT ![w] = Plus(@, s)]
    BY DEF Buy
  <2>3. referral \in [Weeks -> Amounts] /\ royalty \in [Weeks -> Amounts]
    BY DEF TypeOK
  <2> HIDE DEF r, s, Amounts
  <2>4. Plus(referral[w], r) \in Amounts /\ Plus(royalty[w], s) \in Amounts
    BY <2>1, <2>3, PlusTyped
  <2> QED
    BY <2>2, <2>3, <2>4
<1> QED
  BY <1>1, <1>2, <1>3, <1>4, <1>5

\* The ROI of a day is an amount within what is left of the package cap.
LEMMA RoiTyped ==
  ASSUME TypeOK, RoiPast, AccrueCDROIDaily
  PROVE  /\ capPaid' \in Amounts /\ roi' \in [Earners -> [last : Weeks, total : Nat]] /\ RoiPast'
         /\ \A a \in Earners :
              /\ capPaid'[a] - capPaid[a] = roi'[a].total - roi[a].total
              /\ capPaid'[a] - capPaid[a] <= CapLeft(a)
<1> DEFINE gross == [a \in Earners |-> Least((week - roi[a].last) * Plan.roi, CapLeft(a))]
<1>0. week \in Weeks /\ week \in Nat /\ Plan.roi \in Nat /\ Weeks \subseteq Nat
  BY TypeParts, Constants, PlanAmounts
<1>1. ASSUME NEW a \in Earners
      PROVE  /\ gross[a] \in Nat /\ gross[a] <= CapLeft(a)
             /\ roi[a] \in [last : Weeks, total : Nat] /\ capPaid[a] \in Nat /\ CapLeft(a) \in Nat
  <2>1. roi[a] \in [last : Weeks, total : Nat] /\ roi[a].last <= week
    BY TypeParts DEF RoiPast
  <2>a. roi[a].last \in Nat
    BY <1>0, <2>1
  <2>2. week - roi[a].last \in Nat
    BY <1>0, <2>1, <2>a
  <2>3. (week - roi[a].last) * Plan.roi \in Nat
    BY <1>0, <2>2, ProductOf
  <2>4. CapLeft(a) \in Nat /\ capPaid[a] \in Nat
    BY StateAmounts
  <2> QED
    BY <2>1, <2>3, <2>4, LeastOf
<1>2. /\ capPaid' = Plus(capPaid, gross)
      /\ roi' = [a \in Earners |-> IF gross[a] > 0
                             THEN [last |-> week, total |-> roi[a].total + gross[a]]
                             ELSE roi[a]]
      /\ week' = week
  BY DEF AccrueCDROIDaily
<1> HIDE DEF gross
<1>3. capPaid' = [a \in Earners |-> capPaid[a] + gross[a]]
  BY <1>2 DEF Plus
<1>4. capPaid' \in Amounts
  BY <1>1, <1>3 DEF Amounts
<1>5. ASSUME NEW a \in Earners
      PROVE  /\ roi'[a] \in [last : Weeks, total : Nat]
             /\ roi'[a].total = roi[a].total + gross[a]
             /\ roi'[a].last \in {roi[a].last, week}
  BY <1>0, <1>1, <1>2
<1>6. roi' \in [Earners -> [last : Weeks, total : Nat]]
  BY <1>2, <1>5
<1>7. RoiPast'
  BY <1>0, <1>2, <1>5 DEF RoiPast
<1>8. ASSUME NEW a \in Earners
      PROVE  /\ capPaid'[a] - capPaid[a] = roi'[a].total - roi[a].total
             /\ capPaid'[a] - capPaid[a] <= CapLeft(a)
  <2>1. capPaid'[a] = capPaid[a] + gross[a]
    BY <1>3
  <2>2. roi[a].total \in Nat
    BY <1>1
  <2> QED
    BY <1>1, <1>5, <2>1, <2>2
<1> QED
  BY <1>4, <1>6, <1>7, <1>8

LEMMA PlanParts ==
  ASSUME NEW p \in PlanOfClosing
  PROVE  /\ p.inflows \in Nat /\ p.theta \in Theta
         /\ \A a \in Earners :
              /\ p.capRead[a] \in Nat /\ p.blocks[a] \in Nat /\ p.binary[a] \in Nat /\ p.points[a] \in Nat
              /\ p.earned[a] \in Nat /\ p.other[a] \in Nat /\ p.rank[a].net \in Nat
              /\ p.rank[a].since \in {0} \cup Weeks
              /\ p.rank[a].settled \in SUBSET (1..Plan.rankInstallments)
  BY DEF PlanOfClosing, Amounts

\* What the commit of a closing writes.
LEMMA CommitTyped ==
  ASSUME TypeOK, IInv, NEW b \in Boxes, CloseCommit(b)
  PROVE  /\ period' \in [Weeks -> [status : {"none", "open", "closed"}, inflows : Nat, theta : Theta]]
         /\ hist' \in Amounts /\ points' \in Amounts /\ capPaid' \in Amounts
         /\ rank' \in [Earners -> RankRecord]
         /\ paid' \in [Weeks -> [Earners -> Payment]]
         /\ adv' \in [Weeks -> Boxes \cup {None}]
         /\ job' \in [Boxes -> JobType]
<1> DEFINE p == job[b].plan
           w == Turn(b)
<1>1. p \in PlanOfClosing /\ w \in Weeks
  BY TypeParts, CommitFits
<1>2. /\ p.inflows \in Nat /\ p.theta \in Theta
      /\ \A a \in Earners :
           /\ p.capRead[a] \in Nat /\ p.blocks[a] \in Nat /\ p.binary[a] \in Nat /\ p.points[a] \in Nat
           /\ p.earned[a] \in Nat /\ p.other[a] \in Nat /\ p.rank[a].net \in Nat
           /\ p.rank[a].since \in {0} \cup Weeks
           /\ p.rank[a].settled \in SUBSET (1..Plan.rankInstallments)
  BY <1>1, PlanParts
<1>3. /\ period' = [period EXCEPT ![w] = [status |-> "closed", inflows |-> p.inflows, theta |-> p.theta]]
      /\ hist' = [a \in Earners |-> hist[a] + p.blocks[a]]
      /\ capPaid' = [a \in Earners |-> capPaid[a] + p.binary[a] + p.points[a]]
      /\ points' = [a \in Earners |-> PointsAfter(b, a)]
      /\ rank' = [a \in Earners |-> [since |-> p.rank[a].since, settled |-> p.rank[a].settled]]
      /\ paid' = [paid EXCEPT ![w] = [a \in Earners |-> [binary |-> p.binary[a], points |-> p.points[a],
                                                         rank |-> p.rank[a].net, other |-> p.other[a]]]]
      /\ adv' = [adv EXCEPT ![w] = None]
      /\ job' = [job EXCEPT ![b] = [Idle EXCEPT !.pc = "close", !.todo = job[b].todo \ {w}]]
  BY DEF CloseCommit
<1>4. \A a \in Earners : hist[a] \in Nat /\ points[a] \in Nat /\ capPaid[a] \in Nat
  BY StateAmounts
<1>5. hist' \in Amounts
  <2> HIDE DEF p
  <2> QED
    BY <1>2, <1>3, <1>4 DEF Amounts
<1>6. capPaid' \in Amounts
  <2> HIDE DEF p
  <2> QED
    BY <1>2, <1>3, <1>4 DEF Amounts
<1>7. points' \in Amounts
  <2>1. \A a \in Earners : PointsAfter(b, a) \in Nat
    BY <1>2, <1>4 DEF PointsAfter
  <2> QED
    BY <1>3, <2>1 DEF Amounts
<1>8. rank' \in [Earners -> RankRecord]
  <2> HIDE DEF p
  <2> QED
    BY <1>2, <1>3 DEF RankRecord
<1>9. period' \in [Weeks -> [status : {"none", "open", "closed"}, inflows : Nat, theta : Theta]]
  <2>1. period \in [Weeks -> [status : {"none", "open", "closed"}, inflows : Nat, theta : Theta]]
    BY DEF TypeOK
  <2> HIDE DEF p, w
  <2>2. [status |-> "closed", inflows |-> p.inflows, theta |-> p.theta]
          \in [status : {"none", "open", "closed"}, inflows : Nat, theta : Theta]
    BY <1>2
  <2> QED
    BY <1>3, <2>1, <2>2
<1>10. paid' \in [Weeks -> [Earners -> Payment]]
  <2> DEFINE new == [a \in Earners |-> [binary |-> p.binary[a], points |-> p.points[a],
                                        rank |-> p.rank[a].net, other |-> p.other[a]]]
  <2>1. paid \in [Weeks -> [Earners -> Payment]] /\ paid' = [paid EXCEPT ![w] = new]
    BY <1>3 DEF TypeOK
  <2> HIDE DEF p, w
  <2>2. new \in [Earners -> Payment]
    BY <1>2 DEF Payment
  <2> HIDE DEF new
  <2> QED
    BY <2>1, <2>2
<1>11. adv' \in [Weeks -> Boxes \cup {None}]
  BY <1>3 DEF TypeOK
<1>12. job' \in [Boxes -> JobType]
  <2> DEFINE new == [Idle EXCEPT !.pc = "close", !.todo = job[b].todo \ {w}]
  <2>1. new \in JobType
    <3>1. job[b].todo \in SUBSET Weeks
      BY TypeParts
    <3> HIDE DEF NoPlan
    <3> QED
      BY <3>1, NoPlanTyped DEF Idle, JobType
  <2> HIDE DEF new
  <2> QED
    BY <1>3, <2>1, BoxTyped DEF new
<1> QED
  BY <1>5, <1>6, <1>7, <1>8, <1>9, <1>10, <1>11, <1>12

\* The steps of a box that write nothing but its own state, the locks and the periods.
LEMMA BoxStepTyped ==
  ASSUME TypeOK, IInv, NEW b \in Boxes,
         CycleStart(b) \/ CloseSnapshot(b) \/ CloseLock(b) \/ CloseFail(b) \/ Crash(b) \/ OpenNext(b)
  PROVE  /\ period' \in [Weeks -> [status : {"none", "open", "closed"}, inflows : Nat, theta : Theta]]
         /\ adv' \in [Weeks -> Boxes \cup {None}]
         /\ job' \in [Boxes -> JobType]
<1>1. job[b] \in JobType /\ job[b].todo \in SUBSET Weeks
  BY TypeParts DEF JobType
<1>2. /\ period \in [Weeks -> [status : {"none", "open", "closed"}, inflows : Nat, theta : Theta]]
      /\ adv \in [Weeks -> Boxes \cup {None}] /\ week \in Weeks
  BY DEF TypeOK
<1>i. Idle \in JobType /\ AfterFailure(b) \in JobType
      /\ \A s \in SUBSET Weeks : [Idle EXCEPT !.pc = "close", !.todo = s] \in JobType
  <2> HIDE DEF NoPlan
  <2> QED
    BY NoPlanTyped DEF Idle, AfterFailure, JobType
<1>3. CASE CycleStart(b)
  <2> DEFINE s == {w \in Weeks : Ended(w)}
             new == [Idle EXCEPT !.pc = "close", !.todo = s]
  <2>1. job' = [job EXCEPT ![b] = new] /\ period' = period /\ adv' = adv
    BY <1>3 DEF CycleStart
  <2>2. s \in SUBSET Weeks
    OBVIOUS
  <2> HIDE DEF s
  <2>3. new \in JobType
    BY <1>i, <2>2
  <2> HIDE DEF new
  <2>4. job' \in [Boxes -> JobType]
    BY <2>1, <2>3, BoxTyped
  <2> QED
    BY <1>2, <2>1, <2>4
<1>4. CASE CloseSnapshot(b)
  <2>1. period' = period /\ adv' = adv
    BY <1>4 DEF CloseSnapshot
  <2>2. CASE period[Turn(b)].status = "closed"
    <3> DEFINE new == [job[b] EXCEPT !.todo = @ \ {Turn(b)}]
    <3>1. job' = [job EXCEPT ![b] = new]
      BY <1>4, <2>2 DEF CloseSnapshot
    <3>2. new \in JobType
      BY <1>1 DEF JobType
    <3> HIDE DEF new
    <3>3. job' \in [Boxes -> JobType]
      BY <3>1, <3>2, BoxTyped
    <3> QED
      BY <1>2, <2>1, <3>3
  <2>3. CASE period[Turn(b)].status # "closed"
    <3>1. PICK q \in [Earners -> Standings], g \in SUBSET Earners :
            job' = [job EXCEPT ![b] = [@ EXCEPT !.pc = "lock", !.plan = Closing(Turn(b), q, g)]]
      BY <1>4, <2>3 DEF CloseSnapshot
    <3> DEFINE c == Closing(Turn(b), q, g)
               new == [job[b] EXCEPT !.pc = "lock", !.plan = c]
    <3>2. job[b].todo # {}
      BY <1>4 DEF CloseSnapshot
    <3>3. Turn(b) \in Weeks
      BY <3>2, TurnIsOldest DEF IInv
    <3>4. c \in PlanOfClosing
      BY <3>3, ClosingTyped
    <3>5. job' = [job EXCEPT ![b] = new]
      BY <3>1
    <3> HIDE DEF c
    <3>6. new \in JobType
      BY <1>1, <3>4 DEF JobType
    <3> HIDE DEF new
    <3>7. job' \in [Boxes -> JobType]
      BY <3>5, <3>6, BoxTyped
    <3> QED
      BY <1>2, <2>1, <3>7
  <2> QED
    BY <2>2, <2>3
<1>5. CASE CloseLock(b)
  <2> DEFINE lock == [job[b] EXCEPT !.pc = "pay"]
             leave == [job[b] EXCEPT !.pc = "next"]
  <2>1. lock \in JobType /\ leave \in JobType
    BY <1>1 DEF JobType
  <2>2. /\ period' = period
        /\ \/ adv' = [adv EXCEPT ![Turn(b)] = b] /\ job' = [job EXCEPT ![b] = lock]
           \/ adv' = adv /\ job' = [job EXCEPT ![b] = leave]
    BY <1>5 DEF CloseLock, GoTo
  <2> HIDE DEF lock, leave
  <2>3. job' \in [Boxes -> JobType]
    BY <2>1, <2>2, BoxTyped
  <2> QED
    BY <1>2, <2>2, <2>3
<1>6. CASE CloseFail(b) \/ Crash(b)
  <2> DEFINE failed == AfterFailure(b)
  <2>1. /\ period' = period /\ adv' = Free(b)
        /\ job' = [job EXCEPT ![b] = failed] \/ job' = [job EXCEPT ![b] = Idle]
    BY <1>6 DEF CloseFail, Crash
  <2>2. Free(b) \in [Weeks -> Boxes \cup {None}]
    BY <1>2 DEF Free
  <2> HIDE DEF failed
  <2>3. job' \in [Boxes -> JobType]
    BY <1>i, <2>1, BoxTyped DEF failed
  <2> QED
    BY <1>2, <2>1, <2>2, <2>3
<1>7. CASE OpenNext(b)
  <2>1. /\ adv' = adv /\ job' = [job EXCEPT ![b] = Idle]
        /\ period' = period \/ period' = [period EXCEPT ![week].status = "open"]
    BY <1>7 DEF OpenNext
  <2>2. job' \in [Boxes -> JobType]
    BY <1>i, <2>1, BoxTyped
  <2>3. period' \in [Weeks -> [status : {"none", "open", "closed"}, inflows : Nat, theta : Theta]]
    BY <1>2, <2>1
  <2> QED
    BY <1>2, <2>1, <2>2, <2>3
<1> QED
  BY <1>3, <1>4, <1>5, <1>6, <1>7

LEMMA TypeKept ==
  ASSUME TypeOK, RoiPast, IInv, [Next]_vars
  PROVE  TypeOK' /\ RoiPast'
<1> DEFINE P == TypeOK' /\ RoiPast'
<1>r. week' = week /\ roi' = roi => RoiPast'
  BY DEF RoiPast
<1>1. AccrueCDROIDaily \/ UNCHANGED vars => P
  <2>1. UNCHANGED vars => P
    BY DEF vars, salesVars, payVars, TypeOK, RoiPast
  <2>2. ASSUME AccrueCDROIDaily PROVE P
    <3>1. UNCHANGED <<week, salesVars, period, hist, points, rank, paid, adv, job>>
      BY <2>2 DEF AccrueCDROIDaily
    <3>2. capPaid' \in Amounts /\ roi' \in [Earners -> [last : Weeks, total : Nat]] /\ RoiPast'
      BY <2>2, RoiTyped
    <3> QED
      BY <3>1, <3>2 DEF TypeOK, salesVars
  <2> QED
    BY <2>1, <2>2
<1>2. Tick => P
  <2> SUFFICES ASSUME Tick PROVE P
    OBVIOUS
  <2>1. week' = week + 1 /\ week' \in Weeks /\ UNCHANGED <<salesVars, period, payVars, roi, adv, job>>
    BY StepTick DEF Tick, IInv
  <2>2. RoiPast'
    <3> SUFFICES ASSUME NEW a \in Earners PROVE roi[a].last <= week + 1
      BY <2>1 DEF RoiPast
    <3>1. roi[a].last \in Weeks /\ week \in Weeks /\ roi[a].last <= week
      BY TypeParts DEF RoiPast
    <3>2. roi[a].last \in Nat /\ week \in Nat
      BY <3>1, Constants
    <3> QED
      BY <3>1, <3>2
  <2> QED
    BY <2>1, <2>2 DEF TypeOK, salesVars, payVars
<1>3. ASSUME NEW b \in Buyers, NEW w \in Weeks, Buy(b, w) PROVE P
  <2>1. UNCHANGED <<week, period, payVars, roi, adv, job>>
    BY <1>3 DEF Buy
  <2> QED
    BY <1>3, <1>r, <2>1, BuyTyped DEF TypeOK, payVars
<1>4. ASSUME NEW b \in Boxes,
             CycleStart(b) \/ CloseSnapshot(b) \/ CloseLock(b) \/ CloseFail(b) \/ Crash(b) \/ OpenNext(b)
      PROVE  P
  <2>1. UNCHANGED <<week, salesVars, payVars, roi>>
    BY <1>4 DEF CycleStart, CloseSnapshot, CloseLock, CloseFail, Crash, OpenNext
  <2>2. /\ period' \in [Weeks -> [status : {"none", "open", "closed"}, inflows : Nat, theta : Theta]]
        /\ adv' \in [Weeks -> Boxes \cup {None}]
        /\ job' \in [Boxes -> JobType]
    BY <1>4, BoxStepTyped
  <2> QED
    BY <1>r, <2>1, <2>2 DEF TypeOK, JobType, salesVars, payVars
<1>5. ASSUME NEW b \in Boxes, CloseCommit(b) PROVE P
  <2>1. UNCHANGED <<week, salesVars, roi>>
    BY <1>5 DEF CloseCommit
  <2> QED
    BY <1>5, <1>r, <2>1, CommitTyped DEF TypeOK, JobType, salesVars
<1> QED
  BY <1>1, <1>2, <1>3, <1>4, <1>5, NextCases

-----------------------------------------------------------------------------
(* The limits.                                                             *)

\* A closing respects the three limits: the treasury's share of its inflows, the period
\* cap, and the package cap as it was when it was read.
PlanPays(p) ==
  /\ 100 * SumFunctionOnSet([a \in Earners |-> p.binary[a] + p.points[a] + p.rank[a].net + p.other[a]], Earners)
       <= Plan.alpha * p.inflows
  /\ \A a \in Earners : /\ p.binary[a] + p.points[a] <= Plan.periodCap
                        /\ p.capRead[a] + p.binary[a] + p.points[a] <= Plan.packageCap

\* So does everything that a box is about to pay.
PlanWithin == \A b \in Boxes : job[b].pc \in {"lock", "pay"} => PlanPays(job[b].plan)

\* Nothing is paid for a period that is not closed.
UnpaidIsZero ==
  \A w \in Weeks : period[w].status # "closed" =>
    \A a \in Earners : paid[w][a] = [binary |-> 0, points |-> 0, rank |-> 0, other |-> 0]

MoneyInv == TypeOK /\ RoiPast /\ PlanWithin /\ UnpaidIsZero /\ LimitsKept

\* The caps: what is consumed is what was credited.
CapExact(a) == capPaid[a] = roi[a].total + SumFunctionOnSet([w \in Weeks |-> CapUse(w, a)], Weeks)
WithinTreasury(w) ==
  period[w].status = "closed" =>
    100 * SumFunctionOnSet([a \in Earners |-> PaidTo(w, a)], Earners) <= Plan.alpha * period[w].inflows

LEMMA LimitsMeaning ==
  LimitsKept <=> /\ \A w \in Weeks : WithinTreasury(w)
                 /\ \A a \in Earners : capPaid[a] <= Plan.packageCap /\ CapExact(a)
                 /\ \A a \in Earners, w \in Weeks : CapUse(w, a) <= Plan.periodCap
  BY DEF LimitsKept, WithinTreasury, CapExact

\* The snapshot of a closing, in a state within the caps.
LEMMA ClosingIsWithin ==
  ASSUME TypeOK, LimitsKept, NEW w \in Weeks, NEW q, NEW g
  PROVE  PlanPays(Closing(w, q, g))
<1> DEFINE c == Closing(w, q, g)
<1>1. c.inflows = inflow[w] /\ c.capRead = capPaid
  <2>1. ClosingIs(c, w, q, g, Throttle(w, q, g))
    BY ClosingMeaning
  <2> HIDE DEF c
  <2> QED
    BY <2>1 DEF ClosingIs
<1>2. 100 * SumFunctionOnSet([a \in Earners |-> c.binary[a] + c.points[a] + c.rank[a].net + c.other[a]], Earners)
        <= Plan.alpha * inflow[w]
  BY ClosingWithinTreasury
<1>3. \A a \in Earners : /\ c.binary[a] \in Nat /\ c.points[a] \in Nat
                         /\ c.binary[a] + c.points[a] <= Plan.periodCap
                         /\ c.binary[a] + c.points[a] <= CapLeft(a)
  BY EarnerPaid
<1> HIDE DEF c
<1>4. ASSUME NEW a \in Earners PROVE c.capRead[a] + c.binary[a] + c.points[a] <= Plan.packageCap
  <2>1. capPaid[a] \in Nat /\ capPaid[a] <= Plan.packageCap /\ Plan.packageCap \in Nat
    BY StateAmounts, PlanAmounts DEF LimitsKept
  <2>2. CapLeft(a) \in Nat /\ capPaid[a] + CapLeft(a) = Plan.packageCap
    BY <2>1, MinusOf DEF CapLeft
  <2> QED
    BY <1>1, <1>3, <2>1, <2>2
<1>5. PlanPays(c)
  BY <1>1, <1>2, <1>3, <1>4 DEF PlanPays
<1> QED
  BY <1>5 DEF c

LEMMA InitMoney == Init => MoneyInv
<1> SUFFICES ASSUME Init PROVE MoneyInv
  OBVIOUS
<1>1. TypeOK /\ RoiPast
  BY InitTypeOK
<1>2. PlanWithin
  BY DEF Init, Idle, PlanWithin
<1>3. UnpaidIsZero
  BY DEF Init, UnpaidIsZero
<1>4. \A w \in Weeks : WithinTreasury(w)
  BY DEF Init, WithinTreasury
<1>5. ASSUME NEW a \in Earners
      PROVE  capPaid[a] <= Plan.packageCap /\ CapExact(a) /\ \A w \in Weeks : CapUse(w, a) <= Plan.periodCap
  <2> DEFINE f == [w \in Weeks |-> CapUse(w, a)]
             z == [w \in Weeks |-> 0 * f[w]]
  <2>1. capPaid[a] = 0 /\ roi[a].total = 0 /\ \A w \in Weeks : CapUse(w, a) = 0
    BY DEF Init, NoPay, CapUse
  <2>2. \A w \in Weeks : f[w] \in Int /\ z[w] = 0 * f[w] /\ f[w] = z[w]
    BY <2>1
  <2>3. IsFiniteSet(Weeks)
    <3>1. 1 \in Int /\ MaxWeek \in Int
      BY ConstantsAssumption
    <3> QED
      BY <3>1, FS_Interval DEF Weeks
  <2> HIDE DEF f, z
  <2>4. SumFunctionOnSet(z, Weeks) = 0 * SumFunctionOnSet(f, Weeks)
    <3>1. 0 \in Int
      OBVIOUS
    <3> QED
      BY <2>2, <2>3, <3>1, SumScaled
  <2>5. SumFunctionOnSet(f, Weeks) = SumFunctionOnSet(z, Weeks) /\ SumFunctionOnSet(f, Weeks) \in Int
    BY <2>2, <2>3, SumAlike, SumInt
  <2>6. SumFunctionOnSet(f, Weeks) = 0
    BY <2>4, <2>5
  <2>7. CapExact(a)
    BY <2>1, <2>6 DEF CapExact, f
  <2> QED
    BY <2>1, <2>7, PlanAmounts
<1>6. LimitsKept
  BY <1>4, <1>5, LimitsMeaning
<1> QED
  BY <1>1, <1>2, <1>3, <1>6 DEF MoneyInv

\* A step that pays nothing keeps the limits.
LEMMA LimitsFrame ==
  ASSUME LimitsKept, capPaid' = capPaid, roi' = roi, paid' = paid,
         \A w \in Weeks : period'[w].status = "closed" => period'[w] = period[w]
  PROVE  LimitsKept'
<1>1. \A w, a : PaidTo(w, a)' = PaidTo(w, a) /\ CapUse(w, a)' = CapUse(w, a)
  BY DEF PaidTo, CapUse
<1>2. ASSUME NEW w \in Weeks PROVE WithinTreasury(w)'
  <2>1. WithinTreasury(w)
    BY LimitsMeaning
  <2>2. [a \in Earners |-> PaidTo(w, a)]' = [a \in Earners |-> PaidTo(w, a)]
    BY <1>1
  <2> QED
    BY <2>1, <2>2 DEF WithinTreasury
<1>3. ASSUME NEW a \in Earners PROVE CapExact(a)'
  <2>1. CapExact(a)
    BY LimitsMeaning
  <2>2. [w \in Weeks |-> CapUse(w, a)]' = [w \in Weeks |-> CapUse(w, a)]
    BY <1>1
  <2> QED
    BY <2>1, <2>2 DEF CapExact
<1>4. /\ \A a \in Earners : capPaid'[a] <= Plan.packageCap
      /\ \A a \in Earners, w \in Weeks : CapUse(w, a)' <= Plan.periodCap
  BY <1>1, LimitsMeaning
<1> QED
  BY <1>2, <1>3, <1>4 DEF LimitsKept, WithinTreasury, CapExact

LEMMA WeeksFinite == IsFiniteSet(Weeks)
<1>1. 1 \in Int /\ MaxWeek \in Int
  BY ConstantsAssumption
<1> QED
  BY <1>1, FS_Interval DEF Weeks

LEMMA UseTyped ==
  ASSUME TypeOK, NEW w \in Weeks, NEW a \in Earners
  PROVE  CapUse(w, a) \in Nat
<1>1. paid[w][a] \in Payment
  BY DEF TypeOK
<1> QED
  BY <1>1 DEF Payment, CapUse

\* The ROI of a day takes what is left of the cap and is credited in full.
LEMMA RoiKeepsLimits ==
  ASSUME MoneyInv, AccrueCDROIDaily
  PROVE  LimitsKept'
<1> USE DEF MoneyInv
<1>1. paid' = paid /\ period' = period
  BY DEF AccrueCDROIDaily
<1>2. \A w, a : PaidTo(w, a)' = PaidTo(w, a) /\ CapUse(w, a)' = CapUse(w, a)
  BY <1>1 DEF PaidTo, CapUse
<1>3. ASSUME NEW w \in Weeks PROVE WithinTreasury(w)'
  <2>1. WithinTreasury(w)
    BY LimitsMeaning
  <2>2. [a \in Earners |-> PaidTo(w, a)]' = [a \in Earners |-> PaidTo(w, a)]
    BY <1>2
  <2> QED
    BY <1>1, <2>1, <2>2 DEF WithinTreasury
<1>4. ASSUME NEW a \in Earners PROVE capPaid'[a] <= Plan.packageCap /\ CapExact(a)'
  <2> DEFINE s == SumFunctionOnSet([w \in Weeks |-> CapUse(w, a)], Weeks)
  <2>1. /\ capPaid'[a] - capPaid[a] = roi'[a].total - roi[a].total
        /\ capPaid'[a] - capPaid[a] <= CapLeft(a)
        /\ capPaid'[a] \in Nat /\ roi'[a].total \in Nat
    BY RoiTyped DEF Amounts
  <2>2. capPaid[a] \in Nat /\ Plan.packageCap \in Nat /\ roi[a] \in [last : Weeks, total : Nat]
    BY StateAmounts, PlanAmounts, TypeParts
  <2>3. roi[a].total \in Nat
    BY <2>2
  <2>4. capPaid[a] <= Plan.packageCap /\ CapExact(a)
    BY LimitsMeaning
  <2>5. capPaid[a] + CapLeft(a) = Plan.packageCap /\ CapLeft(a) \in Nat
    BY <2>2, <2>4, MinusOf DEF CapLeft
  <2>6. s \in Int
    <3> DEFINE f == [w \in Weeks |-> CapUse(w, a)]
    <3>1. \A w \in Weeks : f[w] \in Int
      BY UseTyped
    <3> HIDE DEF f
    <3>2. SumFunctionOnSet(f, Weeks) \in Int
      BY <3>1, WeeksFinite, SumInt
    <3> QED
      BY <3>2 DEF f
  <2>7. [w \in Weeks |-> CapUse(w, a)]' = [w \in Weeks |-> CapUse(w, a)]
    BY <1>2
  <2>8. capPaid[a] = roi[a].total + s
    BY <2>4 DEF CapExact
  <2> HIDE DEF s
  <2>9. capPaid'[a] = roi'[a].total + s /\ capPaid'[a] <= Plan.packageCap
    BY <2>1, <2>2, <2>3, <2>5, <2>6, <2>8
  <2> QED
    BY <2>7, <2>9 DEF CapExact, s
<1>5. \A a \in Earners, w \in Weeks : CapUse(w, a)' <= Plan.periodCap
  BY <1>2, LimitsMeaning
<1> QED
  BY <1>3, <1>4, <1>5 DEF LimitsKept, WithinTreasury, CapExact

\* What the commit of a closing pays, and to which period.
LEMMA CommitPays ==
  ASSUME TypeOK, IInv, NEW b \in Boxes, CloseCommit(b)
  PROVE  LET p == job[b].plan
             t == Turn(b) IN
         /\ t \in Weeks /\ period[t].status = "open" /\ job[b].pc = "pay"
         /\ period'[t].inflows = p.inflows
         /\ \A w \in Weeks : w # t => period'[w] = period[w] /\ paid'[w] = paid[w]
         /\ \A a \in Earners :
              /\ paid'[t][a] = [binary |-> p.binary[a], points |-> p.points[a],
                                rank |-> p.rank[a].net, other |-> p.other[a]]
              /\ capPaid'[a] = capPaid[a] + p.binary[a] + p.points[a]
              /\ p.binary[a] + p.points[a] > 0 => capPaid[a] = p.capRead[a]
         /\ roi' = roi
<1> DEFINE p == job[b].plan
           t == Turn(b)
           new == [a \in Earners |-> [binary |-> p.binary[a], points |-> p.points[a],
                                      rank |-> p.rank[a].net, other |-> p.other[a]]]
<1>1. t \in Weeks /\ period[t].status = "open" /\ job[b].pc = "pay"
  BY CommitFits DEF CloseCommit
<1>2. /\ period' = [period EXCEPT ![t] = [status |-> "closed", inflows |-> p.inflows, theta |-> p.theta]]
      /\ capPaid' = [a \in Earners |-> capPaid[a] + p.binary[a] + p.points[a]]
      /\ paid' = [paid EXCEPT ![t] = new]
      /\ roi' = roi
  BY DEF CloseCommit
<1>3. \A a \in Earners : p.binary[a] + p.points[a] > 0 => capPaid[a] = p.capRead[a]
  BY DEF CloseCommit, CapsUnchanged
<1>4. DOMAIN period = Weeks /\ DOMAIN paid = Weeks
  BY DEF TypeOK
<1> HIDE DEF p, t
<1>5. paid'[t] = new /\ \A w \in Weeks : w # t => period'[w] = period[w] /\ paid'[w] = paid[w]
  BY <1>1, <1>2, <1>4
<1>6. period'[t].inflows = p.inflows
  BY <1>1, <1>2, <1>4
<1>7. \A a \in Earners : new[a] = [binary |-> p.binary[a], points |-> p.points[a],
                                   rank |-> p.rank[a].net, other |-> p.other[a]]
  OBVIOUS
<1> HIDE DEF new
<1> QED
  BY <1>1, <1>2, <1>3, <1>5, <1>6, <1>7 DEF p, t

\* A closing that commits paid within its limits, on caps that nobody wrote meanwhile.
LEMMA CommitKeepsLimits ==
  ASSUME MoneyInv, IInv, NEW b \in Boxes, CloseCommit(b)
  PROVE  LimitsKept'
<1> USE DEF MoneyInv
<1>0. Turn(b) \in Weeks /\ job[b].plan \in PlanOfClosing
  BY CommitFits, TypeParts
<1>p. PICK p \in PlanOfClosing : p = job[b].plan
  BY <1>0
<1>t. PICK t \in Weeks : t = Turn(b)
  BY <1>0
<1>1. /\ period[t].status = "open" /\ job[b].pc = "pay"
      /\ period'[t].inflows = p.inflows
      /\ \A w \in Weeks : w # t => period'[w] = period[w] /\ paid'[w] = paid[w]
      /\ \A a \in Earners :
           /\ paid'[t][a] = [binary |-> p.binary[a], points |-> p.points[a],
                             rank |-> p.rank[a].net, other |-> p.other[a]]
           /\ capPaid'[a] = capPaid[a] + p.binary[a] + p.points[a]
           /\ p.binary[a] + p.points[a] > 0 => capPaid[a] = p.capRead[a]
      /\ roi' = roi
  BY <1>p, <1>t, CommitPays
<1>2. PlanPays(p)
  BY <1>p, <1>1 DEF PlanWithin
<1>4. \A a \in Earners : /\ p.binary[a] \in Nat /\ p.points[a] \in Nat /\ p.rank[a].net \in Nat
                         /\ p.other[a] \in Nat /\ p.capRead[a] \in Nat
  BY PlanParts
<1>5. ASSUME NEW a \in Earners
      PROVE  /\ PaidTo(t, a)' = p.binary[a] + p.points[a] + p.rank[a].net + p.other[a]
             /\ CapUse(t, a)' = p.binary[a] + p.points[a]
             /\ CapUse(t, a) = 0
  <2>1. paid[t][a] = [binary |-> 0, points |-> 0, rank |-> 0, other |-> 0]
    BY <1>1 DEF UnpaidIsZero
  <2>2. paid'[t][a] = [binary |-> p.binary[a], points |-> p.points[a],
                       rank |-> p.rank[a].net, other |-> p.other[a]]
    BY <1>1
  <2> QED
    BY <2>1, <2>2 DEF PaidTo, CapUse
<1>6. ASSUME NEW w \in Weeks, w # t, NEW a \in Earners
      PROVE  PaidTo(w, a)' = PaidTo(w, a) /\ CapUse(w, a)' = CapUse(w, a)
  <2>1. paid'[w] = paid[w]
    BY <1>1, <1>6
  <2> QED
    BY <2>1 DEF PaidTo, CapUse
<1>7. ASSUME NEW w \in Weeks PROVE WithinTreasury(w)'
  <2>1. CASE w = t
    <3>1. [a \in Earners |-> PaidTo(t, a)]'
            = [a \in Earners |-> p.binary[a] + p.points[a] + p.rank[a].net + p.other[a]]
      BY <1>5
    <3>2. 100 * SumFunctionOnSet([a \in Earners |-> PaidTo(t, a)]', Earners) <= Plan.alpha * period'[t].inflows
      BY <1>1, <1>2, <3>1 DEF PlanPays
    <3> QED
      BY <2>1, <3>2 DEF WithinTreasury
  <2>2. CASE w # t
    <3>1. WithinTreasury(w) /\ period'[w] = period[w]
      BY <1>1, <2>2, LimitsMeaning
    <3>2. [a \in Earners |-> PaidTo(w, a)]' = [a \in Earners |-> PaidTo(w, a)]
      BY <1>6, <2>2
    <3> QED
      BY <3>1, <3>2 DEF WithinTreasury
  <2> QED
    BY <2>1, <2>2
<1>8. ASSUME NEW a \in Earners, NEW w \in Weeks PROVE CapUse(w, a)' <= Plan.periodCap
  <2>1. CapUse(w, a) <= Plan.periodCap
    BY LimitsMeaning
  <2> QED
    BY <1>2, <1>5, <1>6, <2>1 DEF PlanPays
<1>9. ASSUME NEW a \in Earners PROVE capPaid'[a] <= Plan.packageCap /\ CapExact(a)'
  <2> DEFINE f == [w \in Weeks |-> CapUse(w, a)]
             s == SumFunctionOnSet(f, Weeks)
             s2 == SumFunctionOnSet(f', Weeks)
             x == p.binary[a] + p.points[a]
  <2>1. capPaid[a] \in Nat /\ Plan.packageCap \in Nat /\ roi[a] \in [last : Weeks, total : Nat]
    BY StateAmounts, PlanAmounts, TypeParts
  <2>2. p.binary[a] \in Nat /\ p.points[a] \in Nat /\ p.capRead[a] \in Nat
    BY <1>4
  <2>3. capPaid'[a] = capPaid[a] + p.binary[a] + p.points[a]
    BY <1>1
  <2>4. capPaid[a] <= Plan.packageCap /\ CapExact(a)
    BY LimitsMeaning
  <2>5. capPaid'[a] <= Plan.packageCap
    <3>1. p.binary[a] + p.points[a] > 0 => capPaid[a] = p.capRead[a]
      BY <1>1
    <3>2. p.capRead[a] + p.binary[a] + p.points[a] <= Plan.packageCap
      BY <1>2 DEF PlanPays
    <3> QED
      BY <2>1, <2>2, <2>3, <2>4, <3>1, <3>2
  <2>6. \A w \in Weeks : f[w] \in Int
    BY UseTyped
  <2>7. f'[t] = x /\ f[t] = 0 /\ \A w \in Weeks \ {t} : f[w] = f'[w]
    BY <1>5, <1>6
  <2>8. x \in Int
    BY <2>2
  <2> HIDE DEF f, x
  <2>9. \A w \in Weeks : f'[w] \in Int
    BY <2>6, <2>7, <2>8
  <2>10. s2 = s + (f'[t] - f[t])
    <3>1. \A w \in Weeks : f[w] \in Int /\ f'[w] \in Int
      BY <2>6, <2>9
    <3> QED
      BY <2>7, <3>1, WeeksFinite, SumChanged
  <2>11. s \in Int
    BY <2>6, WeeksFinite, SumInt
  <2>12. capPaid[a] = roi[a].total + s /\ roi[a].total \in Nat
    BY <2>1, <2>4 DEF CapExact, f
  <2> HIDE DEF s, s2
  <2>13. capPaid'[a] = roi[a].total + s2
    BY <2>1, <2>2, <2>3, <2>7, <2>8, <2>10, <2>11, <2>12 DEF x
  <2>14. capPaid'[a] = roi'[a].total + s2
    BY <1>1, <2>13
  <2> QED
    BY <2>5, <2>14 DEF CapExact, s2, f
<1> QED
  BY <1>7, <1>8, <1>9 DEF LimitsKept, WithinTreasury, CapExact

LEMMA LimitsKeptKept ==
  ASSUME MoneyInv, IInv, [Next]_vars
  PROVE  LimitsKept'
<1> USE DEF MoneyInv
<1>1. AccrueCDROIDaily \/ UNCHANGED vars => LimitsKept'
  <2>1. UNCHANGED vars => LimitsKept'
    BY LimitsFrame DEF vars, payVars
  <2> QED
    BY <2>1, RoiKeepsLimits
<1>2. Tick => LimitsKept'
  BY LimitsFrame DEF Tick, payVars
<1>3. ASSUME NEW b \in Buyers, NEW w \in Weeks, Buy(b, w) PROVE LimitsKept'
  BY <1>3, LimitsFrame DEF Buy, payVars
<1>4. ASSUME NEW b \in Boxes,
             CycleStart(b) \/ CloseSnapshot(b) \/ CloseLock(b) \/ CloseFail(b) \/ Crash(b)
      PROVE  LimitsKept'
  BY <1>4, LimitsFrame DEF CycleStart, CloseSnapshot, CloseLock, CloseFail, Crash, payVars
<1>5. ASSUME NEW b \in Boxes, OpenNext(b) PROVE LimitsKept'
  <2>1. capPaid' = capPaid /\ roi' = roi /\ paid' = paid
    BY <1>5 DEF OpenNext, payVars
  <2>2. \A w \in Weeks : period'[w].status = "closed" => period'[w] = period[w]
    BY <1>5, StepOpenNext DEF IInv
  <2> QED
    BY <2>1, <2>2, LimitsFrame
<1>6. ASSUME NEW b \in Boxes, CloseCommit(b) PROVE LimitsKept'
  BY <1>6, CommitKeepsLimits
<1> QED
  BY <1>1, <1>2, <1>3, <1>4, <1>5, <1>6, NextCases

LEMMA PlanWithinKept ==
  ASSUME MoneyInv, IInv, [Next]_vars
  PROVE  PlanWithin'
<1> USE DEF MoneyInv
<1>a. ASSUME job' = job PROVE PlanWithin'
  BY <1>a DEF PlanWithin
<1>b. ASSUME NEW b \in Boxes, \A c \in Boxes : c # b => job'[c] = job[c],
             job'[b].pc \in {"lock", "pay"} => PlanPays(job'[b].plan)
      PROVE  PlanWithin'
  <2> SUFFICES ASSUME NEW c \in Boxes, job'[c].pc \in {"lock", "pay"} PROVE PlanPays(job'[c].plan)
    BY DEF PlanWithin
  <2>1. CASE c = b
    BY <1>b, <2>1
  <2>2. CASE c # b
    BY <1>b, <2>2 DEF PlanWithin
  <2> QED
    BY <2>1, <2>2
<1>1. AccrueCDROIDaily \/ UNCHANGED vars => PlanWithin'
  BY <1>a, StepQuiet
<1>2. Tick => PlanWithin'
  BY <1>a DEF Tick
<1>3. ASSUME NEW b \in Buyers, NEW w \in Weeks, Buy(b, w) PROVE PlanWithin'
  BY <1>3, <1>a DEF Buy
<1>4. ASSUME NEW b \in Boxes, CycleStart(b) PROVE PlanWithin'
  BY <1>4, <1>b, StepCycleStart DEF IInv
<1>5. ASSUME NEW b \in Boxes, CloseSnapshot(b) PROVE PlanWithin'
  <2>1. /\ \A c \in Boxes : c # b => job'[c] = job[c]
        /\ job[b].todo # {}
        /\ job'[b].pc \in {"close", "lock"}
    BY <1>5, StepCloseSnapshot DEF IInv
  <2>2. Turn(b) \in Weeks
    BY <2>1, TurnIsOldest DEF IInv
  <2>3. ASSUME job'[b].pc = "lock" PROVE PlanPays(job'[b].plan)
    <3>1. period[Turn(b)].status # "closed"
      <4> SUFFICES ASSUME period[Turn(b)].status = "closed" PROVE FALSE
        OBVIOUS
      <4>1. job' = [job EXCEPT ![b].todo = @ \ {Turn(b)}] /\ job[b].pc = "close"
        BY <1>5 DEF CloseSnapshot
      <4>2. DOMAIN job = Boxes /\ DOMAIN job[b] = {"pc", "todo", "plan"}
        BY DEF IInv, Shape
      <4>3. job'[b].pc = "close"
        BY <4>1, <4>2
      <4> QED
        BY <2>3, <4>3
    <3>2. PICK q \in [Earners -> Standings], g \in SUBSET Earners :
            job' = [job EXCEPT ![b] = [@ EXCEPT !.pc = "lock", !.plan = Closing(Turn(b), q, g)]]
      BY <1>5, <3>1 DEF CloseSnapshot
    <3> DEFINE c == Closing(Turn(b), q, g)
    <3>3. PlanPays(c)
      BY <2>2, ClosingIsWithin
    <3> HIDE DEF c
    <3>4. job'[b].plan = c
      <4>1. job' = [job EXCEPT ![b] = [@ EXCEPT !.pc = "lock", !.plan = c]]
        BY <3>2 DEF c
      <4> QED
        BY <4>1 DEF TypeOK
    <3> QED
      BY <3>3, <3>4
  <2> QED
    BY <1>b, <2>1, <2>3
<1>6. ASSUME NEW b \in Boxes, CloseLock(b) PROVE PlanWithin'
  <2>1. /\ \A c \in Boxes : c # b => job'[c] = job[c]
        /\ job[b].pc = "lock" /\ job'[b].plan = job[b].plan
    BY <1>6, StepCloseLock DEF IInv
  <2>2. PlanPays(job'[b].plan)
    BY <2>1 DEF PlanWithin
  <2> QED
    BY <1>b, <2>1, <2>2
<1>7. ASSUME NEW b \in Boxes, CloseCommit(b) PROVE PlanWithin'
  BY <1>7, <1>b, StepCloseCommit DEF IInv
<1>8. ASSUME NEW b \in Boxes, CloseFail(b) \/ Crash(b) PROVE PlanWithin'
  BY <1>8, <1>b, StepCloseFail DEF IInv
<1>9. ASSUME NEW b \in Boxes, OpenNext(b) PROVE PlanWithin'
  BY <1>9, <1>b, StepOpenNext DEF IInv
<1> QED
  BY <1>1, <1>2, <1>3, <1>4, <1>5, <1>6, <1>7, <1>8, <1>9, NextCases

LEMMA UnpaidIsZeroKept ==
  ASSUME MoneyInv, IInv, [Next]_vars
  PROVE  UnpaidIsZero'
<1> USE DEF MoneyInv
<1>a. ASSUME paid' = paid, \A w \in Weeks : period[w].status = "closed" => period'[w] = period[w]
      PROVE  UnpaidIsZero'
  BY <1>a DEF UnpaidIsZero
<1>1. AccrueCDROIDaily \/ UNCHANGED vars => UnpaidIsZero'
  BY <1>a, StepQuiet
<1>2. Tick => UnpaidIsZero'
  BY <1>a DEF Tick, payVars
<1>3. ASSUME NEW b \in Buyers, NEW w \in Weeks, Buy(b, w) PROVE UnpaidIsZero'
  BY <1>3, <1>a DEF Buy, payVars
<1>4. ASSUME NEW b \in Boxes, CycleStart(b) \/ CloseSnapshot(b) \/ CloseLock(b) PROVE UnpaidIsZero'
  BY <1>4, <1>a DEF CycleStart, CloseSnapshot, CloseLock, payVars
<1>5. ASSUME NEW b \in Boxes, CloseFail(b) \/ Crash(b) PROVE UnpaidIsZero'
  BY <1>5, <1>a DEF CloseFail, Crash, payVars
<1>6. ASSUME NEW b \in Boxes, OpenNext(b) PROVE UnpaidIsZero'
  <2>1. /\ paid' = paid
        /\ \A w \in Weeks : period[w].status = "closed" => period'[w] = period[w]
    BY <1>6, StepOpenNext DEF IInv
  <2> QED
    BY <1>a, <2>1
<1>7. ASSUME NEW b \in Boxes, CloseCommit(b) PROVE UnpaidIsZero'
  <2>1. /\ Turn(b) \in Weeks /\ period'[Turn(b)].status = "closed"
        /\ \A w \in Weeks : w # Turn(b) => period'[w] = period[w] /\ paid'[w] = paid[w]
    BY <1>7, CommitFits, StepCloseCommit DEF IInv
  <2> QED
    BY <2>1 DEF UnpaidIsZero
<1> QED
  BY <1>1, <1>2, <1>3, <1>4, <1>5, <1>6, <1>7, NextCases

\* The types and the limits are invariant with what the boxes know of them.
THEOREM MoneyInvariance == Spec => [](MoneyInv /\ IInv)
<1>1. Init => MoneyInv /\ IInv
  BY InitMoney, InitIInv
<1>2. MoneyInv /\ IInv /\ [Next]_vars => MoneyInv'
  BY TypeKept, PlanWithinKept, UnpaidIsZeroKept, LimitsKeptKept DEF MoneyInv
<1>3. IInv /\ [Next]_vars => IInv'
  BY ShapeKept, TodoEndedKept, ClosedInOrderKept, NoneLeftBehindKept, LockHeldKept,
     SnapshotHoldsKept, BlocksPaidOnceKept, InstallmentsNotLostKept DEF IInv
<1> QED
  BY <1>1, <1>2, <1>3, PTL DEF Spec

\* Every variable of the cycle has its type; in particular theta is a fraction and no
\* amount, cap or counter is ever negative.
THEOREM EngineTypes == Spec => []TypeOK
<1>1. MoneyInv => TypeOK
  BY DEF MoneyInv
<1> QED
  BY <1>1, MoneyInvariance, PTL

\* CloseBinaryPeriod and AccrueCDROIDaily: for any plan, any network and any number of
\* boxes, a period pays its network within the treasury's share of its inflows, an earner
\* is within the period cap, and the package cap is never overrun and counts exactly what
\* the closings and the daily ROI credited.
THEOREM LimitsAlwaysKept == Spec => []LimitsKept
<1>1. MoneyInv => LimitsKept
  BY DEF MoneyInv
<1> QED
  BY <1>1, MoneyInvariance, PTL

\* PayV2Streams and AccruePoints: the points that a closing accrues for its own period
\* outlive the conversion of the older ones.
THEOREM PointsAreDeferred == Spec => PointsDeferred
<1> DEFINE A == \A w \in Weeks, a \in Earners : Closes(w) => points'[a] >= job[adv[w]].plan.earned[a]
<1>1. ASSUME MoneyInv, IInv, [Next]_vars PROVE A
  <2> SUFFICES ASSUME NEW w \in Weeks, NEW a \in Earners, Closes(w)
               PROVE  points'[a] >= job[adv[w]].plan.earned[a]
    OBVIOUS
  <2>1. PICK b \in Boxes : CloseCommit(b) /\ w = Turn(b)
    BY <1>1, ClosesByCommit
  <2>2. adv[w] = b
    BY <1>1, <2>1, CommitFits
  <2>3. points'[a] = PointsAfter(b, a)
    BY <2>1 DEF CloseCommit
  <2>4. points[a] \in Nat /\ job[b].plan.earned[a] \in Nat
    <3>1. TypeOK /\ job[b].plan \in PlanOfClosing
      BY <1>1, TypeParts DEF MoneyInv
    <3> QED
      BY <3>1, StateAmounts, PlanParts
  <2> QED
    BY <2>2, <2>3, <2>4 DEF PointsAfter
<1>2. MoneyInv /\ IInv /\ [Next]_vars => [A]_vars
  BY <1>1
<1> QED
  BY <1>2, MoneyInvariance, PTL DEF Spec, PointsDeferred
=============================================================================
