----------------------------- MODULE NowEngine -----------------------------
(***************************************************************************)
(* The engine of the NOW and manual memberships (vp-engine/internal/       *)
(* nowengine, membershipsource, manualmembership): daily ROI, the weekly   *)
(* closing with its referral, royalty and binary commissions under the     *)
(* residual budget, the FIFO consumption of volume, and the activation of  *)
(* a manual membership by an operator.                                     *)
(*                                                                         *)
(* Run is one SERIALIZABLE transaction under an advisory lock: it commits  *)
(* whole or leaves nothing.  How far it gets depends on the time it has    *)
(* left, so the accruals and the weeks of one run are chosen.  A day has   *)
(* two moments: before and after two in the morning.  Money is an integer, *)
(* a rate a percentage; a membership counts a few units of volume.         *)
(***************************************************************************)
EXTENDS BonusRules, Sequences, FiniteSets, FiniteSetsExt, SequencesExt

CONSTANTS
  Members, Root,               \* affiliates (numbers), the root of the company
  Sponsor, FirstNode,          \* who brought a member; its first parent and leg
  Founders,
  Catalog,                     \* the memberships sold: gross, volume and tier
  Operations,                  \* operation keys of the manual activations
  BaseRate, UpliftRate,        \* annual rates of ROI
  Year, Term, Week,            \* days of a year, of a certificate, of a period
  CapFactor, WeekCap,          \* percent of gross a package may earn; cap of a binary bonus
  ReferralRate, RoyaltyRate,
  Alpha, Unit, Block, Depth,   \* treasury share, bonus per block, volume of a block
  MaxAccruals, MaxWeeks,       \* of one run: maxAccrualsPerRun and eight weeks
  Scale,                       \* theta counts in 1/Scale
  Changes,                     \* which changes of members and evidence may happen
  MaxSources, MaxDay           \* bounds

ASSUME EngineAssumption ==
  /\ Members \subseteq Nat \ {0} /\ IsFiniteSet(Members) /\ Root \in Members
  /\ "small" \in DOMAIN Catalog
  /\ \A item \in DOMAIN Catalog : {Catalog[item].gross, Catalog[item].pv, Catalog[item].tier} \subseteq Nat
  /\ {BaseRate, UpliftRate, Year, Term, Week, Block, Scale} \subseteq Nat \ {0}
  /\ {CapFactor, WeekCap, ReferralRate, RoyaltyRate, Alpha, Unit} \subseteq Nat
  /\ {Depth, MaxAccruals, MaxWeeks, MaxSources, MaxDay} \subseteq Nat
  /\ Changes \subseteq {"move", "suspend", "risk"}

\* The affiliates at the start hang from the root: no part of them closes on itself.
ASSUME FirstTreeAssumption ==
  /\ \A m \in Members \ {Root} : FirstNode[m].parent \in Members
  /\ \A S \in SUBSET (Members \ {Root}) : S # {} => \E m \in S : FirstNode[m].parent \notin S

VARIABLES
  source,                      \* v_compensation_source, in the order of activation
  node,                        \* mlm.affiliate: parent, leg and status
  manual,                      \* manual instructions: reviewed, then applied
  book,                        \* what the engine stores
  clock,                       \* two moments a day
  frozen                       \* an activated order shows a risk: ErrRiskFrozen

engineVars == <<source, node, manual, book, clock, frozen>>

Slots == 1..MaxSources
Never == MaxDay + 1
NoInstruction == [member |-> 0, seen |-> "none", source |-> 0]

EngineInit ==
  /\ source = <<>>
  /\ node = [m \in Members |-> [parent |-> FirstNode[m].parent, leg |-> FirstNode[m].leg,
                                status |-> "active"]]
  /\ manual = [k \in Operations |-> NoInstruction]
  /\ book = [roi |-> [i \in Slots |-> [cut |-> 0, numerator |-> 0, claimed |-> 0, excluded |-> 0]],
             rates |-> [i \in Slots |-> <<>>],
             paid |-> [i \in Slots |-> 0], capClosed |-> [i \in Slots |-> Never],
             owed |-> <<>>, payment |-> <<>>,
             claimed |-> [m \in Members |-> 0],
             prefix |-> [m \in Members |-> [L |-> <<>>, R |-> <<>>]],
             allocation |-> {}, closed |-> {}]
  /\ clock = 0
  /\ frozen = FALSE

Total(s) == SumFunctionOnSet(s, DOMAIN s)
Today == clock \div 2
Late == clock % 2 = 1            \* two hours after midnight

-----------------------------------------------------------------------------
(* The universe of a run: who sponsors, leads and qualifies.               *)

Net(s) == Percent(IF s.kind = "manual" THEN 97 ELSE 99, s.gross)
Sources == DOMAIN source
Before(i, day) == source[i].day < day
Active(m) == node[m].status = "active"

\* The k-th node above m, or the root when there are fewer.
Above(m, k) ==
  LET up[n \in 0..k] == IF n = 0 \/ up[n - 1] = Root THEN IF n = 0 THEN m ELSE Root
                        ELSE node[up[n - 1]].parent
  IN up[k]

\* The legs of an ancestor under which a member it brought sits, its top node active.
LegOf(a, d) == {node[Above(d, k)].leg : k \in {k \in 0..Cardinality(Members) :
                  /\ Above(d, k) # Root /\ node[Above(d, k)].parent = a /\ Active(Above(d, k))}}

\* A run sees the caps that were closed when it began: book is what it loaded.
CapOpen(i, day) == day <= book.capClosed[i]

\* Both legs hold an active member brought by m with a membership (of the same tier or
\* higher, not yet matured and with an open cap, for the uplift of its certificates).
Qualified(m, day, tier) ==
  \A leg \in {"L", "R"} :
    \E i \in Sources :
      LET d == source[i].member IN
      /\ Sponsor[d] = m /\ Active(d) /\ Before(i, day)
      /\ source[i].tier >= tier
      /\ tier > 0 => source[i].day + Term >= day /\ CapOpen(i, day)
      /\ leg \in LegOf(m, d)

\* The membership that earns for m: its newest one, 0 when it has none; binary bonuses
\* need one with an open cap.
NewestOf(own) == IF own = {} THEN 0 ELSE Max(own)
Own(m, day) == NewestOf({i \in Sources : source[i].member = m /\ Before(i, day)})
OwnOpen(m, day) == NewestOf({i \in Sources : source[i].member = m /\ Before(i, day) /\ CapOpen(i, day)})

Cap(i) == Percent(CapFactor, source[i].gross)
Remaining(b, i) == Cap(i) - b.paid[i]

-----------------------------------------------------------------------------
(* Obligations and their payments.                                         *)

Owed(b, kind, pkg, week, amount, excluded) ==
  [b EXCEPT !.owed = Append(@, [kind |-> kind, pkg |-> pkg, week |-> week, amount |-> amount,
                                excluded |-> excluded, paid |-> 0])]

ConsumesCap(kind) == kind \in {"roi", "binary"}

\* fn_enforce_package_cap: the cap closes when all but a cent of it is paid.
CapClosed(b, pkg, paid) ==
  IF paid >= Cap(pkg) - 1 /\ b.capClosed[pkg] = Never THEN Today ELSE b.capClosed[pkg]

\* post: never beyond what the package has left.
Post(b, kind, pkg, amount, day) ==
  LET a == IF ConsumesCap(kind) THEN Least(amount, Remaining(b, pkg)) ELSE amount
  IN IF a <= 0 THEN b
     ELSE [b EXCEPT !.payment = Append(@, [kind |-> kind, pkg |-> pkg, amount |-> a, day |-> day]),
                    !.paid[pkg] = IF ConsumesCap(kind) THEN @ + a ELSE @,
                    !.capClosed[pkg] = IF ConsumesCap(kind) THEN CapClosed(b, pkg, b.paid[pkg] + a) ELSE @]

PaidBefore(b, kinds, day) ==
  Total([n \in DOMAIN b.payment |->
            IF b.payment[n].kind \in kinds /\ b.payment[n].day < day THEN b.payment[n].amount ELSE 0])

Commissions == {"direct", "royalty", "binary"}

-----------------------------------------------------------------------------
(* accrueROI: a day of a certificate at a time, by source and day.         *)

Cutoff == Today
Matures(i) == source[i].day + Term
Due(b) == {i \in Sources : b.roi[i].cut < Least(Cutoff, Matures(i))}

\* Bug: every day is rounded down by itself.
BugTarget(numerator, gross, rate, claimed) == claimed + ((gross * rate) \div (100 * Year))

\* The rate-days so far, in money: fractions of a cent are carried, not lost.
Target(numerator, gross, rate, claimed) == (numerator + gross * rate) \div (100 * Year)

AccrueDay(b) ==
  LET i == Min(Due(b))
      day == b.roi[i].cut + 1
      rate == IF Qualified(source[i].member, day, source[i].tier) THEN UpliftRate ELSE BaseRate
      target == Target(b.roi[i].numerator, source[i].gross, rate, b.roi[i].claimed)
      amount == target - b.roi[i].claimed
      excluded == Minus(amount, Remaining(b, i))
      posted == Post(b, "roi", i, amount - excluded, day)
  IN [posted EXCEPT !.roi[i] = [cut |-> day, numerator |-> @.numerator + source[i].gross * rate,
                                claimed |-> target, excluded |-> @.excluded + excluded],
                    !.rates[i] = Append(@, rate)]

\* n accruals, or all there are.
Accrued(b, n) ==
  LET after[k \in 0..n] == IF k = 0 THEN b
                           ELSE IF Due(after[k - 1]) = {} THEN after[k - 1]
                           ELSE AccrueDay(after[k - 1])
  IN after[n]

-----------------------------------------------------------------------------
(* closePeriod: referrals, binary, budget.                                 *)

SoldIn(i, end) == source[i].day \in (end - Week)..(end - 1)

Earns(m) == m \in Members \ {Root} /\ Active(m)
RateFor(m) == IF m \in Founders THEN 2 * ReferralRate ELSE ReferralRate

\* The sponsor of a sale earns if it has a membership and is qualified; its own sponsor
\* earns the royalty with a membership alone.
Direct(s, i, end) ==
  IF Earns(s) /\ Own(s, end) > 0 /\ Qualified(s, end, 0)
  THEN Percent(RateFor(s), Net(source[i])) ELSE 0
Royalty(s, g, i, end) ==
  IF Earns(s) /\ Earns(g) /\ Own(g, end) > 0 THEN Percent(RoyaltyRate, Net(source[i])) ELSE 0

OwedIf(b, kind, m, end, amount) ==
  IF amount > 0 THEN Owed(b, kind, Own(m, end), end, amount, 0) ELSE b

ReferralsOf(b, i, end) ==
  LET s == Sponsor[source[i].member]
      g == IF s \in Members THEN Sponsor[s] ELSE 0
  IN OwedIf(OwedIf(b, "direct", s, end, Direct(s, i, end)), "royalty", g, end, Royalty(s, g, i, end))

\* The sales of the week, in the order of activation.
Referrals(b, end) ==
  LET after[i \in 0..Len(source)] == IF i = 0 THEN b
                                     ELSE IF SoldIn(i, end) THEN ReferralsOf(after[i - 1], i, end)
                                     ELSE after[i - 1]
  IN after[Len(source)]

\* The volume on a leg of m in the order of activation, one entry per unit of volume.
Feeds(i, m, leg) ==
  \E k \in 0..(Depth - 1) : LET n == Above(source[i].member, k)
                            IN n # Root /\ node[n].parent = m /\ node[n].leg = leg
\* Bug: the newest volume first.
BugVolume(m, leg, end) ==
  FlattenSeq(Reverse([i \in Sources |-> IF Before(i, end) /\ Feeds(i, m, leg)
                                        THEN [u \in 1..source[i].pv |-> i] ELSE <<>>]))
Volume(m, leg, end) ==
  FlattenSeq([i \in Sources |-> IF Before(i, end) /\ Feeds(i, m, leg)
                                THEN [u \in 1..source[i].pv |-> i] ELSE <<>>])
Prefix(m, blocks, end) == [leg \in {"L", "R"} |-> SubSeq(Volume(m, leg, end), 1, blocks * Block)]

Pairs(m, end) == Least(Len(Volume(m, "L", end)), Len(Volume(m, "R", end))) \div Block

Competes(m, end) == Earns(m) /\ OwnOpen(m, end) > 0 /\ Qualified(m, end, 0)

\* PreviewBinaryFIFO: the volume already claimed is no longer the prefix it was.
HistoryKept(b, m, end) ==
  /\ b.claimed[m] <= Pairs(m, end)
  /\ b.prefix[m] = Prefix(m, b.claimed[m], end)

\* New blocks, as places in the volume of either leg; each unit of volume has the weight
\* of its source, the part of the gross that is net.
NewUnits(b, m, end) == (b.claimed[m] * Block + 1)..(Pairs(m, end) * Block)
Weight(v, units) ==
  SumFunctionOnSet([n \in units |-> IF source[v[n]].kind = "manual" THEN 97 ELSE 99], units)
Entitlement(b, m, end) ==
  LET new == NewUnits(b, m, end)
  IN ((IF m \in Founders THEN 5 ELSE 1) * Unit
        * (Weight(Volume(m, "L", end), new) + Weight(Volume(m, "R", end), new))) \div (200 * Block)

Allocated(b, m, end) ==
  {a \in [member : {m}, leg : {"L", "R"}, source : Sources, week : {end}, pv : 1..(Block * Pairs(m, end))] :
     a.pv = Cardinality({n \in NewUnits(b, m, end) : Volume(m, a.leg, end)[n] = a.source})}

BinaryOf(b, m, end) ==
  IF ~Competes(m, end) \/ Pairs(m, end) <= b.claimed[m] THEN b
  ELSE LET pkg == OwnOpen(m, end)
           amount == Entitlement(b, m, end)
           allowed == Least(Least(amount, WeekCap), Remaining(b, pkg))
           one == Owed(b, "binary", pkg, end, amount, amount - allowed)
       IN [one EXCEPT !.claimed[m] = Pairs(m, end),
                      !.prefix[m] = Prefix(m, Pairs(m, end), end),
                      !.allocation = @ \cup Allocated(b, m, end)]

\* The members in the order of their identifiers.
Binary(b, end) ==
  LET after[m \in 0..Max(Members)] == IF m = 0 THEN b
                                      ELSE IF m \in Members THEN BinaryOf(after[m - 1], m, end)
                                      ELSE after[m - 1]
  IN after[Max(Members)]

\* What the treasury's share of all inflows leaves after ROI and earlier commissions.
Inflows(end) == Total([i \in Sources |-> IF Before(i, end) THEN Net(source[i]) ELSE 0])
Budget(b, end) ==
  Minus(Percent(Alpha, Inflows(end)),
        PaidBefore(b, {"roi"}, end) + PaidBefore(b, Commissions, end))

Open(o) == o.amount - o.paid - o.excluded
Projected(b) == Total([n \in DOMAIN b.owed |-> Open(b.owed[n])])

\* One claim, new or held: its share of the budget, and what its package cannot take.
PayOne(b, n, theta, end) ==
  LET o == b.owed[n]
      room == IF ConsumesCap(o.kind) THEN Remaining(b, o.pkg) ELSE Open(o)
      amount == Least(NetOf(Open(o), theta, Scale), room)
  IN [Post(b, o.kind, o.pkg, amount, end) EXCEPT
        !.owed[n] = [o EXCEPT !.paid = @ + amount, !.excluded = @ + Minus(Open(o), room)]]

Paid(b, end) ==
  LET theta == ComputeTheta(100, Budget(b, end), Projected(b), Scale)
      after[n \in 0..Len(b.owed)] == IF n = 0 THEN b ELSE PayOne(after[n - 1], n, theta, end)
  IN after[Len(b.owed)]

\* The start of the next week to close, and the weeks a run may close.
Monday(day) == day - (day % Week)
\* Bug: the week after the last one closed is left out.
BugNextStart(b) == IF b.closed = {} THEN Monday(source[1].day) ELSE Max(b.closed) + Week
NextStart(b) == IF b.closed = {} THEN Monday(source[1].day) ELSE Max(b.closed)
WeekEnd(b) == NextStart(b) + Week
Over(end) == end < Today \/ (end = Today /\ Late)

CloseWeek(b) ==
  LET end == WeekEnd(b)
  IN [Paid(Binary(Referrals(b, end), end), end) EXCEPT !.closed = @ \cup {end}]

\* The binary volume of everyone who competes must still begin as it was claimed.
Sound(b) == \A m \in Members : Competes(m, WeekEnd(b)) => HistoryKept(b, m, WeekEnd(b))

Closed(b, n) ==
  LET after[k \in 0..n] == IF k = 0 THEN b ELSE CloseWeek(after[k - 1])
  IN after[n]

\* Bug: a run cut short while it accrues closes the week all the same.
BugMayClose(b, n) ==
  \A k \in 0..(n - 1) : Over(WeekEnd(Closed(b, k))) /\ Sound(Closed(b, k))
\* Only a run that has nothing left to accrue closes, and only weeks that are over.
MayClose(b, n) ==
  /\ n > 0 => Due(b) = {}
  /\ \A k \in 0..(n - 1) : Over(WeekEnd(Closed(b, k))) /\ Sound(Closed(b, k))

-----------------------------------------------------------------------------
(* The actions.                                                            *)

\* Run: validateReady, accrueROI, closePeriod; any error rolls all of it back.
Run(n, w) ==
  /\ ~frozen
  /\ source # <<>>
  /\ LET b == Accrued(book, n) IN MayClose(b, w) /\ book' = Closed(b, w)
  /\ UNCHANGED <<source, node, manual, clock, frozen>>

Activation(m, kind, item) ==
  [member |-> m, kind |-> kind, gross |-> Catalog[item].gross, pv |-> Catalog[item].pv,
   tier |-> Catalog[item].tier, day |-> Today]

Enters(s) ==
  /\ Len(source) < MaxSources
  /\ source' = Append(source, s)
  /\ book' = [book EXCEPT !.roi[Len(source) + 1].cut = s.day]

\* activateNOWOperationalOrder, as the engine sees it.
ActivateNow(m, item) ==
  /\ m # Root /\ Active(m)
  /\ Enters(Activation(m, "nowpayments", item))
  /\ UNCHANGED <<node, manual, clock, frozen>>

\* Preflight: the operator reviews the position of a member.
Preflight(k, m) ==
  /\ manual[k] = NoInstruction
  /\ ~frozen
  /\ m # Root
  /\ manual' = [manual EXCEPT ![k] = [member |-> m, seen |-> node[m], source |-> 0]]
  /\ UNCHANGED <<source, node, book, clock, frozen>>

\* Apply: a known operation answers with its source; a new one needs the engine ready
\* and the position as it was reviewed.
Apply(k) ==
  LET in == manual[k] IN
  /\ in # NoInstruction
  /\ in.source = 0
  /\ ~frozen
  /\ Active(in.member)
  /\ in.seen = node[in.member]
  /\ Enters(Activation(in.member, "manual", "small"))
  /\ manual' = [manual EXCEPT ![k].source = Len(source) + 1]
  /\ UNCHANGED <<node, clock, frozen>>

\* A refund of an activated order, a member suspended, a member moved in the tree.
Risk ==
  /\ "risk" \in Changes
  /\ \E i \in Sources : source[i].kind = "nowpayments"
  /\ frozen' = TRUE
  /\ UNCHANGED <<source, node, manual, book, clock>>

Suspend(m) ==
  /\ "suspend" \in Changes
  /\ m # Root /\ Active(m)
  /\ node' = [node EXCEPT ![m].status = "blocked"]
  /\ UNCHANGED <<source, manual, book, clock, frozen>>

Move(m, parent, leg) ==
  /\ "move" \in Changes
  /\ m # Root
  /\ \A k \in 0..Cardinality(Members) : Above(parent, k) # m
  /\ \A x \in Members \ {m} : ~(node[x].parent = parent /\ node[x].leg = leg)
  /\ node' = [node EXCEPT ![m].parent = parent, ![m].leg = leg]
  /\ UNCHANGED <<source, manual, book, clock, frozen>>

Tick ==
  /\ clock <= 2 * MaxDay
  /\ clock' = clock + 1
  /\ UNCHANGED <<source, node, manual, book, frozen>>

EngineNext ==
  \/ \E n \in 0..MaxAccruals, w \in 0..MaxWeeks : Run(n, w)
  \/ \E m \in Members : \E item \in DOMAIN Catalog : ActivateNow(m, item)
  \/ \E k \in Operations : Apply(k) \/ \E m \in Members : Preflight(k, m)
  \/ \E m \in Members : Suspend(m) \/ \E p \in Members, leg \in {"L", "R"} : Move(m, p, leg)
  \/ Risk \/ Tick

EngineSpec == EngineInit /\ [][EngineNext]_engineVars

-----------------------------------------------------------------------------

EngineTypeOK ==
  /\ source \in Seq([member : Members \ {Root}, kind : {"nowpayments", "manual"}, gross : Nat,
                     pv : Nat, tier : Nat, day : 0..MaxDay])
  /\ DOMAIN node = Members
  /\ \A m \in Members : /\ node[m].parent \in Members \cup {0} /\ node[m].leg \in {"L", "R", ""}
                        /\ node[m].status \in {"active", "blocked"}
  /\ \A k \in Operations : manual[k].source \in 0..Len(source)
  /\ \A i \in Slots : book.roi[i].cut \in 0..MaxDay /\ book.paid[i] \in Nat
  /\ \A n \in DOMAIN book.owed :
       LET o == book.owed[n] IN o.kind \in Commissions /\ o.pkg \in Sources /\ o.excluded \in 0..o.amount
  /\ \A m \in Members : book.claimed[m] \in Nat
  /\ clock \in Nat /\ frozen \in BOOLEAN

-----------------------------------------------------------------------------
(* Safety.                                                                 *)

\* However runs are cut short and repeated, a certificate earns each of its days once,
\* and to date exactly its rate-days rounded down once, in its wallet or beyond its cap.
RoiExact ==
  \A i \in Sources :
    LET r == book.roi[i]
        earned == (source[i].gross * Total(book.rates[i])) \div (100 * Year)
        credited == Total([n \in DOMAIN book.payment |->
          IF book.payment[n].kind = "roi" /\ book.payment[n].pkg = i THEN book.payment[n].amount ELSE 0])
    IN /\ r.cut = source[i].day + Len(book.rates[i])
       /\ r.cut <= Matures(i)
       /\ earned = credited + r.excluded

\* A package never earns more than its cap, whoever competes for it in one run, and an
\* obligation is never paid and excluded beyond what it is worth.  A week that paid
\* commissions is still within the treasury's share after everything that was posted
\* before its end, whenever that was written.
PaidWithinLimits ==
  /\ \A i \in Sources :
       LET kept == Total([n \in DOMAIN book.payment |->
             IF ConsumesCap(book.payment[n].kind) /\ book.payment[n].pkg = i THEN book.payment[n].amount ELSE 0])
       IN kept = book.paid[i] /\ kept <= Cap(i)
  /\ \A n \in DOMAIN book.owed : Open(book.owed[n]) >= 0
  /\ \A end \in book.closed :
       (\E n \in DOMAIN book.payment : book.payment[n].kind \in Commissions /\ book.payment[n].day = end)
         => PaidBefore(book, {"roi"}, end) + PaidBefore(book, Commissions, end + 1)
              <= Percent(Alpha, Inflows(end))

\* The volume of a source pays one ancestor once, on one leg, and never more than it has.
UnitsPaidOnce ==
  \A m \in Members : \A i \in Sources :
    LET used == {a \in book.allocation : a.member = m /\ a.source = i}
    IN /\ SumFunctionOnSet([a \in used |-> a.pv], used) <= source[i].pv
       /\ \A a, c \in used : a.leg = c.leg

\* While no member is moved, later activations never change the volume already claimed,
\* so the engine never stops on a changed history.
ClaimsStay ==
  \A m \in Members : \A end \in 0..Today :
    book.claimed[m] > 0 /\ end \notin book.closed /\ (\A c \in book.closed : c < end)
      => HistoryKept(book, m, end)

\* A unit of volume is paid once to each ancestor, and what was paid stays the beginning of
\* the volume.
VolumePaidOnce == UnitsPaidOnce /\ ClaimsStay

-----------------------------------------------------------------------------
(* Liveness.  The private wake-up calls the engine again and again, and    *)
(* some of the calls have time for all their accruals and one week.  The   *)
(* first conjunct is the weak fairness of FullRun, written with the        *)
(* predicate that says when it is enabled.                                 *)

FullRun == Run(MaxAccruals, 0) \/ Run(MaxAccruals, 1)
CanRun ==
  /\ ~frozen /\ source # <<>>
  /\ LET b == Accrued(book, MaxAccruals) IN b # book \/ MayClose(b, 1)
EngineFairness == (<>[]CanRun => []<><<FullRun>>_engineVars) /\ WF_engineVars(Tick)

\* Every week after the first membership closes in the end, unless a risk freezes the
\* engine: a backlog of days is worked off in small runs and does not starve the weeks.
EveryWeekCloses ==
  \A end \in 1..MaxDay :
    source # <<>> /\ end % Week = 0 /\ end > source[1].day ~> frozen \/ end \in book.closed
=============================================================================
