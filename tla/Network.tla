------------------------------ MODULE Network ------------------------------
(***************************************************************************)
(* The binary tree of affiliates (vp-engine/internal/payments,             *)
(* _meta/schema_mlm.sql): placement of a buyer under its sponsor and       *)
(* relocation of a subtree by an administrator.                            *)
(*                                                                         *)
(* A placement is READ COMMITTED: the walk to a free slot, the INSERT,     *)
(* whose BEFORE trigger reads the path of the parent and whose foreign key *)
(* then waits for the parent's row, and the closure and counters that      *)
(* follow.  A relocation is SERIALIZABLE and locks the rows it needs; what *)
(* commits on them after its snapshot makes it fail, so its snapshot is    *)
(* the state in which it has its locks.  Every relocation that changes the *)
(* structure locks the root: there is one at a time.                       *)
(***************************************************************************)
EXTENDS Naturals, Sequences, FiniteSets, FiniteSetsExt

CONSTANTS
  Company, Old, New,              \* the company, affiliates at the start, buyers
  FirstSlot,                   \* parent, leg and sponsor of the affiliates at the start
  Inactive,                    \* affiliates that are not active
  Sponsors, Sides,             \* sponsors of the buyers; sides their links ask for
  MaxSales, NoOne

Nodes == {Company} \cup Old \cup New
Legs == {"L", "R"}

ASSUME NetworkAssumption ==
  /\ Company \notin Old \cup New /\ Old \cap New = {} /\ NoOne \notin Nodes
  /\ Inactive \subseteq Old /\ Sponsors \subseteq {Company} \cup Old
  /\ Sides \subseteq Legs \cup {"auto"} /\ MaxSales \in Nat
  /\ IsFiniteSet(Old) /\ IsFiniteSet(New)

\* The affiliates at the start are a tree: each has a slot of its own below one that
\* came before it.
ASSUME FirstSlotAssumption ==
  /\ \A n \in Old : /\ FirstSlot[n].parent \in {Company} \cup Old /\ FirstSlot[n].leg \in Legs
                    /\ FirstSlot[n].sponsor \in {Company} \cup Old
  /\ \A n, m \in Old : FirstSlot[n].parent = FirstSlot[m].parent /\ FirstSlot[n].leg = FirstSlot[m].leg => n = m
  /\ \E rank \in [Old -> 1..Cardinality(Old)] :
       \A n \in Old : FirstSlot[n].parent \in Old => rank[FirstSlot[n].parent] < rank[n]

VARIABLES
  tree,                        \* mlm.affiliate: parent, position, sponsor and path
  closure,                     \* mlm.affiliate_closure: ancestor, descendant, distance
  count, pv,                   \* left_count, right_count; left_pv, right_pv
  event,                       \* PV of the tree events of each affiliate
  credited,                    \* sponsor on the purchases and the referral of a person
  place,                       \* the placement transaction of each buyer
  move,                        \* the relocation
  overtaken                    \* buyers whose parent was moved away during their placement

netVars == <<tree, closure, count, pv, event, credited, place, move, overtaken>>

Unplaced == [parent |-> NoOne, leg |-> "", sponsor |-> NoOne, path |-> <<>>]
NoMove == [target |-> NoOne, sponsor |-> NoOne, parent |-> NoOne, leg |-> "", rows |-> {}]
NoPlace == [pc |-> "new", sponsor |-> NoOne, side |-> "auto", parent |-> NoOne, leg |-> "",
            path |-> <<>>]

Label(leg, n) == <<leg, n>>

\* The path of a node by the slots f, from the company down.
PathIn(f, n) ==
  LET up[k \in 0..Cardinality(Nodes)] ==
        [m \in Nodes |-> IF m = Company \/ k = 0 THEN <<Label("", Company)>>
                         ELSE Append(up[k - 1][f[m].parent], Label(f[m].leg, m))]
  IN up[Cardinality(Nodes)][n]

IdsOf(path) == {path[i][2] : i \in DOMAIN path}

\* The nodes of leg x of a by the slots f.
UnderLeg(f, N, a, x) ==
  {d \in N : \E i \in 1..(Len(PathIn(f, d)) - 1) :
     PathIn(f, d)[i][2] = a /\ PathIn(f, d)[i + 1][1] = x}

FirstClosure ==
  UNION {{<<PathIn(FirstSlot, d)[i][2], d, Len(PathIn(FirstSlot, d)) - i>> : i \in DOMAIN PathIn(FirstSlot, d)} :
           d \in {Company} \cup Old}

NetInit ==
  /\ tree = [n \in Nodes |->
       CASE n = Company -> [Unplaced EXCEPT !.path = <<Label("", Company)>>]
         [] n \in Old -> [parent |-> FirstSlot[n].parent, leg |-> FirstSlot[n].leg,
                          sponsor |-> FirstSlot[n].sponsor, path |-> PathIn(FirstSlot, n)]
         [] OTHER -> Unplaced]
  /\ closure = FirstClosure
  /\ count = [n \in Nodes |-> [x \in Legs |-> Cardinality(UnderLeg(FirstSlot, Old, n, x))]]
  /\ pv = [n \in Nodes |-> [x \in Legs |-> 0]]
  /\ event = [n \in Nodes |-> 0]
  /\ credited = [n \in Nodes |-> IF n \in Old THEN FirstSlot[n].sponsor ELSE NoOne]
  /\ place = [n \in New |-> NoPlace]
  /\ move = NoMove
  /\ overtaken = {}

-----------------------------------------------------------------------------
(* What the tables say.                                                    *)

Placed == {n \in Nodes : tree[n].path # <<>>}
Child(p, x) == {n \in Placed : tree[n].parent = p /\ tree[n].leg = x}
AncestorsOf(n) == {t[1] : t \in {t \in closure : t[2] = n /\ t[3] > 0}}
SubtreeOf(n) == {t[2] : t \in {t \in closure : t[1] = n}}

\* subpath(path, depth(a) + 1, 1): the leg under a; the path must reach below a.
Reaches(path, a) == Len(path) > Len(tree[a].path)
LegUnder(path, a) == path[Len(tree[a].path) + 1][1]

\* The leg with less PV, then with fewer affiliates, then the left one.
Weak(n) == IF pv[n].R < pv[n].L \/ (pv[n].R = pv[n].L /\ count[n].R < count[n].L)
           THEN "R" ELSE "L"

Chosen(n, side) == IF side \in Legs THEN side ELSE Weak(n)

\* Bug: the side of the link counts at the sponsor only.
BugSlot(sponsor, side) ==
  LET at[k \in 0..Cardinality(Nodes)] ==
        IF k = 0 THEN sponsor
        ELSE LET p == at[k - 1]
                 c == Child(p, Chosen(p, IF k = 1 THEN side ELSE "auto"))
             IN IF c = {} THEN p ELSE CHOOSE n \in c : TRUE
      end == at[Cardinality(Nodes)]
  IN [parent |-> end, leg |-> Chosen(end, IF end = sponsor THEN side ELSE "auto")]

\* The walk: from the sponsor down the chosen side to the first free slot.
Slot(sponsor, side) ==
  LET at[k \in 0..Cardinality(Nodes)] ==
        IF k = 0 THEN sponsor
        ELSE LET p == at[k - 1]
                 c == Child(p, Chosen(p, side))
             IN IF c = {} THEN p ELSE CHOOSE n \in c : TRUE
      end == at[Cardinality(Nodes)]
  IN [parent |-> end, leg |-> Chosen(end, side)]

-----------------------------------------------------------------------------
(* autoPlaceAffiliate and autoPlaceNOWAffiliate.                           *)

Walk(n, sponsor, side) ==
  /\ place[n].pc = "new"
  /\ sponsor \in Placed
  /\ LET s == Slot(sponsor, side)
     IN place' = [place EXCEPT ![n] = [pc |-> "insert", sponsor |-> sponsor, side |-> side,
                                       parent |-> s.parent, leg |-> s.leg, path |-> <<>>]]
  /\ UNCHANGED <<tree, closure, count, pv, event, credited, move, overtaken>>

\* A slot belongs to a committed row or to an INSERT in progress.
Taken(p, x) == Child(p, x) # {}
InProgress(p, x) == \E n \in New : place[n].pc = "attach" /\ place[n].parent = p /\ place[n].leg = x

\* The INSERT up to the foreign key: the path of the parent is read; a slot that was
\* taken meanwhile sends the placement back to its walk.
Insert(n) ==
  /\ place[n].pc = "insert"
  /\ LET in == place[n] IN
     /\ ~InProgress(in.parent, in.leg)
     /\ place' = [place EXCEPT ![n] =
          IF Taken(in.parent, in.leg) THEN [NoPlace EXCEPT !.sponsor = in.sponsor]
          ELSE [in EXCEPT !.pc = "attach",
                          !.path = Append(tree[in.parent].path, Label(in.leg, n))]]
  /\ UNCHANGED <<tree, closure, count, pv, event, credited, move, overtaken>>

AtOrAbove(p) == {p} \cup AncestorsOf(p)

\* Bug: the leg of the new node under each ancestor is its own position.
BugLegsByTree(n, x) == {a \in AtOrAbove(place[n].parent) : place[n].leg = x}

\* The ancestors under whose leg x the new node counts: an enrollment event finds them
\* by the path, an order of NOWPayments by the positions of the tree.
LegsByPath(n, x) == {a \in AtOrAbove(place[n].parent) : LegUnder(place[n].path, a) = x}
LegsByTree(n, x) ==
  {a \in AtOrAbove(place[n].parent) :
     \E l \in AtOrAbove(place[n].parent) \cup {n} :
       LET slot == IF l = n THEN place[n] ELSE tree[l]
       IN slot.parent = a /\ slot.leg = x}

Plus(f, L, R, k) ==
  [a \in Nodes |-> [x \in Legs |-> f[a][x] + IF a \in (IF x = "L" THEN L ELSE R) THEN k ELSE 0]]

Credit(n, sponsor) == [credited EXCEPT ![n] = sponsor]

\* The rest of the transaction, when no ancestor is locked: row, closure, counters.
Attach(n, global) ==
  /\ place[n].pc = "attach"
  /\ LET in == place[n] IN
     /\ AtOrAbove(in.parent) \cap move.rows = {}
     /\ global => \A a \in AtOrAbove(in.parent) : Reaches(in.path, a)
     /\ tree' = [tree EXCEPT ![n] = [parent |-> in.parent, leg |-> in.leg,
                                     sponsor |-> in.sponsor, path |-> in.path]]
     /\ closure' = closure \cup {<<n, n, 0>>}
                     \cup {<<t[1], n, t[3] + 1>> : t \in {t \in closure : t[2] = in.parent}}
     /\ count' = IF global THEN Plus(count, LegsByPath(n, "L"), LegsByPath(n, "R"), 1)
                 ELSE Plus(count, LegsByTree(n, "L"), LegsByTree(n, "R"), 1)
     /\ credited' = Credit(n, in.sponsor)
  /\ place' = [place EXCEPT ![n].pc = "placed"]
  /\ UNCHANGED <<pv, event, move, overtaken>>

\* An error, a deadlock or a stopped process: the transaction leaves nothing.
PlaceFails(n) ==
  /\ place[n].pc \in {"insert", "attach"}
  /\ place' = [place EXCEPT ![n] = NoPlace]
  /\ overtaken' = overtaken \ {n}
  /\ UNCHANGED <<tree, closure, count, pv, event, credited, move>>

\* fn_apply_tree_event for the PV of a purchase.
Sale(n) ==
  /\ n \in Placed \ {Company}
  /\ SumFunctionOnSet(event, Nodes) < MaxSales
  /\ LET up == AncestorsOf(n) IN
     /\ (up \cup {n}) \cap move.rows = {}
     /\ \A a \in up : Reaches(tree[n].path, a)
     /\ pv' = Plus(pv, {a \in up : LegUnder(tree[n].path, a) = "L"},
                       {a \in up : LegUnder(tree[n].path, a) = "R"}, 1)
  /\ event' = [event EXCEPT ![n] = @ + 1]
  /\ UNCHANGED <<tree, closure, count, credited, place, move, overtaken>>

-----------------------------------------------------------------------------
(* PreviewOrMoveAdminTreeRelocation.                                       *)

\* Where the target goes: a slot the administrator names under the new sponsor, its own
\* when it is under that sponsor already, or the end of the sponsor's weak leg.
Allowed(target, sponsor, to) ==
  \/ /\ to.parent \in Placed \ (SubtreeOf(target) \cup Inactive)
     /\ sponsor \in AtOrAbove(to.parent)
  \/ sponsor \in AncestorsOf(target) /\ to = [parent |-> tree[target].parent, leg |-> tree[target].leg]
  \/ sponsor \notin AncestorsOf(target) /\ to = Slot(sponsor, "auto")

LockedRows(target, sponsor, to) ==
  SubtreeOf(target) \cup {to.parent} \cup AncestorsOf(target) \cup AtOrAbove(to.parent)

\* A placement in progress holds its parent's row (FOR KEY SHARE).
HeldRows == {place[n].parent : n \in {n \in New : place[n].pc = "attach"}}

Outside(target, sponsor) == sponsor \notin SubtreeOf(target)

\* The checks and the locks.
MoveLock(target, sponsor, to) ==
  /\ move = NoMove
  /\ target \in Placed \ ({Company} \cup Inactive) /\ sponsor \in Placed \ Inactive
  /\ Outside(target, sponsor)
  /\ Child(to.parent, to.leg) \subseteq {target}
  /\ Allowed(target, sponsor, to)
  /\ tree[target].parent # to.parent \/ tree[target].leg # to.leg \/ tree[target].sponsor # sponsor
  /\ LockedRows(target, sponsor, to) \cap HeldRows = {}
  /\ move' = [target |-> target, sponsor |-> sponsor, parent |-> to.parent, leg |-> to.leg,
              rows |-> LockedRows(target, sponsor, to)]
  /\ UNCHANGED <<tree, closure, count, pv, event, credited, place, overtaken>>

\* A dry run, a refusal after the locks, a timeout: everything is rolled back.
MoveEnds ==
  /\ move # NoMove
  /\ move' = NoMove
  /\ UNCHANGED <<tree, closure, count, pv, event, credited, place, overtaken>>

Restructures == tree[move.target].parent # move.parent \/ tree[move.target].leg # move.leg

\* The path of a moved node: the new path of the root, then what it had below it.
NewPath(m, root) ==
  root \o SubSeq(tree[m].path, Len(tree[move.target].path) + 1, Len(tree[m].path))

Kept(moved) == {t \in closure : t[2] \in moved => t[1] \in moved}

\* External rows go, the moved nodes hang below the new parent at their old depth in
\* the subtree.
NewClosure(moved) ==
  LET above == {t \in closure : t[2] = move.parent}
      inside(m) == Len(tree[m].path) - Len(tree[move.target].path)
  IN Kept(moved) \cup UNION {{<<t[1], m, t[3] + 1 + inside(m)>> : t \in above} : m \in moved}

Minus(f, L, R, k) ==
  [a \in Nodes |-> [x \in Legs |->
     IF a \in (IF x = "L" THEN L ELSE R) THEN f[a][x] - k ELSE f[a][x]]]

Regrouped(f, k, oldPath, newPath) ==
  LET old == AncestorsOf(move.target)
      new == AtOrAbove(move.parent)
      On(S, path, x) == {a \in S : LegUnder(path, a) = x}
  IN Plus(Minus(f, On(old, oldPath, "L"), On(old, oldPath, "R"), k),
          On(new, newPath, "L"), On(new, newPath, "R"), k)

\* validateAdminTreeRelocationIntegrity: nothing negative, counters and PV as paths and
\* closure say, for the ancestors that changed.
Intact(t, c, counts, pvs, moved) ==
  \A a \in AncestorsOf(move.target) \cup AtOrAbove(move.parent) :
    \A x \in Legs :
      LET below == {r[2] : r \in {r \in c : r[1] = a /\ r[3] > 0}}
          leg == {d \in below : Len(t[d].path) > Len(t[a].path) /\ t[d].path[Len(t[a].path) + 1][1] = x}
      IN /\ counts[a][x] = Cardinality(leg)
         /\ pvs[a][x] = SumFunctionOnSet(event, leg)

MoveCommit ==
  /\ move # NoMove
  /\ LET target == move.target
         moved == SubtreeOf(target)
         root == Append(tree[move.parent].path, Label(move.leg, target))
         sold == SumFunctionOnSet(event, moved)
         t == [n \in Nodes |->
                 IF n \notin moved THEN tree[n]
                 ELSE IF n = target THEN [parent |-> move.parent, leg |-> move.leg,
                                          sponsor |-> move.sponsor, path |-> root]
                 ELSE [tree[n] EXCEPT !.path = NewPath(n, root)]]
     IN IF Restructures
        THEN /\ ~InProgress(move.parent, move.leg)
             /\ \A a \in AncestorsOf(target) : Reaches(tree[target].path, a)
             /\ \A m \in moved \ {target} : Reaches(tree[m].path, target)
             /\ tree' = t
             /\ closure' = NewClosure(moved)
             /\ count' = Regrouped(count, Cardinality(moved), tree[target].path, root)
             /\ pv' = Regrouped(pv, sold, tree[target].path, root)
             /\ Intact(t, closure', count', pv', moved)
             /\ overtaken' = overtaken \cup {n \in New : place[n].pc \in {"insert", "attach"}
                                                           /\ place[n].parent \in moved}
        ELSE /\ tree' = [tree EXCEPT ![target].sponsor = move.sponsor]
             /\ UNCHANGED <<closure, count, pv, overtaken>>
  /\ credited' = Credit(move.target, move.sponsor)
  /\ move' = NoMove
  /\ UNCHANGED <<event, place>>

NetNext ==
  \/ \E n \in New : \/ \E s \in Sponsors, side \in Sides : Walk(n, s, side)
                    \/ Insert(n) \/ PlaceFails(n)
                    \/ \E global \in BOOLEAN : Attach(n, global)
  \/ \E n \in Nodes : Sale(n)
  \/ \E target, sponsor, p \in Placed, x \in Legs : MoveLock(target, sponsor, [parent |-> p, leg |-> x])
  \/ MoveCommit \/ MoveEnds

NetSpec == NetInit /\ [][NetNext]_netVars

-----------------------------------------------------------------------------

NetTypeOK ==
  /\ DOMAIN tree = Nodes
  /\ \A n \in Nodes : /\ tree[n].parent \in Nodes \cup {NoOne} /\ tree[n].leg \in Legs \cup {""}
                      /\ tree[n].sponsor \in Nodes \cup {NoOne}
                      /\ \A i \in DOMAIN tree[n].path : tree[n].path[i] \in (Legs \cup {""}) \X Nodes
  /\ \A t \in closure : t \in Nodes \X Nodes \X Nat
  /\ \A n \in Nodes, x \in Legs : count[n][x] \in Nat /\ pv[n][x] \in Nat
  /\ event \in [Nodes -> Nat]
  /\ credited \in [Nodes -> Nodes \cup {NoOne}]
  /\ \A n \in New : place[n].pc \in {"new", "insert", "attach", "placed"}
  /\ move.rows \subseteq Nodes /\ overtaken \subseteq New

-----------------------------------------------------------------------------
(* Safety.  A placement whose parent is moved between its walk and its     *)
(* foreign key keeps the path of the old place (README, "Known races"):    *)
(* what the paths decide is stated for the histories in which none was.    *)

\* The slots the tree is made of, whatever the columns derived from them say.
Real(a, d) == a \in IdsOf(PathIn(tree, d))

\* Relocations and placements together always leave one tree: no two in one slot, and
\* everybody hangs from the company (no cycle, no lost branch).
OneTree ==
  /\ \A n, m \in Placed \ {Company} : tree[n].parent = tree[m].parent /\ tree[n].leg = tree[m].leg => n = m
  /\ \A n \in Placed \ {Company} :
       \E k \in 1..Cardinality(Nodes) :
         LET up[j \in 0..k] == IF j = 0 THEN n
                               ELSE IF up[j - 1] = Company THEN Company ELSE tree[up[j - 1]].parent
         IN up[k] = Company

\* The closure is the ancestry of the tree at its distances, and every path that of the
\* parent with one more label.
ClosureExact ==
  overtaken = {} =>
    /\ \A n \in Placed : tree[n].path = PathIn(tree, n)
    /\ closure = {t \in Placed \X Placed \X (0..Cardinality(Nodes)) :
                    Real(t[1], t[2]) /\ t[3] = Len(tree[t[2]].path) - Len(tree[t[1]].path)}

\* Counters and PV of every leg are those of the affiliates that hang from it.
CountsExact ==
  overtaken = {} =>
    \A a \in Placed, x \in Legs :
      LET leg == UnderLeg(tree, Placed, a, x)
      IN /\ count[a][x] = Cardinality(leg)
         /\ pv[a][x] = SumFunctionOnSet(event, leg)

\* A buyer who came by a link of one side is placed at the outer end of that side of its
\* sponsor, and anybody below the sponsor, unless a branch was moved during the placement.
SideRespected ==
  [][\A n \in New : place[n].pc = "attach" /\ place'[n].pc = "placed" /\ n \notin overtaken =>
       LET way == SubSeq(PathIn(tree', n), Len(PathIn(tree', place[n].sponsor)) + 1, Len(PathIn(tree', n)))
       IN /\ Real(place[n].sponsor, place[n].parent)
          /\ way # <<>>
          /\ place[n].side \in Legs => \A i \in DOMAIN way : way[i][1] = place[n].side]_netVars

\* The sponsor the tree pays is the one the purchases and the referral name.
SponsorsAgree == \A n \in Placed \ {Company} : tree[n].sponsor = credited[n]

\* What four tables say of the network is one tree.
TreeAgrees == OneTree /\ ClosureExact /\ CountsExact /\ SponsorsAgree
=============================================================================
