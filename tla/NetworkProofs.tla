--------------------------- MODULE NetworkProofs ---------------------------
(***************************************************************************)
(* Proofs about Network for any affiliates, buyers, first tree, sponsors,  *)
(* sides and number of sales.                                              *)
(*                                                                         *)
(* Recursion is met once, in what PathIn computes (PathMeaning); after it  *)
(* a tree is a relation: Hung says of the closure, node by node, that what *)
(* is above a node is what is above its parent and the node itself, and    *)
(* DownTheTree carries what holds of the company down such a tree.         *)
(***************************************************************************)
EXTENDS Network, Sums, SequenceTheorems, TLAPS

-----------------------------------------------------------------------------
(* The tree of the affiliates.                                             *)

\* N hangs from the company by the slots f: whoever is above comes first in some ranking.
Rooted(N, f) ==
  /\ Company \in N /\ N \subseteq Nodes
  /\ \E rank \in [N -> 0..Cardinality(Nodes)] :
       \A n \in N \ {Company} : f[n].parent \in N /\ rank[f[n].parent] < rank[n] /\ f[n].leg \in Legs

LEMMA NodesFinite == IsFiniteSet(Nodes) /\ Cardinality(Nodes) \in Nat
<1>1. IsFiniteSet({Company} \cup Old \cup New)
  BY NetworkAssumption, FS_Singleton, FS_Union
<1> QED
  BY <1>1, FS_CardinalityType DEF Nodes

\* What holds of the company and goes from a parent to its children holds of a tree.
LEMMA DownTheTree ==
  ASSUME NEW N, NEW f, Rooted(N, f), NEW G, Company \in G,
         \A n \in N \ {Company} : f[n].parent \in G => n \in G
  PROVE  N \subseteq G
<1>1. PICK rank \in [N -> 0..Cardinality(Nodes)] :
        \A n \in N \ {Company} : f[n].parent \in N /\ rank[f[n].parent] < rank[n] /\ f[n].leg \in Legs
  BY DEF Rooted
<1>2. PICK c : c = Cardinality(Nodes)
  OBVIOUS
<1> DEFINE H == {k \in Nat : \A n \in N : rank[n] <= k => n \in G}
<1>3. c \in Nat /\ rank \in [N -> 0..c]
  BY <1>2, NodesFinite
<1>4. 0 \in H
  <2> SUFFICES ASSUME NEW n \in N, rank[n] <= 0 PROVE n \in G
    OBVIOUS
  <2>1. CASE n = Company
    BY <2>1
  <2>2. CASE n # Company
    BY <1>1, <1>3, <2>2
  <2> QED
    BY <2>1, <2>2
<1>5. ASSUME NEW k \in 1..c, k - 1 \in H PROVE k \in H
  <2> SUFFICES ASSUME NEW n \in N, rank[n] <= k PROVE n \in G
    OBVIOUS
  <2>1. CASE n = Company
    BY <2>1
  <2>2. CASE n # Company
    <3>1. f[n].parent \in N /\ rank[f[n].parent] <= k - 1
      BY <1>1, <1>3, <2>2
    <3>2. f[n].parent \in G
      BY <1>5, <3>1
    <3> QED
      BY <2>2, <3>2
  <2> QED
    BY <2>1, <2>2
<1> HIDE DEF H
<1>6. c \in H
  <2>1. \A k \in 0..c : k \in H
    BY <1>3, <1>4, <1>5, UpTo
  <2> QED
    BY <1>3, <2>1
<1> QED
  BY <1>3, <1>6 DEF H

\* r says the path of every node of N.
Paths(N, f, r) ==
  /\ r[Company] = <<Label("", Company)>>
  /\ \A n \in N \ {Company} : r[n] = Append(r[f[n].parent], Label(f[n].leg, n))

Root == <<Label("", Company)>>
Climbs(f, up, k) ==
  /\ up[0] = [m \in Nodes |-> Root]
  /\ \A j \in 1..k : up[j] = [m \in Nodes |-> IF m = Company THEN Root
                                              ELSE Append(up[j - 1][f[m].parent], Label(f[m].leg, m))]

\* The recursive function of PathIn exists.
LEMMA PathClimbs ==
  ASSUME NEW f
  PROVE  \E up : Climbs(f, up, Cardinality(Nodes)) /\ \A n : PathIn(f, n) = up[Cardinality(Nodes)][n]
<1> DEFINE Step(c, k) == [m \in Nodes |-> IF m = Company \/ k = 0 THEN Root
                                          ELSE Append(c[f[m].parent], Label(f[m].leg, m))]
           Is(h, m) == h = [k \in 0..m |-> Step(h[k - 1], k)]
           G == {m \in Nat : \E h : Is(h, m)}
<1>1. PICK n : n = Cardinality(Nodes)
  OBVIOUS
<1> DEFINE up == CHOOSE h : Is(h, n)
<1>2. n \in Nat /\ \A m : PathIn(f, m) = up[n][m]
  BY <1>1, NodesFinite DEF PathIn, Root
<1>a. \A c, d : Step(c, 0) = Step(d, 0)
  OBVIOUS
<1> HIDE DEF Step
<1>3. 0 \in G
  <2> DEFINE g == [k \in 0..0 |-> Step(0, 0)]
  <2>1. \A k \in 0..0 : g[k] = Step(g[k - 1], k)
    BY <1>a
  <2>2. g = [k \in 0..0 |-> Step(g[k - 1], k)]
    BY <2>1
  <2> QED
    BY <2>2
<1>4. ASSUME NEW m \in 1..n, m - 1 \in G PROVE m \in G
  <2>1. PICK h : Is(h, m - 1)
    BY <1>4
  <2> DEFINE g == [k \in 0..m |-> IF k < m THEN h[k] ELSE Step(h[m - 1], m)]
  <2>2. m \in Nat /\ \A k \in 0..(m - 1) : h[k] = Step(h[k - 1], k)
    BY <1>2, <2>1
  <2>3. ASSUME NEW k \in 0..m PROVE g[k] = Step(g[k - 1], k)
    <3>1. CASE k < m
      <4>1. k \in 0..(m - 1) /\ g[k] = h[k] /\ h[k] = Step(h[k - 1], k)
        BY <2>2, <2>3, <3>1
      <4>2. k # 0 => k - 1 \in 0..m /\ k - 1 < m /\ g[k - 1] = h[k - 1]
        BY <2>2, <2>3, <3>1
      <4>3. k = 0 => Step(g[k - 1], k) = Step(h[k - 1], k)
        BY <1>a
      <4> HIDE DEF g
      <4> QED
        BY <4>1, <4>2, <4>3
    <3>2. CASE k = m
      <4>1. g[m] = Step(h[m - 1], m) /\ g[m - 1] = h[m - 1]
        BY <1>2, <2>2
      <4> HIDE DEF g
      <4> QED
        BY <3>2, <4>1
    <3> QED
      BY <2>2, <2>3, <3>1, <3>2
  <2>4. g = [k \in 0..m |-> Step(g[k - 1], k)]
    <3>1. g = [k \in 0..m |-> g[k]]
      OBVIOUS
    <3> HIDE DEF g
    <3> QED
      BY <2>3, <3>1
  <2> HIDE DEF g
  <2> QED
    BY <2>2, <2>4
<1>5. n \in G
  <2> HIDE DEF G
  <2>1. \A k \in 0..n : k \in G
    BY <1>2, <1>3, <1>4, UpTo
  <2> QED
    BY <1>2, <2>1
<1>6. Is(up, n)
  BY <1>5
<1> HIDE DEF up
<1>7. \A k \in 0..n : up[k] = Step(up[k - 1], k)
  BY <1>6
<1>8. Climbs(f, up, n)
  <2>1. 0 \in 0..n /\ \A k \in 1..n : k \in 0..n /\ k # 0
    BY <1>2
  <2>2. up[0] = Step(up[0 - 1], 0)
    BY <1>7, <2>1
  <2>3. up[0] = [m \in Nodes |-> Root]
    BY <2>2 DEF Step
  <2>4. ASSUME NEW k \in 1..n
        PROVE  up[k] = [m \in Nodes |-> IF m = Company THEN Root
                                        ELSE Append(up[k - 1][f[m].parent], Label(f[m].leg, m))]
    BY <1>7, <2>1 DEF Step
  <2> QED
    BY <2>3, <2>4 DEF Climbs
<1> QED
  BY <1>1, <1>2, <1>8

\* A path is that of the parent with one more label.
LEMMA PathMeaning ==
  ASSUME NEW N, NEW f, Rooted(N, f)
  PROVE  Paths(N, f, [n \in Nodes |-> PathIn(f, n)])
<1>1. PICK rank \in [N -> 0..Cardinality(Nodes)] :
        \A n \in N \ {Company} : f[n].parent \in N /\ rank[f[n].parent] < rank[n]
  BY DEF Rooted
<1>2. PICK up : Climbs(f, up, Cardinality(Nodes)) /\ \A n : PathIn(f, n) = up[Cardinality(Nodes)][n]
  BY PathClimbs
<1>3. PICK c : c = Cardinality(Nodes)
  OBVIOUS
<1>4. c \in Nat /\ rank \in [N -> 0..c] /\ N \subseteq Nodes /\ Company \in N
  BY <1>3, NodesFinite DEF Rooted
<1>5. \A j \in 0..c : up[j][Company] = Root
  <2>1. Company \in Nodes
    BY <1>4
  <2>2. up[0][Company] = Root
    BY <1>2, <2>1 DEF Climbs
  <2>3. ASSUME NEW j \in 1..c PROVE up[j][Company] = Root
    <3>1. up[j] = [m \in Nodes |-> IF m = Company THEN Root
                                   ELSE Append(up[j - 1][f[m].parent], Label(f[m].leg, m))]
      BY <1>2, <1>3 DEF Climbs
    <3> QED
      BY <2>1, <3>1
  <2>4. \A j \in 0..c : j = 0 \/ j \in 1..c
    BY <1>4
  <2> QED
    BY <2>2, <2>3, <2>4
<1>6. \A j \in 1..c : \A n \in N \ {Company} : up[j][n] = Append(up[j - 1][f[n].parent], Label(f[n].leg, n))
  <2> TAKE j \in 1..c
  <2>1. up[j] = [m \in Nodes |-> IF m = Company THEN Root
                                 ELSE Append(up[j - 1][f[m].parent], Label(f[m].leg, m))]
    BY <1>2, <1>3 DEF Climbs
  <2> QED
    BY <1>4, <2>1
<1> DEFINE H == {k \in Nat : \A n \in N : rank[n] <= k => \A j \in k..c : up[j][n] = up[c][n]}
<1>7. 0 \in H
  <2> SUFFICES ASSUME NEW n \in N, rank[n] <= 0 PROVE \A j \in 0..c : up[j][n] = up[c][n]
    OBVIOUS
  <2>1. n = Company
    BY <1>1, <1>4
  <2> QED
    BY <1>4, <1>5, <2>1
<1>8. ASSUME NEW k \in 1..c, k - 1 \in H PROVE k \in H
  <2> SUFFICES ASSUME NEW n \in N, rank[n] <= k, NEW j \in k..c PROVE up[j][n] = up[c][n]
    BY <1>4
  <2>1. CASE n = Company
    BY <1>4, <1>5, <2>1
  <2>2. CASE n # Company
    <3> DEFINE p == f[n].parent
    <3>1. p \in N /\ rank[p] <= k - 1
      BY <1>1, <1>4, <2>2
    <3>2. j - 1 \in (k - 1)..c /\ c - 1 \in (k - 1)..c /\ j \in 1..c /\ c \in 1..c
      BY <1>4
    <3>3. up[j - 1][p] = up[c][p] /\ up[c - 1][p] = up[c][p]
      BY <1>8, <3>1, <3>2
    <3>4. up[j][n] = Append(up[j - 1][p], Label(f[n].leg, n)) /\ up[c][n] = Append(up[c - 1][p], Label(f[n].leg, n))
      BY <1>6, <2>2, <3>2
    <3> QED
      BY <3>3, <3>4
  <2> QED
    BY <2>1, <2>2
<1> HIDE DEF H
<1>9. \A k \in 0..c : k \in H
  BY <1>4, <1>7, <1>8, UpTo
<1>10. ASSUME NEW n \in N \ {Company}
       PROVE  up[c][n] = Append(up[c][f[n].parent], Label(f[n].leg, n))
  <2>1. f[n].parent \in N /\ rank[f[n].parent] <= c - 1 /\ c \in 1..c
    BY <1>1, <1>4
  <2>2. c - 1 \in H /\ c - 1 \in (c - 1)..c
    BY <1>4, <1>9, <2>1
  <2>3. up[c - 1][f[n].parent] = up[c][f[n].parent]
    BY <2>1, <2>2 DEF H
  <2> QED
    BY <1>6, <2>1, <2>3
<1>11. \A n \in N \ {Company} : f[n].parent \in Nodes
  BY <1>1, <1>4
<1>12. up[c][Company] = Root
  BY <1>4, <1>5
<1>13. \A n \in Nodes : PathIn(f, n) = up[c][n]
  BY <1>2, <1>3
<1> QED
  BY <1>4, <1>10, <1>11, <1>12, <1>13 DEF Paths, Root

\* There is one path for each node.
LEMMA OnePath ==
  ASSUME NEW N, NEW f, Rooted(N, f), NEW r, Paths(N, f, r)
  PROVE  \A n \in N : r[n] = PathIn(f, n)
<1> DEFINE G == {n \in N : r[n] = PathIn(f, n)}
<1>1. Company \in N /\ \A n \in N \ {Company} : f[n].parent \in N
  BY DEF Rooted
<1>2. \A n \in N : n \in Nodes
  BY DEF Rooted
<1>3. PathIn(f, Company) = <<Label("", Company)>>
  BY <1>1, <1>2, PathMeaning DEF Paths
<1>4. \A n \in N \ {Company} : PathIn(f, n) = Append(PathIn(f, f[n].parent), Label(f[n].leg, n))
  <2> DEFINE q == [n \in Nodes |-> PathIn(f, n)]
  <2>1. Paths(N, f, q)
    BY PathMeaning
  <2>2. \A n \in N : q[n] = PathIn(f, n)
    BY <1>2
  <2> HIDE DEF q
  <2>3. \A n \in N \ {Company} : q[n] = Append(q[f[n].parent], Label(f[n].leg, n))
    BY <2>1 DEF Paths
  <2> QED
    BY <1>1, <2>2, <2>3
<1>5. Company \in G
  BY <1>1, <1>3 DEF Paths
<1>6. ASSUME NEW n \in N \ {Company}, f[n].parent \in G PROVE n \in G
  BY <1>4, <1>6 DEF Paths
<1> HIDE DEF G
<1>7. N \subseteq G
  BY <1>5, <1>6, DownTheTree
<1> QED
  BY <1>7 DEF G

LEMMA OneLabel == \A S : \A x \in S : <<x>> \in Seq(S) /\ Len(<<x>>) = 1 /\ <<x>>[1] = x
  OBVIOUS

LEMMA OneMore ==
  ASSUME NEW S, NEW s \in Seq(S), NEW x \in S
  PROVE  /\ Len(s) \in Nat /\ Append(s, x) \in Seq(S) /\ Len(Append(s, x)) = Len(s) + 1
         /\ Append(s, x)[Len(s) + 1] = x /\ \A i \in 1..Len(s) : Append(s, x)[i] = s[i]
  OBVIOUS

Labels == (Legs \cup {""}) \X Nodes

\* What stands on the path of d: at every place a node whose own path ends there, below
\* the one before it.
Stands(N, f, r, d) ==
  /\ r[d] \in Seq(Labels) /\ Len(r[d]) >= 1 /\ r[d][Len(r[d])][2] = d
  /\ \A i \in 1..Len(r[d]) :
       /\ r[d][i][2] \in N /\ Len(r[r[d][i][2]]) = i /\ r[r[d][i][2]][i] = r[d][i]
       /\ i = 1 => r[d][i][2] = Company
       /\ i > 1 => /\ r[d][i][2] # Company /\ f[r[d][i][2]].parent = r[d][i - 1][2]
                   /\ r[d][i][1] = f[r[d][i][2]].leg

LEMMA AllStand ==
  ASSUME NEW N, NEW f, Rooted(N, f), NEW r, Paths(N, f, r)
  PROVE  \A d \in N : Stands(N, f, r, d)
<1> DEFINE G == {d \in N : Stands(N, f, r, d)}
<1>1. /\ Company \in N /\ N \subseteq Nodes
      /\ \A n \in N \ {Company} : f[n].parent \in N /\ f[n].leg \in Legs
  BY DEF Rooted
<1>2. Company \in G
  <2>1. r[Company] = <<Label("", Company)>>
    BY DEF Paths
  <2>2. <<"", Company>> \in Labels
    BY <1>1 DEF Labels
  <2>3. PICK e : e = <<"", Company>>
    OBVIOUS
  <2>4. e \in Labels /\ e[2] = Company /\ r[Company] = <<e>>
    BY <2>1, <2>2, <2>3 DEF Label
  <2>5. r[Company] \in Seq(Labels) /\ Len(r[Company]) = 1 /\ r[Company][1] = e
    BY <2>4, OneLabel
  <2>6. \A i \in 1..Len(r[Company]) : i = 1 /\ r[Company][i][2] = Company
    BY <2>4, <2>5
  <2>7. ASSUME NEW i \in 1..Len(r[Company])
        PROVE  /\ r[Company][i][2] \in N /\ Len(r[r[Company][i][2]]) = i /\ r[r[Company][i][2]][i] = r[Company][i]
               /\ r[Company][i][2] = Company /\ ~(i > 1)
    <3>1. i = 1 /\ r[Company][i][2] = Company
      BY <2>6
    <3> QED
      BY <1>1, <2>5, <3>1
  <2>8. Len(r[Company]) >= 1 /\ r[Company][Len(r[Company])][2] = Company
    <3>1. Len(r[Company]) = 1
      BY <2>5
    <3> QED
      BY <2>4, <2>5, <3>1
  <2>9. Stands(N, f, r, Company)
    BY <2>5, <2>7, <2>8 DEF Stands
  <2> QED
    BY <1>1, <2>9
<1>3. ASSUME NEW n \in N \ {Company}, f[n].parent \in G PROVE n \in G
  <2>1. PICK p : p = f[n].parent
    OBVIOUS
  <2>2. p \in N /\ Stands(N, f, r, p) /\ f[n].leg \in Legs
    BY <1>1, <1>3, <2>1
  <2>3. r[n] = Append(r[p], <<f[n].leg, n>>)
    BY <2>1 DEF Paths, Label
  <2>4. r[p] \in Seq(Labels) /\ Len(r[p]) \in Nat /\ <<f[n].leg, n>> \in Labels /\ Len(r[p]) >= 1
    <3>1. r[p] \in Seq(Labels) /\ Len(r[p]) >= 1
      BY <2>2 DEF Stands
    <3>2. Len(r[p]) \in Nat
      BY <3>1, LenProperties
    <3>3. <<f[n].leg, n>> \in Labels
      BY <1>1, <2>2 DEF Labels
    <3> QED
      BY <3>1, <3>2, <3>3
  <2>5. /\ r[n] \in Seq(Labels) /\ Len(r[n]) = Len(r[p]) + 1
        /\ r[n][Len(r[p]) + 1] = <<f[n].leg, n>>
        /\ \A i \in 1..Len(r[p]) : r[n][i] = r[p][i]
    BY <2>3, <2>4, OneMore
  <2>6. r[p][Len(r[p])][2] = p
    BY <2>2 DEF Stands
  <2>7. ASSUME NEW i \in 1..Len(r[n])
        PROVE  /\ r[n][i][2] \in N /\ Len(r[r[n][i][2]]) = i /\ r[r[n][i][2]][i] = r[n][i]
               /\ i = 1 => r[n][i][2] = Company
               /\ i > 1 => /\ r[n][i][2] # Company /\ f[r[n][i][2]].parent = r[n][i - 1][2]
                           /\ r[n][i][1] = f[r[n][i][2]].leg
    <3>1. CASE i \in 1..Len(r[p])
      <4>1. r[n][i] = r[p][i] /\ (i > 1 => r[n][i - 1] = r[p][i - 1])
        <5>1. i > 1 => i - 1 \in 1..Len(r[p])
          BY <2>4, <3>1
        <5> QED
          BY <2>5, <3>1, <5>1
      <4> QED
        BY <2>2, <3>1, <4>1 DEF Stands
    <3>2. CASE i = Len(r[p]) + 1
      <4>1. r[n][i] = <<f[n].leg, n>> /\ r[n][i][2] = n /\ r[n][i][1] = f[n].leg
        BY <2>5, <3>2
      <4>2. r[n][i - 1] = r[p][Len(r[p])] /\ i > 1
        BY <2>4, <2>5, <3>2
      <4>3. PICK d : d = r[n][i][2] /\ d = n
        BY <4>1
      <4>4. n \in N /\ n # Company /\ i # 1
        BY <2>4, <3>2
      <4>5. Len(r[d]) = i /\ r[d][i] = r[n][i]
        BY <2>5, <3>2, <4>3
      <4>6. f[d].parent = r[n][i - 1][2]
        <5>1. r[n][i - 1][2] = p
          BY <2>6, <4>2
        <5> QED
          BY <2>1, <4>3, <5>1
      <4>7. r[n][i][1] = f[d].leg
        BY <4>1, <4>3
      <4> QED
        BY <4>3, <4>4, <4>5, <4>6, <4>7
    <3> QED
      BY <2>4, <2>5, <3>1, <3>2
  <2>8. r[n][Len(r[n])][2] = n
    BY <2>5
  <2> QED
    BY <2>4, <2>5, <2>7, <2>8 DEF Stands
<1> HIDE DEF G
<1>4. N \subseteq G
  BY <1>2, <1>3, DownTheTree
<1> QED
  BY <1>4 DEF G

-----------------------------------------------------------------------------
(* The closure.                                                            *)

\* The affiliates at or above n, by the closure C.
Up(C, n) == {t[1] : t \in {t \in C : t[2] = n}}

\* The rows of the closure: a distance is zero on the diagonal only.
Rows(N, C) ==
  \A t \in C : /\ t = <<t[1], t[2], t[3]>> /\ t[1] \in N /\ t[2] \in N
               /\ t[3] \in Nat /\ (t[3] = 0 <=> t[1] = t[2])

\* The closure C is the ancestry of the slots f.
Hung(N, f, C) ==
  /\ Company \in N /\ N \subseteq Nodes /\ Rows(N, C) /\ Up(C, Company) = {Company}
  /\ \A n \in N \ {Company} :
       /\ f[n].parent \in N /\ f[n].leg \in Legs
       /\ n \notin Up(C, f[n].parent) /\ Up(C, n) = Up(C, f[n].parent) \cup {n}

LEMMA UpIn == ASSUME NEW N, NEW C, Rows(N, C), NEW n PROVE Up(C, n) \subseteq N
  BY DEF Rows, Up

LEMMA HungRooted ==
  ASSUME NEW N, NEW f, NEW C, Hung(N, f, C)
  PROVE  Rooted(N, f)
<1> DEFINE rank == [n \in N |-> Cardinality(Up(C, n))]
<1>1. Company \in N /\ N \subseteq Nodes /\ Rows(N, C)
  BY DEF Hung
<1>2. ASSUME NEW n PROVE IsFiniteSet(Up(C, n)) /\ Cardinality(Up(C, n)) \in 0..Cardinality(Nodes)
  <2>1. Up(C, n) \subseteq Nodes
    BY <1>1, UpIn
  <2>2. IsFiniteSet(Up(C, n)) /\ Cardinality(Up(C, n)) <= Cardinality(Nodes)
    BY <2>1, NodesFinite, FS_Subset
  <2>3. Cardinality(Up(C, n)) \in Nat
    BY <2>2, FS_CardinalityType
  <2> QED
    BY <2>2, <2>3, NodesFinite
<1>3. ASSUME NEW n \in N \ {Company}
      PROVE  f[n].parent \in N /\ f[n].leg \in Legs /\ Cardinality(Up(C, f[n].parent)) < Cardinality(Up(C, n))
  <2>1. /\ f[n].parent \in N /\ f[n].leg \in Legs
        /\ n \notin Up(C, f[n].parent) /\ Up(C, n) = Up(C, f[n].parent) \cup {n}
    BY DEF Hung
  <2>2. Cardinality(Up(C, n)) = Cardinality(Up(C, f[n].parent)) + 1
    BY <1>2, <2>1, FS_AddElement
  <2>3. Cardinality(Up(C, f[n].parent)) \in Nat
    BY <1>2, NodesFinite
  <2> QED
    BY <2>1, <2>2, <2>3
<1>4. rank \in [N -> 0..Cardinality(Nodes)]
  BY <1>2
<1>5. \A n \in N \ {Company} : f[n].parent \in N /\ rank[f[n].parent] < rank[n] /\ f[n].leg \in Legs
  BY <1>3
<1> HIDE DEF rank
<1> QED
  BY <1>1, <1>4, <1>5 DEF Rooted

\* What the ancestry of one node says of that of the nodes above it.
LEMMA UpFacts ==
  ASSUME NEW N, NEW f, NEW C, Hung(N, f, C), NEW d \in N
  PROVE  /\ d \in Up(C, d) /\ Company \in Up(C, d)
         /\ \A a \in Up(C, d) :
              /\ a \in N /\ Up(C, a) \subseteq Up(C, d)
              /\ d \in Up(C, a) => a = d
              /\ a # d => \E c \in Up(C, d) \ {Company} : f[c].parent = a
              /\ a # Company => f[a].parent \in Up(C, d)
         /\ \A a, b \in Up(C, d) : a \in Up(C, b) \/ b \in Up(C, a)
<1> DEFINE P(n) ==
         /\ n \in Up(C, n) /\ Company \in Up(C, n)
         /\ \A a \in Up(C, n) :
              /\ a \in N /\ Up(C, a) \subseteq Up(C, n)
              /\ n \in Up(C, a) => a = n
              /\ a # n => \E c \in Up(C, n) \ {Company} : f[c].parent = a
              /\ a # Company => f[a].parent \in Up(C, n)
         /\ \A a, b \in Up(C, n) : a \in Up(C, b) \/ b \in Up(C, a)
<1> DEFINE G == {n \in N : P(n)}
<1>1. Company \in N /\ Up(C, Company) = {Company}
  BY DEF Hung
<1>2. Company \in G
  <2> HIDE DEF Up
  <2> QED
    BY <1>1
<1>3. ASSUME NEW n \in N \ {Company}, f[n].parent \in G PROVE n \in G
  <2>1. PICK p : p = f[n].parent
    OBVIOUS
  <2>2. p \in N /\ n \notin Up(C, p) /\ Up(C, n) = Up(C, p) \cup {n}
    BY <2>1 DEF Hung
  <2>3. P(p)
    BY <1>3, <2>1
  <2>4. p \in Up(C, p) /\ Company \in Up(C, p) /\ n # Company
    BY <2>3
  <2>5. \A a \in Up(C, p) : /\ a \in N /\ Up(C, a) \subseteq Up(C, p)
                            /\ a # p => \E c \in Up(C, p) \ {Company} : f[c].parent = a
                            /\ a # Company => f[a].parent \in Up(C, p)
    BY <2>3
  <2>6. \A a, b \in Up(C, p) : a \in Up(C, b) \/ b \in Up(C, a)
    BY <2>3
  <2> HIDE DEF P, G
  <2>7. n \in Up(C, n) /\ Company \in Up(C, n)
    BY <2>2, <2>4
  <2>8. ASSUME NEW a \in Up(C, n)
        PROVE  /\ a \in N /\ Up(C, a) \subseteq Up(C, n)
               /\ n \in Up(C, a) => a = n
               /\ a # n => \E c \in Up(C, n) \ {Company} : f[c].parent = a
               /\ a # Company => f[a].parent \in Up(C, n)
    <3>1. CASE a = n
      BY <2>1, <2>2, <2>4, <3>1
    <3>2. CASE a \in Up(C, p)
      <4>1. a \in N /\ Up(C, a) \subseteq Up(C, p) /\ (a # Company => f[a].parent \in Up(C, p))
        BY <2>5, <3>2
      <4>2. n \notin Up(C, a)
        BY <2>2, <4>1
      <4>3. \E c \in Up(C, n) \ {Company} : f[c].parent = a
        <5>1. CASE a = p
          BY <2>1, <2>4, <2>7, <5>1
        <5>2. CASE a # p
          BY <2>2, <2>5, <3>2, <5>2
        <5> QED
          BY <5>1, <5>2
      <4> QED
        BY <2>2, <4>1, <4>2, <4>3
    <3> QED
      BY <2>2, <2>8, <3>1, <3>2
  <2>9. ASSUME NEW a \in Up(C, n), NEW b \in Up(C, n) PROVE a \in Up(C, b) \/ b \in Up(C, a)
    <3>1. CASE a = n \/ b = n
      BY <3>1
    <3>2. CASE a # n /\ b # n
      BY <2>2, <2>6, <3>2
    <3> QED
      BY <3>1, <3>2
  <2>10. P(n)
    BY <2>7, <2>8, <2>9 DEF P
  <2> QED
    BY <2>10 DEF G
<1> HIDE DEF P, G
<1>4. N \subseteq G
  BY <1>2, <1>3, HungRooted, DownTheTree
<1>5. P(d)
  BY <1>4 DEF G
<1> QED
  BY <1>5 DEF P

\* Who is above is on the path.
LEMMA UpIsPath ==
  ASSUME NEW N, NEW f, NEW C, Hung(N, f, C), NEW r, Paths(N, f, r)
  PROVE  \A d \in N : Up(C, d) = IdsOf(r[d])
<1> DEFINE G == {d \in N : Up(C, d) = IdsOf(r[d])}
<1>1. Company \in N /\ Up(C, Company) = {Company} /\ Rooted(N, f)
  BY HungRooted DEF Hung
<1>2. ASSUME NEW d \in N PROVE r[d] \in Seq(Labels) /\ Len(r[d]) \in Nat /\ DOMAIN r[d] = 1..Len(r[d])
  <2>1. r[d] \in Seq(Labels)
    BY <1>1, AllStand DEF Stands
  <2> QED
    BY <2>1, LenProperties
<1>3. Company \in G
  <2>1. PICK e : e = <<"", Company>>
    OBVIOUS
  <2>2. e[2] = Company /\ r[Company] = <<e>>
    BY <2>1 DEF Paths, Label
  <2>3. DOMAIN r[Company] = {1} /\ r[Company][1] = e
    BY <2>2
  <2> QED
    BY <1>1, <2>2, <2>3 DEF IdsOf
<1>4. ASSUME NEW n \in N \ {Company}, f[n].parent \in G PROVE n \in G
  <2>1. PICK p : p = f[n].parent
    OBVIOUS
  <2>2. p \in N /\ Up(C, n) = Up(C, p) \cup {n} /\ f[n].leg \in Legs /\ n \in Nodes
    BY <2>1 DEF Hung
  <2>3. PICK e : e = <<f[n].leg, n>>
    OBVIOUS
  <2>4. e \in Labels /\ e[2] = n /\ r[n] = Append(r[p], e)
    BY <2>1, <2>2, <2>3 DEF Paths, Label, Labels
  <2>5. r[p] \in Seq(Labels) /\ Len(r[p]) \in Nat /\ DOMAIN r[p] = 1..Len(r[p]) /\ DOMAIN r[n] = 1..Len(r[n])
    BY <1>2, <2>2
  <2>6. /\ Len(r[n]) = Len(r[p]) + 1 /\ r[n][Len(r[p]) + 1] = e
        /\ \A i \in 1..Len(r[p]) : r[n][i] = r[p][i]
    BY <2>4, <2>5, OneMore
  <2>7. DOMAIN r[n] = DOMAIN r[p] \cup {Len(r[p]) + 1}
    BY <2>5, <2>6
  <2>8. IdsOf(r[n]) = IdsOf(r[p]) \cup {n}
    BY <2>4, <2>5, <2>6, <2>7 DEF IdsOf
  <2>9. Up(C, p) = IdsOf(r[p])
    BY <1>4, <2>1
  <2> QED
    BY <2>2, <2>8, <2>9
<1> HIDE DEF G
<1>5. N \subseteq G
  BY <1>1, <1>3, <1>4, DownTheTree
<1> QED
  BY <1>5 DEF G

\* Who counts under leg x of a: those who have a child of a in that slot above them.
Leg(N, f, C, a, x) == {d \in N : \E c \in Up(C, d) \ {Company} : f[c].parent = a /\ f[c].leg = x}

\* On the path of d, node c comes right after p, in its leg y.
Follows(r, d, c, p, y) ==
  /\ Len(r[p]) \in 1..(Len(r[d]) - 1) /\ Len(r[d]) \in Nat
  /\ r[d][Len(r[p])][2] = p
  /\ r[d][Len(r[p]) + 1][1] = y /\ r[d][Len(r[p]) + 1][2] = c /\ Len(r[c]) = Len(r[p]) + 1

\* A node that is above d has its place on the path of d, right after its parent.
LEMMA LegPlace ==
  ASSUME NEW N, NEW f, NEW C, Hung(N, f, C), NEW r, Paths(N, f, r),
         NEW d \in N, NEW c \in Up(C, d) \ {Company}
  PROVE  Follows(r, d, c, f[c].parent, f[c].leg)
<1>1. Stands(N, f, r, d) /\ Up(C, d) = IdsOf(r[d])
  BY HungRooted, AllStand, UpIsPath
<1>2. PICK i \in DOMAIN r[d] : c = r[d][i][2]
  BY <1>1 DEF IdsOf
<1>3. Len(r[d]) \in Nat /\ DOMAIN r[d] = 1..Len(r[d])
  BY <1>1, LenProperties DEF Stands
<1>4. i \in 1..Len(r[d]) /\ i > 1 /\ i - 1 \in 1..Len(r[d]) /\ i - 1 \in 1..(Len(r[d]) - 1)
  <2>1. i \in 1..Len(r[d]) /\ i # 1
    BY <1>1, <1>2, <1>3 DEF Stands
  <2> QED
    BY <1>3, <2>1
<1>5. f[c].parent = r[d][i - 1][2] /\ r[d][i][1] = f[c].leg /\ Len(r[c]) = i
  BY <1>1, <1>2, <1>4 DEF Stands
<1>6. r[d][i - 1][2] \in N /\ Len(r[r[d][i - 1][2]]) = i - 1
  BY <1>1, <1>4 DEF Stands
<1>7. Len(r[f[c].parent]) = i - 1 /\ (i - 1) + 1 = i
  BY <1>4, <1>5, <1>6
<1> QED
  BY <1>2, <1>3, <1>4, <1>5, <1>6, <1>7 DEF Follows

LEMMA UnderLegMeaning ==
  ASSUME NEW N, NEW f, NEW C, Hung(N, f, C), NEW a, NEW x
  PROVE  UnderLeg(f, N, a, x) = Leg(N, f, C, a, x)
<1> DEFINE r == [n \in Nodes |-> PathIn(f, n)]
<1>1. Paths(N, f, r) /\ Rooted(N, f)
  BY HungRooted, PathMeaning
<1>2. \A d \in N : r[d] = PathIn(f, d)
  BY DEF Hung
<1> HIDE DEF r
<1>3. ASSUME NEW d \in UnderLeg(f, N, a, x) PROVE d \in Leg(N, f, C, a, x)
  <2>1. PICK i \in 1..(Len(r[d]) - 1) : d \in N /\ r[d][i][2] = a /\ r[d][i + 1][1] = x
    BY <1>2 DEF UnderLeg
  <2>2. Stands(N, f, r, d) /\ Up(C, d) = IdsOf(r[d])
    BY <1>1, <2>1, AllStand, UpIsPath
  <2>3. Len(r[d]) \in Nat /\ DOMAIN r[d] = 1..Len(r[d])
    BY <2>2, LenProperties DEF Stands
  <2>4. i + 1 \in 1..Len(r[d]) /\ i + 1 > 1 /\ (i + 1) - 1 = i
    BY <2>1, <2>3
  <2>5. r[d][i + 1][2] \in Up(C, d)
    BY <2>2, <2>3, <2>4 DEF IdsOf
  <2>6. r[d][i + 1][2] # Company /\ f[r[d][i + 1][2]].parent = a /\ f[r[d][i + 1][2]].leg = x
    BY <2>1, <2>2, <2>4 DEF Stands
  <2> QED
    BY <2>1, <2>5, <2>6 DEF Leg
<1>4. ASSUME NEW d \in Leg(N, f, C, a, x) PROVE d \in UnderLeg(f, N, a, x)
  <2>1. PICK c \in Up(C, d) \ {Company} : d \in N /\ f[c].parent = a /\ f[c].leg = x
    BY DEF Leg
  <2>2. /\ Len(r[a]) \in 1..(Len(r[d]) - 1)
        /\ r[d][Len(r[a])][2] = a /\ r[d][Len(r[a]) + 1][1] = x
    <3>1. Follows(r, d, c, f[c].parent, f[c].leg)
      BY <1>1, <2>1, LegPlace
    <3>2. Follows(r, d, c, a, x)
      BY <2>1, <3>1
    <3> QED
      BY <3>2 DEF Follows
  <2> QED
    BY <1>2, <2>1, <2>2 DEF UnderLeg
<1> QED
  BY <1>3, <1>4

\* The label after a on the path of d is the leg of a that d is in.
LEMMA LegOfPath ==
  ASSUME NEW N, NEW f, NEW C, Hung(N, f, C), NEW r, Paths(N, f, r),
         NEW d \in N, NEW a \in Up(C, d), a # d, NEW x
  PROVE  /\ Len(r[d]) > Len(r[a])
         /\ r[d][Len(r[a]) + 1][1] = x <=> d \in Leg(N, f, C, a, x)
<1>1. PICK c \in Up(C, d) \ {Company} : f[c].parent = a
  BY UpFacts
<1>2. /\ Len(r[a]) \in 1..(Len(r[d]) - 1) /\ Len(r[d]) \in Nat
      /\ r[d][Len(r[a]) + 1][1] = f[c].leg
  <2>1. Follows(r, d, c, a, f[c].leg)
    BY <1>1, LegPlace
  <2> QED
    BY <2>1 DEF Follows
<1>3. ASSUME NEW e \in Up(C, d) \ {Company}, f[e].parent = a PROVE f[e].leg = f[c].leg
  <2>1. Follows(r, d, e, a, f[e].leg)
    BY <1>3, LegPlace
  <2>2. r[d][Len(r[a]) + 1][1] = f[e].leg
    BY <2>1 DEF Follows
  <2> QED
    BY <1>2, <2>2
<1> QED
  BY <1>1, <1>2, <1>3 DEF Leg

-----------------------------------------------------------------------------
(* What a placement and a relocation make of the tree.                     *)

\* The closure C with the new node n below p.
Leafed(C, n, p) == C \cup {<<n, n, 0>>} \cup {<<t[1], n, t[3] + 1>> : t \in {t \in C : t[2] = p}}

LEMMA LeafHung ==
  ASSUME NEW N, NEW f, NEW C, Hung(N, f, C), NEW n \in Nodes \ N, NEW p \in N, NEW g, NEW D,
         \A m \in N : g[m].parent = f[m].parent /\ g[m].leg = f[m].leg,
         g[n].parent = p, g[n].leg \in Legs,
         D = Leafed(C, n, p)
  PROVE  /\ Hung(N \cup {n}, g, D)
         /\ Up(D, n) = Up(C, p) \cup {n} /\ \A m \in N : Up(D, m) = Up(C, m)
<1>1. /\ Company \in N /\ N \subseteq Nodes /\ Rows(N, C) /\ Up(C, Company) = {Company}
      /\ \A m \in N \ {Company} : /\ f[m].parent \in N /\ f[m].leg \in Legs
                                  /\ m \notin Up(C, f[m].parent) /\ Up(C, m) = Up(C, f[m].parent) \cup {m}
  BY DEF Hung
<1> DEFINE E == {<<t[1], n, t[3] + 1>> : t \in {t \in C : t[2] = p}}
<1>2. \A t \in C : t = <<t[1], t[2], t[3]>> /\ t[1] \in N /\ t[2] \in N /\ t[3] \in Nat /\ (t[3] = 0 <=> t[1] = t[2])
  BY <1>1 DEF Rows
<1>3. \A t \in E : t = <<t[1], t[2], t[3]>> /\ t[1] \in N /\ t[2] = n /\ t[3] \in Nat /\ t[3] # 0
  BY <1>2
<1>4. D = C \cup {<<n, n, 0>>} \cup E
  BY DEF Leafed
<1>5. Up(C, p) = {t[1] : t \in E}
  <2>1. ASSUME NEW t \in E PROVE \E u \in C : u[2] = p /\ u[1] = t[1]
    OBVIOUS
  <2>2. ASSUME NEW u \in C, u[2] = p PROVE \E t \in E : t[1] = u[1]
    <3>1. <<u[1], n, u[3] + 1>> \in E /\ <<u[1], n, u[3] + 1>>[1] = u[1]
      BY <2>2
    <3> HIDE DEF E
    <3> QED
      BY <3>1
  <2> HIDE DEF E
  <2> QED
    BY <2>1, <2>2 DEF Up
<1> HIDE DEF E
<1>6. Rows(N \cup {n}, D)
  <2> SUFFICES ASSUME NEW t \in D
               PROVE  /\ t = <<t[1], t[2], t[3]>> /\ t[1] \in N \cup {n} /\ t[2] \in N \cup {n}
                      /\ t[3] \in Nat /\ (t[3] = 0 <=> t[1] = t[2])
    BY DEF Rows
  <2>1. CASE t \in C
    BY <1>2, <2>1
  <2>2. CASE t = <<n, n, 0>>
    BY <2>2
  <2>3. CASE t \in E
    BY <1>3, <2>3
  <2> QED
    BY <1>4, <2>1, <2>2, <2>3
<1>7. ASSUME NEW m \in N PROVE Up(D, m) = Up(C, m)
  <2>1. m # n
    OBVIOUS
  <2>2. \A t \in D : t[2] = m => t \in C
    BY <1>3, <1>4, <2>1
  <2> QED
    BY <1>4, <2>2 DEF Up
<1>8. Up(D, n) = Up(C, p) \cup {n}
  <2>1. {t \in D : t[2] = n} = E \cup {<<n, n, 0>>}
    <3>1. \A t \in C : t[2] # n
      BY <1>2
    <3>2. <<n, n, 0>>[2] = n
      OBVIOUS
    <3> QED
      BY <1>3, <1>4, <3>1, <3>2
  <2>2. <<n, n, 0>>[1] = n
    OBVIOUS
  <2>3. {t[1] : t \in E \cup {<<n, n, 0>>}} = {t[1] : t \in E} \cup {n}
    BY <2>2
  <2> QED
    BY <1>5, <2>1, <2>3 DEF Up
<1>9. n # Company /\ n \notin Up(C, p)
  BY <1>1, UpIn
<1>10. ASSUME NEW m \in (N \cup {n}) \ {Company}
       PROVE  /\ g[m].parent \in N \cup {n} /\ g[m].leg \in Legs
              /\ m \notin Up(D, g[m].parent) /\ Up(D, m) = Up(D, g[m].parent) \cup {m}
  <2>1. CASE m = n
    BY <1>7, <1>8, <1>9, <2>1
  <2>2. CASE m \in N
    <3>1. /\ g[m].parent = f[m].parent /\ f[m].parent \in N /\ g[m].leg \in Legs
          /\ m \notin Up(C, f[m].parent) /\ Up(C, m) = Up(C, f[m].parent) \cup {m}
      BY <1>1, <1>10, <2>2
    <3> QED
      BY <1>7, <2>2, <3>1
  <2> QED
    BY <2>1, <2>2
<1>11. Up(D, Company) = {Company}
  BY <1>1, <1>7
<1> QED
  BY <1>1, <1>6, <1>7, <1>8, <1>10, <1>11 DEF Hung

\* Who is above m when x and what hangs from it go below p.
UpMoved(C, x, p, m) ==
  IF x \in Up(C, m) THEN Up(C, p) \cup {a \in Up(C, m) : x \in Up(C, a)} ELSE Up(C, m)

\* The subtree of x hangs below p.
LEMMA MovedHung ==
  ASSUME NEW N, NEW f, NEW C, Hung(N, f, C), NEW x \in N \ {Company}, NEW p \in N, x \notin Up(C, p), NEW g, NEW D,
         \A m \in N \ {x} : g[m].parent = f[m].parent /\ g[m].leg = f[m].leg,
         g[x].parent = p, g[x].leg \in Legs, Rows(N, D),
         \A m \in N : Up(D, m) = UpMoved(C, x, p, m)
  PROVE  Hung(N, g, D)
<1> USE DEF UpMoved
<1>1. /\ Company \in N /\ N \subseteq Nodes /\ Rows(N, C) /\ Up(C, Company) = {Company}
      /\ \A m \in N \ {Company} : /\ f[m].parent \in N /\ f[m].leg \in Legs
                                  /\ m \notin Up(C, f[m].parent) /\ Up(C, m) = Up(C, f[m].parent) \cup {m}
  BY DEF Hung
<1>2. Up(D, Company) = {Company}
  BY <1>1
<1>3. Up(D, p) = Up(C, p)
  OBVIOUS
<1>4. \A a \in Up(C, p) : x \notin Up(C, a)
  BY UpFacts
<1>5. x \in Up(C, x) /\ \A a \in Up(C, x) : x \in Up(C, a) => a = x
  BY UpFacts
<1>6. ASSUME NEW m \in N \ {Company}
      PROVE  /\ g[m].parent \in N /\ g[m].leg \in Legs
             /\ m \notin Up(D, g[m].parent) /\ Up(D, m) = Up(D, g[m].parent) \cup {m}
  <2>1. m \in Up(C, m)
    BY UpFacts
  <2>2. CASE m = x
    <3>1. Up(D, x) = Up(C, p) \cup {x}
      BY <1>5
    <3> QED
      BY <1>3, <2>2, <3>1
  <2>3. CASE m # x
    <3>1. PICK q : q = f[m].parent
      OBVIOUS
    <3>2. /\ g[m].parent = q /\ q \in N /\ g[m].leg \in Legs
          /\ m \notin Up(C, q) /\ Up(C, m) = Up(C, q) \cup {m}
      BY <1>1, <1>6, <2>3, <3>1
    <3>3. CASE x \in Up(C, m)
      <4>1. x \in Up(C, q)
        BY <2>3, <3>2, <3>3
      <4>2. /\ Up(D, m) = Up(C, p) \cup {a \in Up(C, m) : x \in Up(C, a)}
            /\ Up(D, q) = Up(C, p) \cup {a \in Up(C, q) : x \in Up(C, a)}
        BY <1>6, <3>2, <3>3, <4>1
      <4>3. m \notin Up(C, p)
        BY <1>4, <3>3
      <4> QED
        BY <3>2, <3>3, <4>2, <4>3
    <3>4. CASE x \notin Up(C, m)
      <4>1. x \notin Up(C, q)
        BY <3>2, <3>4
      <4> QED
        BY <1>6, <3>2, <3>4, <4>1
    <3> QED
      BY <3>3, <3>4
  <2> QED
    BY <2>2, <2>3
<1> QED
  BY <1>1, <1>2, <1>6 DEF Hung

\* A step that stays in S can be taken any number of times.
Iterated(h, S, b, F, n) ==
  h = [k \in 0..n |-> IF k = 0 THEN b ELSE F[h[k - 1]]] /\ \A k \in 0..n : h[k] \in S

LEMMA Iterates ==
  ASSUME NEW S, NEW b \in S, NEW F \in [S -> S], NEW n \in Nat
  PROVE  \E h : Iterated(h, S, b, F, n)
<1> DEFINE Is(h, m) == h = [k \in 0..m |-> IF k = 0 THEN b ELSE F[h[k - 1]]] /\ \A k \in 0..m : h[k] \in S
           G == {m \in Nat : \E h : Is(h, m)}
<1>1. 0 \in G
  <2>1. Is([k \in 0..0 |-> b], 0)
    OBVIOUS
  <2> QED
    BY <2>1
<1>2. ASSUME NEW m \in 1..n, m - 1 \in G PROVE m \in G
  <2>1. PICK h : Is(h, m - 1)
    BY <1>2
  <2> DEFINE g == [k \in 0..m |-> IF k < m THEN h[k] ELSE F[h[m - 1]]]
  <2>2. m \in Nat /\ \A k \in 0..(m - 1) : h[k] = (IF k = 0 THEN b ELSE F[h[k - 1]]) /\ h[k] \in S
    BY <2>1
  <2>3. ASSUME NEW k \in 0..m PROVE g[k] = (IF k = 0 THEN b ELSE F[g[k - 1]]) /\ g[k] \in S
    <3>1. CASE k < m
      <4>1. k \in 0..(m - 1) /\ g[k] = h[k]
        BY <2>2, <2>3, <3>1
      <4>2. k # 0 => k - 1 \in 0..m /\ k - 1 < m /\ g[k - 1] = h[k - 1]
        BY <2>2, <2>3, <3>1
      <4> HIDE DEF g
      <4> QED
        BY <2>2, <4>1, <4>2
    <3>2. CASE k = m
      <4>1. m # 0 /\ g[m] = F[h[m - 1]] /\ g[m - 1] = h[m - 1] /\ h[m - 1] \in S
        BY <2>2
      <4> HIDE DEF g
      <4> QED
        BY <3>2, <4>1
    <3> QED
      BY <2>2, <2>3, <3>1, <3>2
  <2>4. g = [k \in 0..m |-> IF k = 0 THEN b ELSE F[g[k - 1]]]
    <3>1. g = [k \in 0..m |-> g[k]]
      OBVIOUS
    <3> HIDE DEF g
    <3> QED
      BY <2>3, <3>1
  <2> HIDE DEF g
  <2> QED
    BY <2>2, <2>3, <2>4
<1> HIDE DEF G
<1>3. n \in G
  <2>1. \A k \in 0..n : k \in G
    BY <1>1, <1>2, UpTo
  <2> QED
    BY <2>1
<1> QED
  BY <1>3 DEF G, Iterated

\* What is known of the way from the sponsor s down to p on the given side.
Downhill(f, C, s, p, side) ==
  s \in Up(C, p) /\ (side \in Legs => \A c \in Up(C, p) \ Up(C, s) : f[c].leg = side)

\* The walk ends below the sponsor, on the side it was given.
LEMMA SlotMeaning ==
  ASSUME Hung(Placed, tree, closure), tree[Company].parent = NoOne, NEW s \in Placed, NEW side
  PROVE  /\ Slot(s, side).parent \in Placed /\ Slot(s, side).leg \in Legs
         /\ Downhill(tree, closure, s, Slot(s, side).parent, side)
         /\ side \in Legs => Slot(s, side).leg = side
<1> DEFINE Down(p) == LET c == Child(p, Chosen(p, side)) IN IF c = {} THEN p ELSE CHOOSE n \in c : TRUE
           F == [p \in Placed |-> Down(p)]
           Is(h, m) == h = [k \in 0..m |-> IF k = 0 THEN s ELSE Down(h[k - 1])]
<1>1. PICK n : n = Cardinality(Nodes)
  OBVIOUS
<1> DEFINE at == CHOOSE h : Is(h, n)
<1>2. n \in Nat /\ Slot(s, side) = [parent |-> at[n], leg |-> Chosen(at[n], side)]
  BY <1>1, NodesFinite DEF Slot
<1>3. ASSUME NEW p \in Placed
      PROVE  /\ Down(p) \in Placed
             /\ Down(p) # p => tree[Down(p)].parent = p /\ tree[Down(p)].leg = Chosen(p, side)
  <2>1. CASE Child(p, Chosen(p, side)) = {}
    BY <2>1
  <2>2. CASE Child(p, Chosen(p, side)) # {}
    <3>1. Down(p) \in Child(p, Chosen(p, side))
      BY <2>2
    <3> HIDE DEF Down
    <3>2. Down(p) \in Placed /\ tree[Down(p)].parent = p /\ tree[Down(p)].leg = Chosen(p, side)
      BY <3>1 DEF Child
    <3> QED
      BY <3>2
  <2> QED
    BY <2>1, <2>2
<1>4. \A p \in Placed : p # NoOne
  BY NetworkAssumption DEF Placed
<1>5. \A p : Chosen(p, side) \in Legs /\ (side \in Legs => Chosen(p, side) = side)
  BY DEF Chosen, Weak, Legs
<1> HIDE DEF Down
<1>6. F \in [Placed -> Placed] /\ \A p \in Placed : F[p] = Down(p)
  BY <1>3
<1>7. Is(at, n)
  <2> HIDE DEF F
  <2>0. PICK h : Iterated(h, Placed, s, F, n)
    BY <1>2, <1>6, Iterates
  <2>1. h = [k \in 0..n |-> IF k = 0 THEN s ELSE F[h[k - 1]]] /\ \A k \in 0..n : h[k] \in Placed
    BY <2>0 DEF Iterated
  <2>2. ASSUME NEW k \in 0..n
        PROVE  (IF k = 0 THEN s ELSE F[h[k - 1]]) = IF k = 0 THEN s ELSE Down(h[k - 1])
    <3>1. k # 0 => k - 1 \in 0..n
      BY <1>2
    <3> QED
      BY <1>6, <2>1, <3>1
  <2>3. [k \in 0..n |-> IF k = 0 THEN s ELSE F[h[k - 1]]] = [k \in 0..n |-> IF k = 0 THEN s ELSE Down(h[k - 1])]
    BY <2>2
  <2>4. \E m : Is(m, n)
    BY <2>1, <2>3
  <2> HIDE DEF Is
  <2> QED
    BY <2>4
<1> HIDE DEF F, at
<1>8. at[0] = s /\ \A k \in 1..n : at[k] = Down(at[k - 1])
  <2>1. \A k \in 0..n : at[k] = IF k = 0 THEN s ELSE Down(at[k - 1])
    BY <1>7
  <2>2. 0 \in 0..n /\ \A k \in 1..n : k \in 0..n /\ k # 0
    BY <1>2
  <2> QED
    BY <2>1, <2>2
<1> DEFINE G == {k \in Nat : at[k] \in Placed /\ Downhill(tree, closure, s, at[k], side)}
<1>9. 0 \in G
  <2>1. s \in Up(closure, s)
    BY UpFacts
  <2> QED
    BY <1>8, <2>1 DEF Downhill
<1>10. ASSUME NEW k \in 1..n, k - 1 \in G PROVE k \in G
  <2>1. PICK p : p = at[k - 1]
    OBVIOUS
  <2>2. p \in Placed /\ Downhill(tree, closure, s, p, side) /\ at[k] = Down(p)
    BY <1>8, <1>10, <2>1
  <2>3. CASE Down(p) = p
    BY <1>2, <2>2, <2>3
  <2>4. CASE Down(p) # p
    <3>1. PICK q : q = Down(p)
      OBVIOUS
    <3>2. q \in Placed /\ q # Company /\ tree[q].parent = p /\ (side \in Legs => tree[q].leg = side)
      <4>1. tree[Down(p)].parent = p /\ p # NoOne
        BY <1>3, <1>4, <2>2, <2>4
      <4> QED
        BY <1>3, <1>5, <2>2, <2>4, <3>1, <4>1
    <3>3. Up(closure, q) = Up(closure, p) \cup {q}
      BY <3>2 DEF Hung
    <3>4. Downhill(tree, closure, s, q, side)
      BY <2>2, <3>2, <3>3 DEF Downhill
    <3> QED
      BY <1>2, <2>2, <3>1, <3>2, <3>4
  <2> QED
    BY <2>3, <2>4
<1> HIDE DEF G
<1>11. n \in G
  <2>1. \A k \in 0..n : k \in G
    BY <1>2, <1>9, <1>10, UpTo
  <2> QED
    BY <1>2, <2>1
<1>12. at[n] \in Placed /\ Downhill(tree, closure, s, at[n], side)
  BY <1>11 DEF G
<1> QED
  BY <1>2, <1>5, <1>12

\* h, then what s has after its first k labels.
After(h, s, k) == h \o SubSeq(s, k + 1, Len(s))

LEMMA TailAppend ==
  ASSUME NEW S, NEW s \in Seq(S), NEW e \in S, NEW h \in Seq(S), NEW k \in 0..Len(s)
  PROVE  /\ After(h, Append(s, e), k) = Append(After(h, s, k), e)
         /\ After(h, s, k) \in Seq(S) /\ Len(After(h, s, k)) = Len(h) + (Len(s) - k)
<1> DEFINE a == Append(s, e)
           u == SubSeq(s, k + 1, Len(s))
           v == SubSeq(a, k + 1, Len(s) + 1)
<1>1. Len(s) \in Nat /\ Len(h) \in Nat /\ k \in 0..Len(s) /\ \A i \in 1..Len(s) : s[i] \in S
  BY LenProperties
<1>2. a \in Seq(S) /\ Len(a) = Len(s) + 1 /\ a[Len(s) + 1] = e /\ \A i \in 1..Len(s) : a[i] = s[i]
  BY OneMore
<1> HIDE DEF a
<1>3. /\ u \in Seq(S) /\ Len(u) = Len(s) - k /\ \A i \in 1..(Len(s) - k) : u[i] = s[k + i]
  <2>1. \A i \in (k + 1)..Len(s) : s[i] \in S
    BY <1>1
  <2>2. /\ u \in Seq(S) /\ Len(u) = IF k + 1 <= Len(s) THEN Len(s) - (k + 1) + 1 ELSE 0
        /\ \A i \in 1..(Len(s) - (k + 1) + 1) : u[i] = s[k + 1 + i - 1]
    BY <1>1, <2>1, SubSeqProperties
  <2>3. /\ Len(s) - (k + 1) + 1 = Len(s) - k /\ \A i \in 1..(Len(s) - k) : k + 1 + i - 1 = k + i
        /\ (IF k + 1 <= Len(s) THEN Len(s) - (k + 1) + 1 ELSE 0) = Len(s) - k
    BY <1>1
  <2> HIDE DEF u
  <2>4. Len(u) = Len(s) - k
    BY <2>2, <2>3
  <2>5. \A i \in 1..(Len(s) - k) : u[i] = s[k + 1 + i - 1]
    BY <2>2, <2>3
  <2> QED
    BY <2>2, <2>3, <2>4, <2>5
<1>4. /\ v \in Seq(S) /\ Len(v) = Len(s) - k + 1 /\ \A i \in 1..(Len(s) - k + 1) : v[i] = a[k + i]
  <2>1. \A i \in (k + 1)..(Len(s) + 1) : a[i] \in S
    BY <1>1, <1>2
  <2>2. /\ v \in Seq(S) /\ Len(v) = IF k + 1 <= Len(s) + 1 THEN Len(s) + 1 - (k + 1) + 1 ELSE 0
        /\ \A i \in 1..(Len(s) + 1 - (k + 1) + 1) : v[i] = a[k + 1 + i - 1]
    BY <1>1, <2>1, SubSeqProperties
  <2>3. Len(s) + 1 - (k + 1) + 1 = Len(s) - k + 1 /\ \A i \in 1..(Len(s) - k + 1) : k + 1 + i - 1 = k + i
    BY <1>1
  <2> HIDE DEF v
  <2> QED
    BY <1>1, <2>2, <2>3
<1> HIDE DEF u, v
<1>5. v = Append(u, e)
  <2>1. /\ Append(u, e) \in Seq(S) /\ Len(Append(u, e)) = Len(u) + 1 /\ Append(u, e)[Len(u) + 1] = e
        /\ \A i \in 1..Len(u) : Append(u, e)[i] = u[i]
    BY <1>3, OneMore
  <2>2. \A i \in 1..Len(v) : v[i] = Append(u, e)[i]
    <3> SUFFICES ASSUME NEW i \in 1..Len(v) PROVE v[i] = Append(u, e)[i]
      OBVIOUS
    <3>1. v[i] = a[k + i]
      BY <1>4
    <3>2. CASE i = Len(s) - k + 1
      <4>1. k + i = Len(s) + 1
        BY <1>1, <3>2
      <4> QED
        BY <1>2, <1>3, <2>1, <3>1, <3>2, <4>1
    <3>3. CASE i # Len(s) - k + 1
      <4>1. i \in 1..(Len(s) - k) /\ k + i \in 1..Len(s)
        BY <1>1, <1>4, <3>3
      <4> QED
        BY <1>2, <1>3, <2>1, <3>1, <4>1
    <3> QED
      BY <3>2, <3>3
  <2>3. Len(v) = Len(Append(u, e))
    BY <1>3, <1>4, <2>1
  <2> QED
    BY <1>4, <2>1, <2>2, <2>3, SeqEqual
<1>6. h \o Append(u, e) = Append(h \o u, e)
  <2>1. /\ h \o u \in Seq(S) /\ Len(h \o u) = Len(h) + Len(u)
        /\ \A i \in 1..Len(h) + Len(u) : (h \o u)[i] = IF i <= Len(h) THEN h[i] ELSE u[i - Len(h)]
    BY <1>3, ConcatProperties
  <2>2. /\ Append(u, e) \in Seq(S) /\ Len(Append(u, e)) = Len(u) + 1 /\ Append(u, e)[Len(u) + 1] = e
        /\ \A i \in 1..Len(u) : Append(u, e)[i] = u[i]
    BY <1>3, OneMore
  <2>3. PICK w : w = Append(u, e)
    OBVIOUS
  <2>4. /\ h \o w \in Seq(S) /\ Len(h \o w) = Len(h) + (Len(u) + 1)
        /\ \A i \in 1..Len(h) + (Len(u) + 1) : (h \o w)[i] = IF i <= Len(h) THEN h[i] ELSE w[i - Len(h)]
    BY <2>2, <2>3, ConcatProperties
  <2>5. PICK z : z = h \o u
    OBVIOUS
  <2>6. /\ Append(z, e) \in Seq(S) /\ Len(Append(z, e)) = Len(z) + 1 /\ Append(z, e)[Len(z) + 1] = e
        /\ \A i \in 1..Len(z) : Append(z, e)[i] = z[i]
    BY <2>1, <2>5, OneMore
  <2>7. PICK y : y = h \o w
    OBVIOUS
  <2>8. ASSUME NEW i \in 1..Len(y) PROVE y[i] = Append(z, e)[i]
    <3>1. y[i] = IF i <= Len(h) THEN h[i] ELSE w[i - Len(h)]
      BY <2>4, <2>7
    <3>2. CASE i = Len(h) + Len(u) + 1
      <4>1. i - Len(h) = Len(u) + 1 /\ ~(i <= Len(h)) /\ i = Len(z) + 1
        BY <1>1, <1>3, <2>1, <2>5, <3>2
      <4> QED
        BY <2>2, <2>3, <2>6, <3>1, <4>1
    <3>3. CASE i # Len(h) + Len(u) + 1
      <4>1. i \in 1..(Len(h) + Len(u)) /\ i \in 1..Len(z)
        BY <1>1, <1>3, <2>1, <2>4, <2>5, <2>7, <3>3
      <4>2. Append(z, e)[i] = IF i <= Len(h) THEN h[i] ELSE u[i - Len(h)]
        BY <2>1, <2>5, <2>6, <4>1
      <4>3. ~(i <= Len(h)) => i - Len(h) \in 1..Len(u)
        BY <1>1, <1>3, <4>1
      <4> QED
        BY <2>2, <2>3, <3>1, <4>2, <4>3
    <3> QED
      BY <3>2, <3>3
  <2>9. Len(y) = Len(Append(z, e))
    BY <1>1, <1>3, <2>1, <2>4, <2>5, <2>6, <2>7
  <2>10. y = Append(z, e)
    BY <2>4, <2>6, <2>7, <2>8, <2>9, SeqEqual
  <2> QED
    BY <2>3, <2>5, <2>7, <2>10
<1>7. h \o u \in Seq(S) /\ Len(h \o u) = Len(h) + (Len(s) - k)
  BY <1>3, ConcatProperties
<1>8. After(h, s, k) = h \o u
  BY DEF After, u
<1>9. After(h, a, k) = h \o v
  BY <1>2 DEF After, v
<1>10. After(h, a, k) = Append(After(h, s, k), e)
  BY <1>5, <1>6, <1>8, <1>9
<1> QED
  BY <1>7, <1>8, <1>10 DEF a

\* Where x hangs below p by the slots g, its path in q is new and so is what starts with it.
Renamed(N, C, x, p, g, r, q) ==
  /\ q[x] = Append(r[p], Label(g[x].leg, x))
  /\ \A m \in N : x \notin Up(C, m) => q[m] = r[m]
  /\ \A m \in N \ {x} : x \in Up(C, m) => q[m] = After(q[x], r[m], Len(r[x]))

\* Each of them is as far below x as it was.
Deeper(N, C, x, p, r, q) ==
  \A m \in N : x \in Up(C, m) => Len(q[m]) = Len(r[p]) + 1 + (Len(r[m]) - Len(r[x]))

\* The paths of a moved subtree: that of its root, then what they had below it.
LEMMA MovedPaths ==
  ASSUME NEW N, NEW f, NEW C, Hung(N, f, C), NEW x \in N \ {Company}, NEW p \in N, x \notin Up(C, p), NEW g,
         \A m \in N \ {x} : g[m].parent = f[m].parent /\ g[m].leg = f[m].leg,
         g[x].parent = p, g[x].leg \in Legs, NEW r, Paths(N, f, r), NEW q, Renamed(N, C, x, p, g, r, q)
  PROVE  /\ Paths(N, g, q)
         /\ Deeper(N, C, x, p, r, q)
         /\ \A m \in N : q[m] \in Seq(Labels) /\ q[m] # <<>>
<1>0. /\ q[x] = Append(r[p], Label(g[x].leg, x))
      /\ \A m \in N : x \notin Up(C, m) => q[m] = r[m]
      /\ \A m \in N \ {x} : x \in Up(C, m) => q[m] = After(q[x], r[m], Len(r[x]))
  BY DEF Renamed
<1> USE <1>0
<1>1. /\ Company \in N /\ N \subseteq Nodes /\ Rooted(N, f) /\ Up(C, Company) = {Company}
      /\ \A m \in N \ {Company} : /\ f[m].parent \in N /\ f[m].leg \in Legs
                                  /\ Up(C, m) = Up(C, f[m].parent) \cup {m}
  BY HungRooted DEF Hung
<1>2. \A m \in N : Stands(N, f, r, m) /\ Up(C, m) = IdsOf(r[m])
  BY <1>1, AllStand, UpIsPath
<1>3. ASSUME NEW m \in N
      PROVE  r[m] \in Seq(Labels) /\ Len(r[m]) \in Nat /\ Len(r[m]) >= 1 /\ DOMAIN r[m] = 1..Len(r[m])
  <2>1. r[m] \in Seq(Labels) /\ Len(r[m]) >= 1
    BY <1>2 DEF Stands
  <2> QED
    BY <2>1, LenProperties
<1>4. ASSUME NEW m \in N, x \in Up(C, m) PROVE Len(r[x]) \in 0..Len(r[m])
  <2>1. PICK i \in 1..Len(r[m]) : x = r[m][i][2]
    BY <1>2, <1>3, <1>4 DEF IdsOf
  <2>2. Len(r[x]) = i
    BY <1>2, <1>4, <2>1, ZenonT(60) DEF Stands
  <2> QED
    BY <1>3, <1>4, <2>1, <2>2
<1>5. x \in Up(C, x) /\ Label(g[x].leg, x) \in Labels
  BY <1>1, UpFacts DEF Label, Labels
<1>6. q[x] \in Seq(Labels) /\ Len(q[x]) = Len(r[p]) + 1 /\ Len(q[x]) \in Nat
  <2>1. r[p] \in Seq(Labels) /\ Len(r[p]) \in Nat
    BY <1>3
  <2> QED
    BY <1>5, <2>1, OneMore
<1>7. ASSUME NEW m \in N, x \in Up(C, m)
      PROVE  q[m] = After(q[x], r[m], Len(r[x]))
  <2>1. CASE m = x
    <3>1. SubSeq(r[x], Len(r[x]) + 1, Len(r[x])) = <<>>
      BY <1>3, SubSeqEmpty
    <3> QED
      BY <1>6, <2>1, <3>1, ConcatEmptySeq DEF After
  <2> QED
    BY <1>7, <2>1
<1>8. ASSUME NEW m \in N, x \in Up(C, m)
      PROVE  q[m] \in Seq(Labels) /\ Len(q[m]) = Len(r[p]) + 1 + (Len(r[m]) - Len(r[x])) /\ Len(q[m]) >= 1
  <2>1. q[m] \in Seq(Labels) /\ Len(q[m]) = Len(q[x]) + (Len(r[m]) - Len(r[x]))
    <3>1. PICK s : s = r[m]
      OBVIOUS
    <3>2. PICK h : h = q[x]
      OBVIOUS
    <3>3. PICK k : k = Len(r[x])
      OBVIOUS
    <3>4. PICK e : e \in Labels
      BY <1>5
    <3>5. s \in Seq(Labels) /\ h \in Seq(Labels) /\ k \in 0..Len(s)
      BY <1>3, <1>4, <1>6, <1>8, <3>1, <3>2, <3>3
    <3>6. After(h, s, k) \in Seq(Labels) /\ Len(After(h, s, k)) = Len(h) + (Len(s) - k)
      BY <3>4, <3>5, TailAppend
    <3> QED
      BY <1>7, <1>8, <3>1, <3>2, <3>3, <3>6
  <2>2. Len(r[p]) \in Nat /\ Len(r[m]) - Len(r[x]) >= 0 /\ Len(r[m]) \in Nat /\ Len(r[x]) \in Nat
    <3>1. Len(r[p]) \in Nat /\ Len(r[m]) \in Nat /\ Len(r[x]) \in Nat
      BY <1>3
    <3>2. Len(r[x]) \in 0..Len(r[m])
      BY <1>4, <1>8
    <3> QED
      BY <3>1, <3>2
  <2>3. PICK a, b, c : a = Len(r[p]) /\ b = Len(r[m]) /\ c = Len(r[x])
    OBVIOUS
  <2>4. a \in Nat /\ b \in Nat /\ c \in Nat /\ b - c >= 0 /\ Len(q[m]) = (a + 1) + (b - c)
    BY <1>6, <2>1, <2>2, <2>3
  <2>5. Len(q[m]) = a + 1 + (b - c) /\ Len(q[m]) >= 1
    BY <2>4
  <2> QED
    BY <2>1, <2>3, <2>5
<1>9. \A m \in N : q[m] \in Seq(Labels) /\ q[m] # <<>>
  <2> SUFFICES ASSUME NEW m \in N PROVE q[m] \in Seq(Labels) /\ Len(q[m]) >= 1
    <3>1. Len(<<>>) = 0
      OBVIOUS
    <3> QED
      BY <3>1
  <2>1. x \notin Up(C, m) => q[m] = r[m]
    OBVIOUS
  <2> QED
    BY <1>3, <1>8, <2>1
<1>10. q[Company] = <<Label("", Company)>>
  <2>1. x \notin Up(C, Company)
    BY <1>1
  <2> QED
    BY <1>1, <2>1 DEF Paths
<1>11. ASSUME NEW m \in N \ {Company} PROVE q[m] = Append(q[g[m].parent], Label(g[m].leg, m))
  <2>1. CASE m = x
    BY <2>1
  <2>2. CASE m # x
    <3>1. PICK d : d = f[m].parent
      OBVIOUS
    <3>2. d \in N /\ g[m].parent = d /\ g[m].leg = f[m].leg /\ Up(C, m) = Up(C, d) \cup {m} /\ f[m].leg \in Legs
      BY <1>1, <1>11, <2>2, <3>1
    <3>3. PICK e : e = Label(f[m].leg, m)
      OBVIOUS
    <3>4. r[m] = Append(r[d], e) /\ e \in Labels
      <4>1. m \in Nodes
        BY <1>1
      <4> QED
        BY <1>11, <3>1, <3>2, <3>3, <4>1 DEF Paths, Label, Labels
    <3>5. CASE x \in Up(C, m)
      <4>1. x \in Up(C, d)
        BY <2>2, <3>2, <3>5
      <4>2. q[m] = After(q[x], r[m], Len(r[x])) /\ q[d] = After(q[x], r[d], Len(r[x]))
        BY <1>7, <1>11, <3>2, <3>5, <4>1
      <4>3. r[d] \in Seq(Labels) /\ Len(r[x]) \in 0..Len(r[d])
        BY <1>3, <1>4, <3>2, <4>1
      <4>4. After(q[x], Append(r[d], e), Len(r[x])) = Append(After(q[x], r[d], Len(r[x])), e)
        <5>1. PICK s : s = r[d]
          OBVIOUS
        <5>2. PICK h : h = q[x]
          OBVIOUS
        <5>3. PICK k : k = Len(r[x])
          OBVIOUS
        <5>4. s \in Seq(Labels) /\ h \in Seq(Labels) /\ k \in 0..Len(s) /\ e \in Labels
          BY <1>6, <3>4, <4>3, <5>1, <5>2, <5>3
        <5>5. After(h, Append(s, e), k) = Append(After(h, s, k), e)
          BY <5>4, TailAppend
        <5> QED
          BY <5>1, <5>2, <5>3, <5>5
      <4> QED
        BY <3>2, <3>3, <3>4, <4>2, <4>4
    <3>6. CASE x \notin Up(C, m)
      <4>1. x \notin Up(C, d)
        BY <3>2, <3>6
      <4> QED
        BY <3>2, <3>3, <3>4, <3>6, <4>1
    <3> QED
      BY <3>5, <3>6
  <2> QED
    BY <2>1, <2>2
<1> QED
  BY <1>8, <1>9, <1>10, <1>11 DEF Paths, Deeper

-----------------------------------------------------------------------------
(* The tree in every reachable state.                                      *)

SlotRows == [parent : Nodes \cup {NoOne}, leg : Legs \cup {""}, sponsor : Nodes \cup {NoOne}, path : Seq(Labels)]
PlaceRows == [pc : {"new", "insert", "attach", "placed"}, sponsor : Nodes \cup {NoOne}, side : Legs \cup {"auto"},
              parent : Nodes \cup {NoOne}, leg : Legs \cup {""}, path : Seq(Labels)]
MoveRows == [target : Nodes \cup {NoOne}, sponsor : Nodes \cup {NoOne}, parent : Nodes \cup {NoOne},
             leg : Legs \cup {""}, rows : SUBSET Nodes]

NetShape ==
  /\ tree \in [Nodes -> SlotRows] /\ tree[Company].parent = NoOne
  /\ count \in [Nodes -> [Legs -> Nat]] /\ pv \in [Nodes -> [Legs -> Nat]]
  /\ event \in [Nodes -> Nat]
  /\ credited \in [Nodes -> Nodes \cup {NoOne}]
  /\ place \in [New -> PlaceRows]
  /\ move \in MoveRows
  /\ overtaken \subseteq New

SlotsOnce ==
  \A n, m \in Placed \ {Company} : tree[n].parent = tree[m].parent /\ tree[n].leg = tree[m].leg => n = m

\* Who is in the tree, and that nobody else has events, PV or people below.
Blank(n) == event[n] = 0 /\ \A x \in Legs : count[n][x] = 0 /\ pv[n][x] = 0
Born ==
  /\ {Company} \cup Old \subseteq Placed
  /\ \A n \in New : (n \in Placed <=> place[n].pc = "placed") /\ (n \notin Placed => Blank(n))

\* A placement on its way knows a slot below its sponsor, which an INSERT in progress owns.
PlaceKnows(n) ==
  LET in == place[n] IN
  /\ in.pc \in {"insert", "attach"} =>
       /\ in.parent \in Placed /\ in.sponsor \in Placed /\ in.leg \in Legs
       /\ n \notin overtaken => /\ Downhill(tree, closure, in.sponsor, in.parent, in.side)
                                /\ in.side \in Legs => in.leg = in.side
  /\ in.pc = "attach" =>
       /\ Child(in.parent, in.leg) = {} /\ in.path # <<>>
       /\ n \notin overtaken => in.path = Append(tree[in.parent].path, Label(in.leg, n))
       /\ \A m \in New : place[m].pc = "attach" /\ place[m].parent = in.parent /\ place[m].leg = in.leg => m = n
PlacesKnow == \A n \in New : PlaceKnows(n)

\* A relocation on its way holds the rows that keep its destination free and outside the
\* subtree it moves.
MoveKnows ==
  move # NoMove =>
    /\ move.target \in Placed \ {Company} /\ move.sponsor \in Placed /\ move.parent \in Placed /\ move.leg \in Legs
    /\ move.target \notin Up(closure, move.parent)
    /\ Child(move.parent, move.leg) \subseteq {move.target}
    /\ move.parent \in move.rows

\* Buyers that were placed with the path of a place their parent had left.
Stale == {n \in overtaken : place[n].pc = "placed"}

PathsOf(f) == [n \in Nodes |-> f[n].path]
Distances(f, C) == \A t \in C : t[3] = Len(f[t[2]].path) - Len(f[t[1]].path)
Counted(a) ==
  \A x \in Legs : /\ count[a][x] = Cardinality(Leg(Placed, tree, closure, a, x))
                  /\ pv[a][x] = SumFunctionOnSet(event, Leg(Placed, tree, closure, a, x))
Exact ==
  Stale = {} => /\ Paths(Placed, tree, PathsOf(tree)) /\ Distances(tree, closure)
                /\ \A a \in Placed : Counted(a)

NetInv ==
  /\ NetShape /\ Hung(Placed, tree, closure) /\ SlotsOnce /\ Born /\ PlacesKnow /\ MoveKnows
  /\ Exact /\ SponsorsAgree

\* The ancestry the actions read in the closure.
LEMMA NetAbove ==
  ASSUME Hung(Placed, tree, closure)
  PROVE  /\ \A p \in Placed : AtOrAbove(p) = Up(closure, p)
         /\ \A n : AncestorsOf(n) = Up(closure, n) \ {n}
         /\ \A n : SubtreeOf(n) = {d \in Placed : n \in Up(closure, d)}
<1>1. \A t \in closure : t[1] \in Placed /\ t[2] \in Placed /\ t[3] \in Nat /\ (t[3] = 0 <=> t[1] = t[2])
  BY DEF Hung, Rows
<1>2. ASSUME NEW n PROVE AncestorsOf(n) = Up(closure, n) \ {n}
  BY <1>1 DEF AncestorsOf, Up
<1>3. ASSUME NEW p \in Placed PROVE AtOrAbove(p) = Up(closure, p)
  BY <1>2, UpFacts DEF AtOrAbove
<1>4. ASSUME NEW n PROVE SubtreeOf(n) = {d \in Placed : n \in Up(closure, d)}
  BY <1>1 DEF SubtreeOf, Up
<1> QED
  BY <1>2, <1>3, <1>4

LEMMA PlacedAre == Placed \subseteq Nodes /\ \A n \in Nodes : n \in Placed <=> tree[n].path # <<>>
  BY DEF Placed

\* As many nodes are above as the path has labels.
LEMMA PathLength ==
  ASSUME NEW N, NEW f, NEW C, Hung(N, f, C), NEW r, Paths(N, f, r)
  PROVE  \A d \in N : /\ IsFiniteSet(Up(C, d)) /\ Cardinality(Up(C, d)) \in 1..Cardinality(Nodes)
                      /\ Len(r[d]) = Cardinality(Up(C, d))
<1> DEFINE G == {d \in N : Len(r[d]) = Cardinality(Up(C, d))}
<1>1. N \subseteq Nodes /\ \A d : Up(C, d) \subseteq Nodes /\ IsFiniteSet(Up(C, d)) /\ Cardinality(Up(C, d)) \in Nat
  <2>1. \A d : Up(C, d) \subseteq N
    BY UpIn DEF Hung
  <2> QED
    BY <2>1, NodesFinite, FS_Subset, FS_CardinalityType DEF Hung
<1>2. Company \in G
  <2>1. Len(r[Company]) = 1
    BY OneLabel DEF Paths
  <2> QED
    BY <2>1, FS_Singleton DEF Hung
<1>3. ASSUME NEW n \in N \ {Company}, f[n].parent \in G PROVE n \in G
  <2>1. PICK p : p = f[n].parent
    OBVIOUS
  <2>2. p \in N /\ n \notin Up(C, p) /\ Up(C, n) = Up(C, p) \cup {n} /\ r[n] = Append(r[p], Label(f[n].leg, n))
        /\ f[n].leg \in Legs
    BY <2>1 DEF Hung, Paths
  <2>3. Len(r[n]) = Len(r[p]) + 1
    <3>1. r[p] \in Seq(Labels)
      BY <2>2, HungRooted, AllStand DEF Stands
    <3>2. Label(f[n].leg, n) \in Labels
      BY <1>1, <2>2 DEF Label, Labels
    <3> QED
      BY <2>2, <3>1, <3>2, OneMore
  <2>4. Cardinality(Up(C, n)) = Cardinality(Up(C, p)) + 1
    BY <1>1, <2>2, FS_AddElement
  <2> QED
    BY <1>3, <2>1, <2>3, <2>4
<1> HIDE DEF G
<1>4. N \subseteq G
  BY <1>2, <1>3, HungRooted, DownTheTree
<1>5. ASSUME NEW d \in N PROVE Cardinality(Up(C, d)) \in 1..Cardinality(Nodes)
  <2>1. d \in Up(C, d)
    BY UpFacts
  <2>2. Cardinality(Up(C, d)) # 0
    BY <1>1, <2>1, FS_EmptySet
  <2>3. Cardinality(Up(C, d)) <= Cardinality(Nodes)
    BY <1>1, NodesFinite, FS_Subset
  <2> QED
    BY <1>1, <2>2, <2>3, NodesFinite
<1> QED
  BY <1>1, <1>4, <1>5 DEF G

\* Everybody reaches the company by the parents.
LEMMA AllReachTop ==
  ASSUME Hung(Placed, tree, closure), NEW n \in Placed
  PROVE  \E k \in 1..Cardinality(Nodes) :
           LET up[j \in 0..k] == IF j = 0 THEN n
                                 ELSE IF up[j - 1] = Company THEN Company ELSE tree[up[j - 1]].parent
           IN up[k] = Company
<1> DEFINE Above(p) == IF p = Company THEN Company ELSE tree[p].parent
           F == [p \in Placed |-> Above(p)]
           Is(h, m) == h = [j \in 0..m |-> IF j = 0 THEN n ELSE Above(h[j - 1])]
           r == [m \in Nodes |-> PathIn(tree, m)]
<1>1. PICK z : z = Cardinality(Nodes)
  OBVIOUS
<1> DEFINE at == CHOOSE h : Is(h, z)
<1>2. z \in Nat
  BY <1>1, NodesFinite
<1>3. \A d \in Placed : Cardinality(Up(closure, d)) \in 1..z
  <2>1. Paths(Placed, tree, r)
    BY HungRooted, PathMeaning
  <2> HIDE DEF r
  <2> QED
    BY <1>1, <2>1, PathLength
<1>4. z \in 1..z
  BY <1>2, <1>3
<1>5. Company \in Placed /\ \A p \in Placed : Above(p) \in Placed
  BY DEF Hung
<1>6. F \in [Placed -> Placed] /\ \A p \in Placed : F[p] = Above(p)
  BY <1>5
<1>7. Is(at, z)
  <2> HIDE DEF F
  <2>0. PICK h : Iterated(h, Placed, n, F, z)
    BY <1>2, <1>6, Iterates
  <2>1. h = [j \in 0..z |-> IF j = 0 THEN n ELSE F[h[j - 1]]] /\ \A j \in 0..z : h[j] \in Placed
    BY <2>0 DEF Iterated
  <2> HIDE DEF Above
  <2>2. ASSUME NEW j \in 0..z
        PROVE  (IF j = 0 THEN n ELSE F[h[j - 1]]) = IF j = 0 THEN n ELSE Above(h[j - 1])
    <3>1. j # 0 => j - 1 \in 0..z
      BY <1>2
    <3> QED
      BY <1>6, <2>1, <3>1
  <2>3. [j \in 0..z |-> IF j = 0 THEN n ELSE F[h[j - 1]]] = [j \in 0..z |-> IF j = 0 THEN n ELSE Above(h[j - 1])]
    BY <2>2
  <2>4. \E m : Is(m, z)
    BY <2>1, <2>3
  <2> HIDE DEF Is
  <2> QED
    BY <2>4
<1>8. at = CHOOSE h : h = [j \in 0..z |-> IF j = 0 THEN n
                                 ELSE IF h[j - 1] = Company THEN Company ELSE tree[h[j - 1]].parent]
  OBVIOUS
<1> HIDE DEF F, at
<1>9. at[0] = n /\ \A j \in 1..z : at[j] = Above(at[j - 1])
  <2> HIDE DEF Above
  <2>1. \A j \in 0..z : at[j] = IF j = 0 THEN n ELSE Above(at[j - 1])
    BY <1>7
  <2>2. 0 \in 0..z /\ \A j \in 1..z : j \in 0..z /\ j # 0
    BY <1>2
  <2> QED
    BY <2>1, <2>2
<1> DEFINE G == {j \in Nat : at[j] \in Placed /\ (at[j] = Company \/ Cardinality(Up(closure, at[j])) + j <= z)}
<1>10. 0 \in G
  BY <1>2, <1>3, <1>9
<1>11. ASSUME NEW j \in 1..z, j - 1 \in G PROVE j \in G
  <2>1. PICK p : p = at[j - 1]
    OBVIOUS
  <2>2. p \in Placed /\ at[j] = Above(p) /\ (p = Company \/ Cardinality(Up(closure, p)) + (j - 1) <= z)
    BY <1>9, <1>11, <2>1
  <2>3. CASE p = Company
    BY <1>2, <1>5, <2>2, <2>3
  <2>4. CASE p # Company
    <3>1. PICK q : q = tree[p].parent
      OBVIOUS
    <3>2. q \in Placed /\ p \notin Up(closure, q) /\ Up(closure, p) = Up(closure, q) \cup {p}
      BY <2>2, <2>4, <3>1 DEF Hung
    <3>3. IsFiniteSet(Up(closure, q))
      <4>1. Up(closure, q) \subseteq Placed /\ Placed \subseteq Nodes
        BY UpIn DEF Hung
      <4> QED
        BY <4>1, NodesFinite, FS_Subset
    <3>4. Cardinality(Up(closure, p)) = Cardinality(Up(closure, q)) + 1
      BY <3>2, <3>3, FS_AddElement
    <3>5. Cardinality(Up(closure, q)) \in Nat
      BY <1>3, <3>2
    <3> QED
      BY <1>2, <2>2, <2>4, <3>1, <3>2, <3>4, <3>5
  <2> QED
    BY <2>3, <2>4
<1>12. at[z] = Company
  <2> HIDE DEF G
  <2>1. z \in G
    <3>1. \A j \in 0..z : j \in G
      BY <1>2, <1>10, <1>11, UpTo
    <3> QED
      BY <1>2, <3>1
  <2> USE DEF G
  <2>2. at[z] \in Placed /\ (at[z] = Company \/ Cardinality(Up(closure, at[z])) + z <= z)
    BY <2>1
  <2> QED
    BY <1>2, <1>3, <2>2
<1>13. (CHOOSE h : h = [j \in 0..z |-> IF j = 0 THEN n
                                 ELSE IF h[j - 1] = Company THEN Company ELSE tree[h[j - 1]].parent])[z] = Company
  BY <1>8, <1>12
<1> HIDE DEF Is, Above
<1> QED
  BY <1>1, <1>4, <1>13

LEMMA NoneStale == overtaken = {} => Stale = {}
  BY DEF Stale

LEMMA TreeIsExact ==
  ASSUME NetInv, overtaken = {}
  PROVE  \A n \in Placed : tree[n].path = PathIn(tree, n)
<1>1. Hung(Placed, tree, closure) /\ Paths(Placed, tree, PathsOf(tree)) /\ Placed \subseteq Nodes
  BY NoneStale, PlacedAre DEF NetInv, Exact
<1>2. \A n \in Placed : PathsOf(tree)[n] = PathIn(tree, n)
  BY <1>1, HungRooted, OnePath
<1> QED
  BY <1>1, <1>2 DEF PathsOf

\* The ancestors in the closure are those on the path.
LEMMA RealAbove ==
  ASSUME Hung(Placed, tree, closure), NEW d \in Placed, NEW a
  PROVE  Real(a, d) <=> a \in Up(closure, d)
<1> DEFINE r == [m \in Nodes |-> PathIn(tree, m)]
<1>1. Paths(Placed, tree, r) /\ r[d] = PathIn(tree, d)
  BY HungRooted, PathMeaning, PlacedAre
<1> HIDE DEF r
<1> QED
  BY <1>1, UpIsPath DEF Real

LEMMA Triples ==
  ASSUME NEW A, NEW B, NEW C, NEW t \in A \X B \X C
  PROVE  t = <<t[1], t[2], t[3]>> /\ t[1] \in A /\ t[2] \in B /\ t[3] \in C
  OBVIOUS

LEMMA ClosureIsExact == ASSUME NetInv PROVE ClosureExact
<1>1. SUFFICES ASSUME overtaken = {} PROVE ClosureExact
  BY DEF ClosureExact
<1>2. \A n \in Placed : tree[n].path = PathIn(tree, n)
  BY <1>1, TreeIsExact
<1>3. /\ Hung(Placed, tree, closure) /\ Paths(Placed, tree, PathsOf(tree)) /\ Placed \subseteq Nodes
      /\ Distances(tree, closure)
  BY <1>1, NoneStale, PlacedAre DEF NetInv, Exact
<1>4. \A n \in Placed : Len(tree[n].path) \in 1..Cardinality(Nodes)
  <2>1. \A n \in Placed : Len(PathsOf(tree)[n]) \in 1..Cardinality(Nodes)
    BY <1>3, PathLength
  <2> QED
    BY <1>3, <2>1 DEF PathsOf
<1> DEFINE Q(t) == Real(t[1], t[2]) /\ t[3] = Len(tree[t[2]].path) - Len(tree[t[1]].path)
           T == Placed \X Placed \X (0..Cardinality(Nodes))
           E == {t \in T : Q(t)}
<1>5. ASSUME NEW t \in closure PROVE t \in E
  <2>1. t = <<t[1], t[2], t[3]>> /\ t[1] \in Placed /\ t[2] \in Placed /\ t[3] \in Nat
    BY <1>3 DEF Hung, Rows
  <2>2. t[3] = Len(tree[t[2]].path) - Len(tree[t[1]].path)
    BY <1>3 DEF Distances
  <2>3. t[3] \in 0..Cardinality(Nodes)
    <3>1. PICK a, b, z : a = Len(tree[t[1]].path) /\ b = Len(tree[t[2]].path) /\ z = Cardinality(Nodes)
      OBVIOUS
    <3>2. a \in 1..z /\ b \in 1..z /\ z \in Nat /\ t[3] = b - a
      BY <1>4, <2>1, <2>2, <3>1, NodesFinite
    <3>3. PICK c : c = t[3]
      OBVIOUS
    <3>4. c \in Nat /\ c = b - a
      BY <2>1, <3>2, <3>3
    <3> HIDE DEF Q, T, E
    <3>5. c \in 0..z
      BY <3>2, <3>4
    <3> QED
      BY <3>1, <3>3, <3>5, Zenon
  <2>4. t[1] \in Up(closure, t[2])
    BY DEF Up
  <2>5. Real(t[1], t[2])
    BY <1>3, <2>1, <2>4, RealAbove
  <2>6. <<t[1], t[2], t[3]>> \in Placed \X Placed \X (0..Cardinality(Nodes))
    BY <2>1, <2>3
  <2>7. t \in T /\ Q(t)
    BY <2>1, <2>2, <2>5, <2>6
  <2> HIDE DEF Q, T
  <2> QED
    BY <2>7
<1>6. ASSUME NEW t \in E PROVE t \in closure
  <2>1. t = <<t[1], t[2], t[3]>> /\ t[2] \in Placed /\ Real(t[1], t[2]) /\ t[3] = Len(tree[t[2]].path) - Len(tree[t[1]].path)
    <3>1. t \in T /\ Q(t)
      <4> HIDE DEF Q, T
      <4> QED
        OBVIOUS
    <3> HIDE DEF E
    <3>2. t \in Placed \X Placed \X (0..Cardinality(Nodes))
      BY <3>1
    <3> HIDE DEF T, Q
    <3>3. PICK Z : Z = 0..Cardinality(Nodes)
      OBVIOUS
    <3>4. t \in Placed \X Placed \X Z
      BY <3>2, <3>3, Zenon
    <3>5. t = <<t[1], t[2], t[3]>> /\ t[2] \in Placed
      BY <3>4, Triples
    <3> USE DEF Q
    <3> QED
      BY <3>1, <3>5
  <2>2. t[1] \in Up(closure, t[2])
    BY <1>3, <2>1, RealAbove
  <2>3. PICK u \in closure : u[1] = t[1] /\ u[2] = t[2]
    BY <2>2 DEF Up
  <2>4. u[3] = t[3]
    BY <1>3, <2>1, <2>3 DEF Distances
  <2>5. u = <<u[1], u[2], u[3]>>
    BY <1>3 DEF Hung, Rows
  <2>6. u = t
    BY <2>1, <2>3, <2>4, <2>5
  <2> QED
    BY <2>3, <2>6
<1>7. closure = E
  <2> HIDE DEF E
  <2> QED
    BY <1>5, <1>6
<1> QED
  BY <1>2, <1>7 DEF ClosureExact

LEMMA CountsAreExact == ASSUME NetInv PROVE CountsExact
<1>1. SUFFICES ASSUME overtaken = {} PROVE CountsExact
  BY DEF CountsExact
<1>2. Hung(Placed, tree, closure) /\ \A a \in Placed : Counted(a)
  BY <1>1, NoneStale DEF NetInv, Exact
<1>3. \A a, x : UnderLeg(tree, Placed, a, x) = Leg(Placed, tree, closure, a, x)
  BY <1>2, UnderLegMeaning
<1> QED
  BY <1>2, <1>3 DEF CountsExact, Counted

LEMMA InvMeansTree == NetInv => TreeAgrees
<1> SUFFICES ASSUME NetInv PROVE TreeAgrees
  OBVIOUS
<1>1. OneTree
  <2>1. Hung(Placed, tree, closure) /\ SlotsOnce
    BY DEF NetInv
  <2>2. \A n \in Placed \ {Company} :
          \E k \in 1..Cardinality(Nodes) :
            LET up[j \in 0..k] == IF j = 0 THEN n
                                  ELSE IF up[j - 1] = Company THEN Company ELSE tree[up[j - 1]].parent
            IN up[k] = Company
    BY <2>1, AllReachTop
  <2> QED
    BY <2>1, <2>2 DEF OneTree, SlotsOnce
<1> QED
  BY <1>1, ClosureIsExact, CountsAreExact DEF TreeAgrees, NetInv

LEMMA InvMeansType == NetInv => NetTypeOK
<1> SUFFICES ASSUME NetInv PROVE NetTypeOK
  OBVIOUS
<1>1. NetShape /\ Rows(Placed, closure) /\ Placed \subseteq Nodes
  BY DEF NetInv, Hung
<1>2. \A t \in closure : t \in Nodes \X Nodes \X Nat
  <2> SUFFICES ASSUME NEW t \in closure PROVE t \in Nodes \X Nodes \X Nat
    OBVIOUS
  <2>1. t = <<t[1], t[2], t[3]>> /\ t[1] \in Nodes /\ t[2] \in Nodes /\ t[3] \in Nat
    BY <1>1 DEF Rows
  <2>2. <<t[1], t[2], t[3]>> \in Nodes \X Nodes \X Nat
    BY <2>1
  <2> QED
    BY <2>1, <2>2
<1>3. DOMAIN tree = Nodes
  BY <1>1 DEF NetShape
<1>4. ASSUME NEW n \in Nodes
      PROVE  /\ tree[n].parent \in Nodes \cup {NoOne} /\ tree[n].leg \in Legs \cup {""}
             /\ tree[n].sponsor \in Nodes \cup {NoOne}
             /\ \A i \in DOMAIN tree[n].path : tree[n].path[i] \in (Legs \cup {""}) \X Nodes
  <2>1. tree[n] \in SlotRows
    BY <1>1 DEF NetShape
  <2>2. tree[n].path \in Seq(Labels)
    BY <2>1 DEF SlotRows
  <2>3. \A i \in DOMAIN tree[n].path : tree[n].path[i] \in Labels
    BY <2>2
  <2> QED
    BY <2>1, <2>3 DEF SlotRows, Labels
<1>5. \A n \in Nodes, x \in Legs : count[n][x] \in Nat /\ pv[n][x] \in Nat
  BY <1>1 DEF NetShape
<1>6. \A n \in New : place[n].pc \in {"new", "insert", "attach", "placed"}
  BY <1>1 DEF NetShape, PlaceRows
<1>7. move.rows \subseteq Nodes
  BY <1>1 DEF NetShape, MoveRows
<1> QED
  BY <1>1, <1>2, <1>3, <1>4, <1>5, <1>6, <1>7 DEF NetTypeOK, NetShape

-----------------------------------------------------------------------------
(* The tree at the start.                                                  *)

FirstNodes == {Company} \cup Old

LEMMA FirstRooted == Rooted(FirstNodes, FirstSlot)
<1>1. PICK rank \in [Old -> 1..Cardinality(Old)] :
        \A n \in Old : FirstSlot[n].parent \in Old => rank[FirstSlot[n].parent] < rank[n]
  BY FirstSlotAssumption
<1> DEFINE R == [n \in FirstNodes |-> IF n = Company THEN 0 ELSE rank[n]]
<1>2. /\ Company \in FirstNodes /\ FirstNodes \subseteq Nodes /\ Old \subseteq Nodes
      /\ \A n \in FirstNodes \ {Company} : n \in Old
  BY DEF FirstNodes, Nodes
<1>3. Cardinality(Old) \in Nat /\ Cardinality(Nodes) \in Nat /\ Cardinality(Old) <= Cardinality(Nodes)
  BY <1>2, NodesFinite, NetworkAssumption, FS_CardinalityType, FS_Subset
<1>4. \A n \in Old : rank[n] \in 0..Cardinality(Nodes) /\ rank[n] > 0
  BY <1>1, <1>3
<1>5. R \in [FirstNodes -> 0..Cardinality(Nodes)]
  BY <1>2, <1>3, <1>4
<1>6. ASSUME NEW n \in FirstNodes \ {Company}
      PROVE  FirstSlot[n].parent \in FirstNodes /\ R[FirstSlot[n].parent] < R[n] /\ FirstSlot[n].leg \in Legs
  <2>1. n \in Old /\ FirstSlot[n].parent \in FirstNodes /\ FirstSlot[n].leg \in Legs /\ n # Company
    BY <1>2, FirstSlotAssumption DEF FirstNodes
  <2>2. R[n] = rank[n]
    BY <2>1
  <2>3. CASE FirstSlot[n].parent = Company
    <3>1. R[FirstSlot[n].parent] = 0
      BY <1>2, <2>3
    <3> HIDE DEF R
    <3> QED
      BY <1>4, <2>1, <2>2, <3>1
  <2>4. CASE FirstSlot[n].parent # Company
    <3>1. FirstSlot[n].parent \in Old
      BY <2>1, <2>4 DEF FirstNodes
    <3>2. R[FirstSlot[n].parent] = rank[FirstSlot[n].parent]
      BY <2>1, <2>4
    <3> HIDE DEF R
    <3> QED
      BY <1>1, <2>1, <2>2, <3>1, <3>2
  <2> QED
    BY <2>3, <2>4
<1> HIDE DEF R
<1>7. \E S \in [FirstNodes -> 0..Cardinality(Nodes)] :
        \A n \in FirstNodes \ {Company} :
          FirstSlot[n].parent \in FirstNodes /\ S[FirstSlot[n].parent] < S[n] /\ FirstSlot[n].leg \in Legs
  BY <1>5, <1>6
<1> QED
  BY <1>2, <1>7 DEF Rooted

\* The closure at the start holds a row for each place on each path.
LEMMA FirstHung ==
  /\ Hung(FirstNodes, FirstSlot, FirstClosure)
  /\ \A t \in FirstClosure : t[3] = Len(PathIn(FirstSlot, t[2])) - Len(PathIn(FirstSlot, t[1]))
  /\ \A d \in FirstNodes : PathIn(FirstSlot, d) \in Seq(Labels) /\ PathIn(FirstSlot, d) # <<>>
<1> DEFINE r == [n \in Nodes |-> PathIn(FirstSlot, n)]
           N == FirstNodes
           C == FirstClosure
           f == FirstSlot
<1>1. Paths(N, f, r) /\ Rooted(N, f) /\ N \subseteq Nodes /\ Company \in N
  BY FirstRooted, PathMeaning DEF FirstNodes, Nodes
<1>2. \A d \in N : r[d] = PathIn(f, d)
  BY <1>1
<1> HIDE DEF r
<1>3. C = UNION {{<<r[d][i][2], d, Len(r[d]) - i>> : i \in DOMAIN r[d]} : d \in N}
  <2>1. C = UNION {{<<PathIn(f, d)[i][2], d, Len(PathIn(f, d)) - i>> : i \in DOMAIN PathIn(f, d)} : d \in N}
    BY DEF FirstClosure, FirstNodes
  <2>2. \A d \in N : {<<PathIn(f, d)[i][2], d, Len(PathIn(f, d)) - i>> : i \in DOMAIN PathIn(f, d)}
                     = {<<r[d][i][2], d, Len(r[d]) - i>> : i \in DOMAIN r[d]}
    BY <1>2
  <2> QED
    BY <2>1, <2>2
<1>4. \A d \in N : Stands(N, f, r, d) /\ DOMAIN r[d] = 1..Len(r[d]) /\ Len(r[d]) \in Nat
  <2>1. \A d \in N : Stands(N, f, r, d)
    BY <1>1, AllStand
  <2> QED
    BY <2>1, LenProperties DEF Stands
<1> HIDE DEF N, C, f
<1>5. ASSUME NEW t \in C
      PROVE  \E d \in N : \E i \in 1..Len(r[d]) : t = <<r[d][i][2], d, Len(r[d]) - i>>
  BY <1>3, <1>4
<1>6. ASSUME NEW d \in N, NEW i \in 1..Len(r[d]) PROVE <<r[d][i][2], d, Len(r[d]) - i>> \in C
  <2>1. i \in DOMAIN r[d]
    BY <1>4
  <2>2. <<r[d][i][2], d, Len(r[d]) - i>> \in {<<r[d][k][2], d, Len(r[d]) - k>> : k \in DOMAIN r[d]}
    BY <2>1
  <2> QED
    BY <1>3, <2>2
<1>7. ASSUME NEW t \in C
      PROVE  /\ t = <<t[1], t[2], t[3]>> /\ t[1] \in N /\ t[2] \in N /\ t[3] \in Nat /\ (t[3] = 0 <=> t[1] = t[2])
             /\ t[3] = Len(r[t[2]]) - Len(r[t[1]])
  <2>1. PICK d \in N : \E i \in 1..Len(r[d]) : t = <<r[d][i][2], d, Len(r[d]) - i>>
    BY <1>5
  <2>2. PICK i \in 1..Len(r[d]) : t = <<r[d][i][2], d, Len(r[d]) - i>>
    BY <2>1
  <2>3. PICK a, k, l : a = r[d][i][2] /\ l = Len(r[d]) /\ k = l - i
    OBVIOUS
  <2>4. t = <<a, d, k>> /\ t[1] = a /\ t[2] = d /\ t[3] = k
    BY <2>2, <2>3
  <2>5. a \in N /\ Len(r[a]) = i /\ r[d][l][2] = d /\ l \in Nat /\ i \in 1..l
    BY <1>4, <2>2, <2>3 DEF Stands
  <2>6. k \in Nat /\ (k = 0 <=> i = l)
    <3>1. k = l - i
      BY <2>3
    <3> QED
      BY <2>5, <3>1
  <2>7. i = l <=> a = d
    BY <2>3, <2>5
  <2>8. Len(r[t[2]]) - Len(r[t[1]]) = k
    BY <2>3, <2>4, <2>5
  <2>9. t = <<t[1], t[2], t[3]>>
    BY <2>4
  <2> QED
    BY <2>4, <2>5, <2>6, <2>7, <2>8, <2>9
<1>8. Rows(N, C)
  BY <1>7 DEF Rows
<1>9. ASSUME NEW d \in N PROVE Up(C, d) = IdsOf(r[d])
  <2>1. ASSUME NEW a \in Up(C, d) PROVE a \in IdsOf(r[d])
    <3>1. PICK t \in C : t[1] = a /\ t[2] = d
      BY DEF Up
    <3>2. PICK c \in N : \E i \in 1..Len(r[c]) : t = <<r[c][i][2], c, Len(r[c]) - i>>
      BY <1>5
    <3>3. PICK i \in 1..Len(r[c]) : t = <<r[c][i][2], c, Len(r[c]) - i>>
      BY <3>2
    <3>4. c = d /\ a = r[d][i][2] /\ i \in DOMAIN r[d]
      BY <1>4, <3>1, <3>3
    <3> QED
      BY <3>4 DEF IdsOf
  <2>2. ASSUME NEW a \in IdsOf(r[d]) PROVE a \in Up(C, d)
    <3>1. PICK i \in 1..Len(r[d]) : a = r[d][i][2]
      BY <1>4 DEF IdsOf
    <3>2. PICK t : t = <<r[d][i][2], d, Len(r[d]) - i>>
      OBVIOUS
    <3>3. t \in C /\ t[1] = a /\ t[2] = d
      BY <1>6, <3>1, <3>2
    <3> QED
      BY <3>3 DEF Up
  <2> QED
    BY <2>1, <2>2
<1>10. Up(C, Company) = {Company}
  <2>1. r[Company] = <<Label("", Company)>>
    BY <1>1 DEF Paths
  <2>2. PICK e : e = Label("", Company)
    OBVIOUS
  <2>3. r[Company] = <<e>> /\ e[2] = Company /\ <<e>>[1] = e /\ DOMAIN <<e>> = {1}
    <3>1. e[2] = Company
      BY <2>2 DEF Label
    <3>2. r[Company] = <<e>>
      BY <2>1, <2>2
    <3>3. DOMAIN <<e>> = {1} /\ <<e>>[1] = e
      OBVIOUS
    <3> QED
      BY <3>1, <3>2, <3>3
  <2>4. IdsOf(r[Company]) = {Company}
    BY <2>3 DEF IdsOf
  <2> QED
    BY <1>1, <1>9, <2>4
<1>11. ASSUME NEW n \in N \ {Company}
       PROVE  /\ f[n].parent \in N /\ f[n].leg \in Legs
              /\ n \notin Up(C, f[n].parent) /\ Up(C, n) = Up(C, f[n].parent) \cup {n}
  <2>1. PICK p : p = f[n].parent
    OBVIOUS
  <2>2. p \in N /\ f[n].leg \in Legs
    BY <1>1, <2>1 DEF Rooted
  <2>3. PICK e : e = Label(f[n].leg, n)
    OBVIOUS
  <2>4. e \in Labels /\ e[2] = n /\ r[n] = Append(r[p], e) /\ r[p] \in Seq(Labels)
    BY <1>1, <1>4, <2>1, <2>2, <2>3 DEF Paths, Stands, Label, Labels
  <2>5. PICK l : l = Len(r[p])
    OBVIOUS
  <2>6. /\ l \in Nat /\ Len(r[n]) = l + 1 /\ r[n][l + 1] = e /\ \A i \in 1..l : r[n][i] = r[p][i]
        /\ DOMAIN r[n] = 1..(l + 1) /\ DOMAIN r[p] = 1..l
    BY <1>4, <2>2, <2>4, <2>5, OneMore
  <2>7. IdsOf(r[n]) = IdsOf(r[p]) \cup {n}
    <3>1. 1..(l + 1) = (1..l) \cup {l + 1}
      BY <2>6
    <3> QED
      BY <2>4, <2>6, <3>1 DEF IdsOf
  <2>8. n \notin IdsOf(r[p])
    <3>1. SUFFICES ASSUME NEW i \in 1..l, r[p][i][2] = n PROVE FALSE
      BY <2>6 DEF IdsOf
    <3>2. Len(r[n]) = i
      BY <1>4, <2>2, <2>5, <3>1 DEF Stands
    <3> QED
      BY <2>6, <3>1, <3>2
  <2>9. n \notin Up(C, p) /\ Up(C, n) = Up(C, p) \cup {n}
    BY <1>9, <2>2, <2>7, <2>8
  <2> QED
    BY <2>1, <2>2, <2>9
<1>12. Hung(N, f, C)
  BY <1>1, <1>8, <1>10, <1>11 DEF Hung
<1>13. \A t \in C : t[3] = Len(PathIn(f, t[2])) - Len(PathIn(f, t[1]))
  BY <1>2, <1>7
<1>14. \A d \in N : PathIn(f, d) \in Seq(Labels) /\ PathIn(f, d) # <<>>
  <2>1. \A d \in N : r[d] \in Seq(Labels) /\ r[d] # <<>>
    BY <1>4 DEF Stands
  <2> QED
    BY <1>2, <2>1
<1> QED
  BY <1>12, <1>13, <1>14 DEF N, C, f

\* Slots that agree make the same ancestry and the same legs.
LEMMA HungAlike ==
  ASSUME NEW N, NEW f, NEW C, Hung(N, f, C), NEW g,
         \A m \in N \ {Company} : g[m].parent = f[m].parent /\ g[m].leg = f[m].leg
  PROVE  Hung(N, g, C) /\ \A a, x : Leg(N, g, C, a, x) = Leg(N, f, C, a, x)
<1>1. Hung(N, g, C)
  BY DEF Hung
<1>2. \A d : Up(C, d) \subseteq N
  BY UpIn DEF Hung
<1>3. ASSUME NEW a, NEW x PROVE Leg(N, g, C, a, x) = Leg(N, f, C, a, x)
  BY <1>2 DEF Leg
<1> QED
  BY <1>1, <1>3

\* The company is on no leg.
LEMMA LegsBelow ==
  ASSUME NEW N, NEW f, NEW C, Hung(N, f, C), NEW a, NEW x
  PROVE  /\ Leg(N, f, C, a, x) \subseteq N \ {Company} /\ IsFiniteSet(Leg(N, f, C, a, x))
         /\ Cardinality(Leg(N, f, C, a, x)) \in Nat
<1>1. Leg(N, f, C, a, x) \subseteq N \ {Company} /\ N \subseteq Nodes
  BY DEF Hung, Leg
<1> QED
  BY <1>1, NodesFinite, FS_Subset, FS_CardinalityType

\* Who counts under a has a above.
LEMMA LegIn ==
  ASSUME NEW N, NEW f, NEW C, Hung(N, f, C), NEW a, NEW x, NEW d \in Leg(N, f, C, a, x)
  PROVE  d \in N /\ a \in Up(C, d) /\ a # d
<1>1. d \in N
  BY DEF Leg
<1>2. PICK c \in Up(C, d) \ {Company} : f[c].parent = a
  BY DEF Leg
<1>3. c \in N /\ a \in Up(C, d) /\ (d \in Up(C, c) => c = d) /\ d \in Up(C, d)
  BY <1>1, <1>2, UpFacts
<1>4. a \in N /\ c \notin Up(C, a) /\ Up(C, c) = Up(C, a) \cup {c} /\ a \in Up(C, a)
  BY <1>1, <1>2, <1>3, UpFacts DEF Hung
<1> QED
  BY <1>1, <1>3, <1>4

LEMMA RootIsPath == Root \in Seq(Labels) /\ Root # <<>>
<1>1. PICK e : e = Label("", Company)
  OBVIOUS
<1>2. e \in Labels
  BY <1>1 DEF Label, Labels, Nodes
<1>3. <<e>> \in Seq(Labels) /\ <<e>> # <<>>
  BY <1>2
<1> QED
  BY <1>1, <1>3 DEF Root

LEMMA NoRows ==
  /\ NoPlace \in PlaceRows /\ NoMove \in MoveRows
  /\ Unplaced.path = <<>> /\ NoPlace.pc = "new" /\ NoMove.rows = {}
  BY DEF NoPlace, PlaceRows, NoMove, MoveRows, Unplaced

LEMMA IsSlotRow ==
  ASSUME NEW p \in Nodes \cup {NoOne}, NEW x \in Legs \cup {""}, NEW s \in Nodes \cup {NoOne}, NEW q \in Seq(Labels)
  PROVE  [parent |-> p, leg |-> x, sponsor |-> s, path |-> q] \in SlotRows
  BY DEF SlotRows

LEMMA FirstTree ==
  ASSUME NetInit
  PROVE  /\ tree \in [Nodes -> SlotRows] /\ tree[Company].parent = NoOne /\ tree[Company].path = Root
         /\ \A n \in Old : /\ tree[n].parent = FirstSlot[n].parent /\ tree[n].leg = FirstSlot[n].leg
                           /\ tree[n].sponsor = FirstSlot[n].sponsor /\ tree[n].path = PathIn(FirstSlot, n)
         /\ Placed = FirstNodes
<1>0. Company \in Nodes /\ Old \subseteq Nodes /\ \A n \in Old : n # Company
  BY NetworkAssumption DEF Nodes
<1> DEFINE T(n) == CASE n = Company -> [Unplaced EXCEPT !.path = <<Label("", Company)>>]
                     [] n \in Old -> [parent |-> FirstSlot[n].parent, leg |-> FirstSlot[n].leg,
                                      sponsor |-> FirstSlot[n].sponsor, path |-> PathIn(FirstSlot, n)]
                     [] OTHER -> Unplaced
<1>1. tree = [n \in Nodes |-> T(n)]
  BY DEF NetInit
<1>2. T(Company) = [parent |-> NoOne, leg |-> "", sponsor |-> NoOne, path |-> Root]
  BY <1>0 DEF Unplaced, Root
<1>3. ASSUME NEW n \in Old
      PROVE  T(n) = [parent |-> FirstSlot[n].parent, leg |-> FirstSlot[n].leg,
                     sponsor |-> FirstSlot[n].sponsor, path |-> PathIn(FirstSlot, n)]
  BY <1>0
<1>4. ASSUME NEW n \in Nodes, n # Company, n \notin Old PROVE T(n) = Unplaced
  BY <1>4
<1> HIDE DEF T
<1>5. \A n \in FirstNodes : PathIn(FirstSlot, n) \in Seq(Labels) /\ PathIn(FirstSlot, n) # <<>>
  BY FirstHung
<1>6. ASSUME NEW n \in Nodes PROVE T(n) \in SlotRows
  <2>1. CASE n = Company
    <3>1. NoOne \in Nodes \cup {NoOne} /\ "" \in Legs \cup {""}
      OBVIOUS
    <3>2. [parent |-> NoOne, leg |-> "", sponsor |-> NoOne, path |-> Root] \in SlotRows
      BY <3>1, IsSlotRow, RootIsPath
    <3> QED
      BY <1>2, <2>1, <3>2
  <2>2. CASE n \in Old
    <3>1. FirstSlot[n].parent \in Nodes /\ FirstSlot[n].leg \in Legs /\ FirstSlot[n].sponsor \in Nodes
      BY <2>2, FirstSlotAssumption DEF Nodes
    <3>2. PathIn(FirstSlot, n) \in Seq(Labels)
      BY <1>5, <2>2 DEF FirstNodes
    <3> QED
      BY <1>3, <2>2, <3>1, <3>2, IsSlotRow
  <2>3. CASE n # Company /\ n \notin Old
    <3>1. <<>> \in Seq(Labels)
      OBVIOUS
    <3> QED
      BY <1>4, <2>3, <3>1, IsSlotRow DEF Unplaced
  <2> QED
    BY <2>1, <2>2, <2>3
<1>7. tree \in [Nodes -> SlotRows]
  BY <1>1, <1>6
<1>8. tree[Company].parent = NoOne /\ tree[Company].path = Root
  <2>1. tree[Company] = T(Company)
    BY <1>0, <1>1
  <2>2. PICK u, e : u = [parent |-> NoOne, leg |-> e, sponsor |-> NoOne, path |-> Root] /\ u = T(Company)
    BY <1>2
  <2>3. PICK q : q = Root
    OBVIOUS
  <2>4. u.parent = NoOne /\ u.path = q
    BY <2>2, <2>3
  <2> QED
    BY <2>1, <2>2, <2>3, <2>4
<1>9. \A n \in Old : /\ tree[n].parent = FirstSlot[n].parent /\ tree[n].leg = FirstSlot[n].leg
                     /\ tree[n].sponsor = FirstSlot[n].sponsor /\ tree[n].path = PathIn(FirstSlot, n)
  BY <1>0, <1>1, <1>3
<1>10. \A n \in Nodes : n \notin FirstNodes => tree[n].path = <<>>
  BY <1>1, <1>4, NoRows DEF FirstNodes
<1>11. FirstNodes \subseteq Nodes /\ \A n \in FirstNodes : n = Company \/ n \in Old
  BY DEF FirstNodes, Nodes
<1>12. \A n \in FirstNodes : tree[n].path # <<>>
  BY <1>5, <1>8, <1>9, <1>11, RootIsPath
<1>13. Placed = FirstNodes
  BY <1>10, <1>11, <1>12, PlacedAre
<1> QED
  BY <1>7, <1>8, <1>9, <1>13

LEMMA NetBegins == ASSUME NetInit PROVE NetInv
<1>1. /\ tree \in [Nodes -> SlotRows] /\ tree[Company].parent = NoOne /\ tree[Company].path = Root
      /\ \A n \in Old : /\ tree[n].parent = FirstSlot[n].parent /\ tree[n].leg = FirstSlot[n].leg
                        /\ tree[n].sponsor = FirstSlot[n].sponsor /\ tree[n].path = PathIn(FirstSlot, n)
      /\ Placed = FirstNodes
  BY FirstTree
<1>2. Hung(Placed, FirstSlot, closure) /\ Rooted(Placed, FirstSlot)
  BY <1>1, FirstHung, FirstRooted DEF NetInit
<1>3. \A m \in Placed \ {Company} : m \in Old /\ tree[m].parent = FirstSlot[m].parent /\ tree[m].leg = FirstSlot[m].leg
  BY <1>1 DEF FirstNodes
<1>4. /\ Hung(Placed, tree, closure)
      /\ \A a, x : Leg(Placed, tree, closure, a, x) = Leg(Placed, FirstSlot, closure, a, x)
  BY <1>2, <1>3, HungAlike
<1>5. /\ place = [n \in New |-> NoPlace] /\ move = NoMove /\ overtaken = {}
      /\ event = [n \in Nodes |-> 0] /\ pv = [n \in Nodes |-> [x \in Legs |-> 0]]
      /\ count = [n \in Nodes |-> [x \in Legs |-> Cardinality(UnderLeg(FirstSlot, Old, n, x))]]
      /\ credited = [n \in Nodes |-> IF n \in Old THEN FirstSlot[n].sponsor ELSE NoOne]
  BY DEF NetInit
<1>6. \A a, x : UnderLeg(FirstSlot, Old, a, x) = Leg(Placed, tree, closure, a, x)
  <2> SUFFICES ASSUME NEW a, NEW x PROVE UnderLeg(FirstSlot, Old, a, x) = Leg(Placed, tree, closure, a, x)
    OBVIOUS
  <2>1. UnderLeg(FirstSlot, Placed, a, x) = Leg(Placed, tree, closure, a, x)
    BY <1>2, <1>4, UnderLegMeaning
  <2>2. Leg(Placed, tree, closure, a, x) \subseteq Placed \ {Company}
    BY <1>4, LegsBelow
  <2>3. Old \subseteq Placed /\ Placed \ {Company} \subseteq Old
    BY <1>1 DEF FirstNodes
  <2>4. \A d : d \in UnderLeg(FirstSlot, Old, a, x) <=> d \in Old /\ d \in UnderLeg(FirstSlot, Placed, a, x)
    BY <2>3 DEF UnderLeg
  <2> QED
    BY <2>1, <2>2, <2>3, <2>4
<1>7. NetShape
  <2>1. count \in [Nodes -> [Legs -> Nat]]
    BY <1>4, <1>5, <1>6, LegsBelow
  <2>2. credited \in [Nodes -> Nodes \cup {NoOne}]
    <3>1. \A n \in Old : FirstSlot[n].sponsor \in Nodes
      BY FirstSlotAssumption DEF Nodes
    <3> QED
      BY <1>5, <3>1
  <2>3. place \in [New -> PlaceRows] /\ move \in MoveRows
    BY <1>5, NoRows
  <2>4. pv \in [Nodes -> [Legs -> Nat]] /\ event \in [Nodes -> Nat] /\ overtaken \subseteq New
    BY <1>5
  <2> QED
    BY <1>1, <2>1, <2>2, <2>3, <2>4 DEF NetShape
<1>8. SlotsOnce
  BY <1>3, FirstSlotAssumption DEF SlotsOnce
<1>9. Born
  <2>1. \A n \in New : n \in Nodes /\ n \notin Placed
    BY <1>1, NetworkAssumption DEF Nodes, FirstNodes
  <2>2. ASSUME NEW n \in New PROVE Blank(n)
    <3>1. event[n] = 0 /\ \A x \in Legs : pv[n][x] = 0
      BY <1>5, <2>1
    <3>2. ASSUME NEW x \in Legs PROVE count[n][x] = 0
      <4>1. \A d \in Placed : Up(closure, d) \subseteq Placed
        BY <1>4, UpIn DEF Hung
      <4>2. Leg(Placed, tree, closure, n, x) = {}
        BY <1>4, <2>1, <4>1, LegIn
      <4>3. count[n][x] = Cardinality(Leg(Placed, tree, closure, n, x))
        BY <1>5, <1>6, <2>1, <3>2
      <4> QED
        BY <4>2, <4>3, FS_EmptySet
    <3> QED
      BY <3>1, <3>2 DEF Blank
  <2>3. \A n \in New : place[n].pc # "placed"
    BY <1>5, NoRows
  <2>4. {Company} \cup Old \subseteq Placed
    BY <1>1 DEF FirstNodes
  <2> QED
    BY <2>1, <2>2, <2>3, <2>4 DEF Born
<1>10. PlacesKnow /\ MoveKnows
  BY <1>5, NoRows DEF PlacesKnow, PlaceKnows, MoveKnows
<1>11. Paths(Placed, tree, PathsOf(tree))
  <2> DEFINE r == [n \in Nodes |-> PathIn(FirstSlot, n)]
  <2>1. Paths(Placed, FirstSlot, r) /\ Placed \subseteq Nodes
    BY <1>2, PathMeaning, PlacedAre
  <2>2. \A n \in Placed \ {Company} : r[n] = tree[n].path
    BY <1>1, <1>3, <2>1
  <2> HIDE DEF r
  <2>3. r[Company] = Root /\ Company \in Placed
    BY <1>1, <2>1 DEF Paths, Root, FirstNodes
  <2>4. \A n \in Placed : PathsOf(tree)[n] = r[n]
    BY <1>1, <2>1, <2>2, <2>3 DEF PathsOf
  <2>5. PathsOf(tree)[Company] = <<Label("", Company)>>
    BY <2>3, <2>4 DEF Root
  <2>6. ASSUME NEW n \in Placed \ {Company}
        PROVE  PathsOf(tree)[n] = Append(PathsOf(tree)[tree[n].parent], Label(tree[n].leg, n))
    <3>1. tree[n].parent \in Placed
      BY <1>4 DEF Hung
    <3> QED
      BY <1>3, <2>1, <2>4, <3>1 DEF Paths
  <2> QED
    BY <2>5, <2>6 DEF Paths
<1>12. Distances(tree, closure)
  <2>1. \A n \in Placed : PathIn(FirstSlot, n) = tree[n].path
    <3>1. Paths(Placed, tree, PathsOf(tree)) /\ Rooted(Placed, tree)
      BY <1>4, <1>11, HungRooted
    <3>2. PathIn(FirstSlot, Company) = Root
      <4> DEFINE r == [n \in Nodes |-> PathIn(FirstSlot, n)]
      <4>1. Paths(Placed, FirstSlot, r) /\ r[Company] = PathIn(FirstSlot, Company)
        BY <1>2, PathMeaning DEF Nodes
      <4> HIDE DEF r
      <4> QED
        BY <4>1 DEF Paths, Root
    <3> QED
      BY <1>1, <1>3, <3>2
  <2>2. \A t \in closure : t[1] \in Placed /\ t[2] \in Placed
    BY <1>2 DEF Hung, Rows
  <2>3. \A t \in closure : t[3] = Len(PathIn(FirstSlot, t[2])) - Len(PathIn(FirstSlot, t[1]))
    BY FirstHung DEF NetInit
  <2> QED
    BY <2>1, <2>2, <2>3 DEF Distances
<1>13. ASSUME NEW a \in Placed PROVE Counted(a)
  <2>1. a \in Nodes
    BY PlacedAre
  <2>2. ASSUME NEW x \in Legs
        PROVE  /\ count[a][x] = Cardinality(Leg(Placed, tree, closure, a, x))
               /\ pv[a][x] = SumFunctionOnSet(event, Leg(Placed, tree, closure, a, x))
    <3>1. PICK S : S = Leg(Placed, tree, closure, a, x)
      OBVIOUS
    <3>2. IsFiniteSet(S) /\ S \subseteq Nodes
      BY <1>4, <3>1, LegsBelow, PlacedAre
    <3>3. SumFunctionOnSet(event, S) = 0
      BY <1>5, <3>2, SumZero
    <3>4. pv[a][x] = 0 /\ count[a][x] = Cardinality(S)
      BY <1>5, <1>6, <2>1, <2>2, <3>1
    <3> QED
      BY <3>1, <3>3, <3>4
  <2> QED
    BY <2>2 DEF Counted
<1>14. Exact
  BY <1>11, <1>12, <1>13 DEF Exact
<1>15. SponsorsAgree
  <2>1. \A n \in Old : n \in Nodes
    BY DEF Nodes
  <2> QED
    BY <1>1, <1>3, <1>5, <2>1 DEF SponsorsAgree
<1> QED
  BY <1>4, <1>7, <1>8, <1>9, <1>10, <1>14, <1>15 DEF NetInv

-----------------------------------------------------------------------------
(* What a step that leaves the tree alone keeps.                           *)

LEMMA TreeStays ==
  ASSUME UNCHANGED <<tree, closure>>
  PROVE  /\ Placed' = Placed /\ \A p, x : Child(p, x)' = Child(p, x)
         /\ \A n : Up(closure, n)' = Up(closure, n)
         /\ \A s, p, side : Downhill(tree, closure, s, p, side)' = Downhill(tree, closure, s, p, side)
<1>1. Placed' = Placed
  BY DEF Placed
<1>2. \A p, x : Child(p, x)' = Child(p, x)
  BY <1>1 DEF Child
<1>3. \A n : Up(closure, n)' = Up(closure, n)
  OBVIOUS
<1>4. \A s, p, side : Downhill(tree, closure, s, p, side)' = Downhill(tree, closure, s, p, side)
  OBVIOUS
<1> QED
  BY <1>1, <1>2, <1>3, <1>4

LEMMA ExactStays ==
  ASSUME NetInv, UNCHANGED <<tree, closure, count, pv, event>>, Stale' = {} => Stale = {}
  PROVE  Exact'
<1>1. SUFFICES ASSUME Stale' = {} PROVE Paths(Placed, tree, PathsOf(tree))' /\ Distances(tree, closure)'
                                        /\ \A a \in Placed' : Counted(a)'
  BY DEF Exact
<1>2. Paths(Placed, tree, PathsOf(tree)) /\ Distances(tree, closure) /\ \A a \in Placed : Counted(a)
  BY <1>1 DEF NetInv, Exact
<1>3. Placed' = Placed
  BY TreeStays
<1>4. Paths(Placed, tree, PathsOf(tree))' /\ Distances(tree, closure)'
  BY <1>2, <1>3
<1>5. \A a \in Placed' : Counted(a)'
  BY <1>2, <1>3 DEF Counted
<1> QED
  BY <1>4, <1>5

\* A step of one placement that is not in the tree, before it or after it.
LEMMA PlaceOnly ==
  ASSUME NetInv, NEW n \in New, place[n].pc # "placed", NEW row \in PlaceRows, row.pc # "placed",
         place' = [place EXCEPT ![n] = row], overtaken' = overtaken \/ overtaken' = overtaken \ {n},
         UNCHANGED <<tree, closure, count, pv, event, credited, move>>, PlaceKnows(n)'
  PROVE  NetInv'
<1>1. /\ NetShape /\ Hung(Placed, tree, closure) /\ SlotsOnce /\ Born /\ PlacesKnow /\ MoveKnows
      /\ SponsorsAgree
  BY DEF NetInv
<1>2. /\ Placed' = Placed /\ \A p, x : Child(p, x)' = Child(p, x)
      /\ \A m : Up(closure, m)' = Up(closure, m)
      /\ \A s, p, side : Downhill(tree, closure, s, p, side)' = Downhill(tree, closure, s, p, side)
  BY TreeStays
<1>3. place'[n] = row /\ \A m \in New \ {n} : place'[m] = place[m]
  BY <1>1 DEF NetShape
<1>4. NetShape'
  <2>1. place' \in [New -> PlaceRows] /\ overtaken' \subseteq New
    BY <1>1 DEF NetShape
  <2> QED
    BY <1>1, <2>1 DEF NetShape
<1>5. Hung(Placed, tree, closure)' /\ SlotsOnce' /\ SponsorsAgree' /\ MoveKnows'
  BY <1>1, <1>2 DEF SlotsOnce, SponsorsAgree, MoveKnows, NoMove
<1>6. Born'
  <2>1. \A m \in New : place'[m].pc = "placed" <=> place[m].pc = "placed"
    BY <1>3
  <2> QED
    BY <1>1, <1>2, <2>1 DEF Born, Blank
<1>7. PlacesKnow'
  <2> SUFFICES ASSUME NEW m \in New, m # n PROVE PlaceKnows(m)'
    BY DEF PlacesKnow
  <2>1. PlaceKnows(m) /\ place'[m] = place[m] /\ (m \in overtaken' <=> m \in overtaken)
    BY <1>1, <1>3 DEF PlacesKnow
  <2>2. ASSUME place[m].pc = "attach", NEW k \in New, place'[k].pc = "attach",
               place'[k].parent = place[m].parent, place'[k].leg = place[m].leg
        PROVE  k = m
    <3>1. CASE k = n
      BY <2>1, <2>2, <3>1 DEF PlaceKnows
    <3>2. CASE k # n
      BY <1>3, <2>1, <2>2, <3>2 DEF PlaceKnows
    <3> QED
      BY <3>1, <3>2
  <2> HIDE DEF Placed, Child, Downhill
  <2>3. place'[m].pc \in {"insert", "attach"} =>
          /\ place'[m].parent \in Placed' /\ place'[m].sponsor \in Placed' /\ place'[m].leg \in Legs
          /\ m \notin overtaken' =>
               /\ Downhill(tree, closure, place[m].sponsor, place[m].parent, place[m].side)'
               /\ place'[m].side \in Legs => place'[m].leg = place'[m].side
    BY <1>2, <2>1 DEF PlaceKnows
  <2>4. place'[m].pc = "attach" =>
          /\ Child(place[m].parent, place[m].leg)' = {} /\ place'[m].path # <<>>
          /\ m \notin overtaken' => place'[m].path = Append(tree'[place'[m].parent].path, Label(place'[m].leg, m))
    BY <1>2, <2>1 DEF PlaceKnows
  <2> QED
    BY <2>1, <2>2, <2>3, <2>4 DEF PlaceKnows
<1>8. Stale' = Stale
  BY <1>1, <1>3 DEF Stale, NetShape
<1> QED
  BY <1>4, <1>5, <1>6, <1>7, <1>8, ExactStays DEF NetInv

LEMMA IsPlaceRow ==
  ASSUME NEW pc \in {"new", "insert", "attach", "placed"}, NEW s \in Nodes \cup {NoOne}, NEW side \in Legs \cup {"auto"},
         NEW p \in Nodes \cup {NoOne}, NEW x \in Legs \cup {""}, NEW q \in Seq(Labels)
  PROVE  [pc |-> pc, sponsor |-> s, side |-> side, parent |-> p, leg |-> x, path |-> q] \in PlaceRows
  BY DEF PlaceRows

LEMMA WalkStep ==
  ASSUME NetInv, NEW n \in New, NEW s \in Sponsors, NEW side \in Sides, Walk(n, s, side)
  PROVE  NetInv'
<1>1. NetShape /\ Hung(Placed, tree, closure) /\ Placed \subseteq Nodes /\ s \in Placed /\ side \in Legs \cup {"auto"}
  BY PlacedAre, NetworkAssumption DEF NetInv, Walk
<1>2. PICK p, x : p = Slot(s, side).parent /\ x = Slot(s, side).leg
  OBVIOUS
<1>3. PICK row : row = [pc |-> "insert", sponsor |-> s, side |-> side, parent |-> p, leg |-> x, path |-> <<>>]
  OBVIOUS
<1>4. /\ p \in Placed /\ x \in Legs /\ Downhill(tree, closure, s, p, side)
      /\ side \in Legs => x = side
  BY <1>1, <1>2, SlotMeaning DEF NetShape
<1>5. row \in PlaceRows
  <2>1. <<>> \in Seq(Labels)
    OBVIOUS
  <2> QED
    BY <1>1, <1>3, <1>4, <2>1, IsPlaceRow
<1>6. /\ place[n].pc # "placed" /\ place' = [place EXCEPT ![n] = row]
      /\ UNCHANGED <<tree, closure, count, pv, event, credited, move, overtaken>>
  BY <1>2, <1>3 DEF Walk
<1>7. place'[n] = row
  BY <1>1, <1>6 DEF NetShape
<1>8. PlaceKnows(n)'
  <2>1. Placed' = Placed /\ Downhill(tree, closure, s, p, side)'
    BY <1>4, <1>6, TreeStays
  <2>2. row.pc = "insert" /\ row.sponsor = s /\ row.side = side /\ row.parent = p /\ row.leg = x
    BY <1>3
  <2>3. Downhill(tree, closure, place[n].sponsor, place[n].parent, place[n].side)'
    BY <1>7, <2>1, <2>2
  <2> HIDE DEF Placed, Downhill
  <2> QED
    BY <1>1, <1>4, <1>7, <2>1, <2>2, <2>3 DEF PlaceKnows
<1>9. row.pc # "placed"
  BY <1>3
<1> QED
  BY <1>5, <1>6, <1>8, <1>9, PlaceOnly

\* A placement that starts again knows nothing.
LEMMA BackToStart ==
  ASSUME NetInv, NEW n \in New, NEW row \in PlaceRows, row.pc = "new", place' = [place EXCEPT ![n] = row]
  PROVE  PlaceKnows(n)'
<1>1. place'[n] = row
  BY DEF NetInv, NetShape
<1> QED
  BY <1>1 DEF PlaceKnows

LEMMA PlaceFailsStep == ASSUME NetInv, NEW n \in New, PlaceFails(n) PROVE NetInv'
<1>1. NoPlace \in PlaceRows /\ NoPlace.pc = "new"
  BY NoRows
<1>2. /\ place[n].pc # "placed" /\ place' = [place EXCEPT ![n] = NoPlace] /\ overtaken' = overtaken \ {n}
      /\ UNCHANGED <<tree, closure, count, pv, event, credited, move>>
  BY DEF PlaceFails
<1> QED
  BY <1>1, <1>2, BackToStart, PlaceOnly

LEMMA InsertStep == ASSUME NetInv, NEW n \in New, Insert(n) PROVE NetInv'
<1>1. NetShape /\ PlacesKnow /\ place[n] \in PlaceRows /\ Placed \subseteq Nodes
  BY PlacedAre DEF NetInv, NetShape
<1>2. /\ place[n].pc = "insert" /\ ~InProgress(place[n].parent, place[n].leg)
      /\ UNCHANGED <<tree, closure, count, pv, event, credited, move, overtaken>>
  BY DEF Insert
<1>3. CASE Taken(place[n].parent, place[n].leg)
  <2>1. PICK row : row = [NoPlace EXCEPT !.sponsor = place[n].sponsor]
    OBVIOUS
  <2>2. row \in PlaceRows /\ row.pc = "new"
    <3>1. place[n].sponsor \in Nodes \cup {NoOne}
      BY <1>1 DEF PlaceRows
    <3> QED
      BY <2>1, <3>1, NoRows DEF PlaceRows
  <2>3. place' = [place EXCEPT ![n] = row]
    BY <1>3, <2>1 DEF Insert
  <2> QED
    BY <1>2, <2>2, <2>3, BackToStart, PlaceOnly
<1>4. CASE ~Taken(place[n].parent, place[n].leg)
  <2>1. PICK p, x, s, side : p = place[n].parent /\ x = place[n].leg /\ s = place[n].sponsor /\ side = place[n].side
    OBVIOUS
  <2>2. PICK q : q = Append(tree[p].path, Label(x, n))
    OBVIOUS
  <2>3. PICK row : row = [place[n] EXCEPT !.pc = "attach", !.path = q]
    OBVIOUS
  <2>4. place' = [place EXCEPT ![n] = row]
    BY <1>4, <2>1, <2>2, <2>3 DEF Insert
  <2>5. /\ p \in Placed /\ s \in Placed /\ x \in Legs
        /\ n \notin overtaken => Downhill(tree, closure, s, p, side) /\ (side \in Legs => x = side)
    BY <1>1, <1>2, <2>1 DEF PlacesKnow, PlaceKnows
  <2>6. q \in Seq(Labels) /\ q # <<>>
    <3>1. PICK t, e : t = tree[p].path /\ e = Label(x, n)
      OBVIOUS
    <3>2. t \in Seq(Labels) /\ e \in Labels
      <4>1. tree[p] \in SlotRows /\ n \in Nodes
        BY <1>1, <2>5 DEF NetShape, Nodes
      <4> QED
        BY <2>5, <3>1, <4>1 DEF SlotRows, Label, Labels
    <3>3. q = Append(t, e)
      BY <2>2, <3>1
    <3> QED
      BY <3>2, <3>3
  <2>7. /\ row \in PlaceRows /\ row.pc = "attach" /\ row.parent = p /\ row.leg = x /\ row.sponsor = s
        /\ row.side = side /\ row.path = q
    BY <1>1, <2>1, <2>3, <2>6 DEF PlaceRows
  <2>8. place'[n] = row /\ \A m \in New \ {n} : place'[m] = place[m]
    BY <1>1, <2>4 DEF NetShape
  <2>9. /\ Placed' = Placed /\ Child(p, x)' = Child(p, x)
        /\ Downhill(tree, closure, s, p, side)' = Downhill(tree, closure, s, p, side)
    BY <1>2, TreeStays
  <2>10. Child(p, x)' = {}
    BY <1>4, <2>1, <2>9 DEF Taken
  <2>11. \A m \in New : place'[m].pc = "attach" /\ place'[m].parent = p /\ place'[m].leg = x => m = n
    BY <1>2, <2>1, <2>8 DEF InProgress
  <2>12. /\ Child(place[n].parent, place[n].leg)' = {}
         /\ n \notin overtaken => Downhill(tree, closure, place[n].sponsor, place[n].parent, place[n].side)'
    BY <2>5, <2>7, <2>8, <2>9, <2>10
  <2>13. n \notin overtaken' => place'[n].path = Append(tree'[place'[n].parent].path, Label(place'[n].leg, n))
    BY <1>2, <2>2, <2>7, <2>8
  <2> HIDE DEF Placed, Child, Downhill
  <2>14. PlaceKnows(n)'
    BY <1>2, <2>5, <2>6, <2>7, <2>8, <2>9, <2>11, <2>12, <2>13 DEF PlaceKnows
  <2>15. row.pc # "placed" /\ place[n].pc # "placed"
    BY <1>2, <2>7
  <2> QED
    BY <1>2, <2>4, <2>7, <2>14, <2>15, PlaceOnly
<1> QED
  BY <1>3, <1>4

\* A step of the relocation before it commits.
LEMMA MoveOnly ==
  ASSUME NetInv, UNCHANGED <<tree, closure, count, pv, event, credited, place, overtaken>>,
         move' \in MoveRows, MoveKnows'
  PROVE  NetInv'
<1>1. /\ NetShape /\ Hung(Placed, tree, closure) /\ SlotsOnce /\ Born /\ PlacesKnow /\ SponsorsAgree
  BY DEF NetInv
<1>2. /\ Placed' = Placed /\ \A p, x : Child(p, x)' = Child(p, x)
      /\ \A s, p, side : Downhill(tree, closure, s, p, side)' = Downhill(tree, closure, s, p, side)
  BY TreeStays
<1>3. NetShape' /\ Hung(Placed, tree, closure)' /\ SlotsOnce' /\ SponsorsAgree' /\ Born'
  BY <1>1, <1>2 DEF NetShape, SlotsOnce, SponsorsAgree, Born, Blank
<1>4. PlacesKnow'
  BY <1>1, <1>2 DEF PlacesKnow, PlaceKnows
<1>5. Stale' = Stale
  BY DEF Stale
<1> QED
  BY <1>3, <1>4, <1>5, ExactStays DEF NetInv

LEMMA MoveEndsStep == ASSUME NetInv, MoveEnds PROVE NetInv'
<1>1. move' = NoMove /\ UNCHANGED <<tree, closure, count, pv, event, credited, place, overtaken>>
  BY DEF MoveEnds
<1>2. move' \in MoveRows /\ MoveKnows'
  BY <1>1, NoRows DEF MoveKnows, NoMove
<1> QED
  BY <1>1, <1>2, MoveOnly

LEMMA MoveLockStep ==
  ASSUME NetInv, NEW target \in Placed, NEW sponsor \in Placed, NEW p \in Placed, NEW x \in Legs,
         MoveLock(target, sponsor, [parent |-> p, leg |-> x])
  PROVE  NetInv'
<1>1. NetShape /\ Hung(Placed, tree, closure) /\ Placed \subseteq Nodes
  BY PlacedAre DEF NetInv
<1>2. PICK to : to = [parent |-> p, leg |-> x]
  OBVIOUS
<1>3. to.parent = p /\ to.leg = x
  BY <1>2
<1>4. /\ target # Company /\ sponsor \notin SubtreeOf(target) /\ Child(p, x) \subseteq {target}
      /\ Allowed(target, sponsor, to)
      /\ move' = [target |-> target, sponsor |-> sponsor, parent |-> p, leg |-> x,
                  rows |-> LockedRows(target, sponsor, to)]
      /\ UNCHANGED <<tree, closure, count, pv, event, credited, place, overtaken>>
  BY <1>2, <1>3 DEF MoveLock, Outside
<1>5. /\ \A d \in Placed : AtOrAbove(d) = Up(closure, d)
      /\ \A d : AncestorsOf(d) = Up(closure, d) \ {d}
      /\ \A d : SubtreeOf(d) = {m \in Placed : d \in Up(closure, m)}
  BY <1>1, NetAbove
<1>6. target \notin Up(closure, p)
  <2>1. CASE to.parent \in Placed \ (SubtreeOf(target) \cup Inactive) /\ sponsor \in AtOrAbove(to.parent)
    BY <1>3, <1>5, <2>1
  <2>2. CASE to = [parent |-> tree[target].parent, leg |-> tree[target].leg]
    <3>1. p = tree[target].parent
      BY <1>3, <2>2
    <3> QED
      BY <1>1, <1>4, <3>1 DEF Hung
  <2>3. CASE sponsor \notin AncestorsOf(target) /\ to = Slot(sponsor, "auto")
    <3>1. Downhill(tree, closure, sponsor, p, "auto")
      BY <1>1, <1>3, <2>3, SlotMeaning DEF NetShape
    <3>2. sponsor \in Up(closure, p)
      BY <3>1 DEF Downhill
    <3>3. SUFFICES ASSUME target \in Up(closure, p) PROVE FALSE
      OBVIOUS
    <3>4. sponsor \in Up(closure, target) \/ target \in Up(closure, sponsor)
      BY <1>1, <3>2, <3>3, UpFacts
    <3>5. target \in Up(closure, target)
      BY <1>1, UpFacts
    <3> QED
      BY <1>4, <1>5, <2>3, <3>4, <3>5
  <2> QED
    BY <1>4, <2>1, <2>2, <2>3 DEF Allowed
<1>7. LockedRows(target, sponsor, to) \subseteq Nodes /\ p \in LockedRows(target, sponsor, to)
  <2>1. \A d : Up(closure, d) \subseteq Nodes
    BY <1>1, UpIn DEF Hung
  <2>2. AtOrAbove(p) = Up(closure, p) /\ AncestorsOf(target) \subseteq Up(closure, target) /\ SubtreeOf(target) \subseteq Placed
    BY <1>5
  <2> QED
    BY <1>1, <1>3, <2>1, <2>2 DEF LockedRows
<1>8. PICK rows \in SUBSET Nodes : rows = LockedRows(target, sponsor, to)
  BY <1>7
<1>9. /\ move' \in MoveRows
      /\ move'.target = target /\ move'.sponsor = sponsor /\ move'.parent = p /\ move'.leg = x /\ move'.rows = rows
  <2>1. move' = [target |-> target, sponsor |-> sponsor, parent |-> p, leg |-> x, rows |-> rows]
    BY <1>4, <1>8
  <2> QED
    BY <1>1, <2>1 DEF MoveRows
<1>10. MoveKnows'
  <2>1. Placed' = Placed /\ Child(p, x)' = Child(p, x) /\ Up(closure, p)' = Up(closure, p)
    BY <1>4, TreeStays
  <2>2. /\ Child(move.parent, move.leg)' \subseteq {target}
        /\ target \notin Up(closure, move.parent)'
    BY <1>4, <1>6, <1>9, <2>1
  <2> HIDE DEF Placed, Child, Up
  <2> QED
    BY <1>4, <1>7, <1>8, <1>9, <2>1, <2>2 DEF MoveKnows
<1> QED
  BY <1>4, <1>9, <1>10, MoveOnly

-----------------------------------------------------------------------------
(* Sales.                                                                  *)

LEMMA PlusAt ==
  ASSUME NEW f, NEW L, NEW R, NEW k, NEW a \in Nodes, NEW x \in Legs
  PROVE  Plus(f, L, R, k)[a][x] = f[a][x] + IF a \in (IF x = "L" THEN L ELSE R) THEN k ELSE 0
  BY DEF Plus

LEMMA PlusTyped ==
  ASSUME NEW f \in [Nodes -> [Legs -> Nat]], NEW L, NEW R, NEW k \in Nat
  PROVE  Plus(f, L, R, k) \in [Nodes -> [Legs -> Nat]]
  BY DEF Plus

LEMMA SaleStep == ASSUME NetInv, NEW n \in Nodes, Sale(n) PROVE NetInv'
<1>1. /\ NetShape /\ Hung(Placed, tree, closure) /\ SlotsOnce /\ Born /\ PlacesKnow /\ MoveKnows /\ SponsorsAgree
      /\ Placed \subseteq Nodes
  BY PlacedAre DEF NetInv
<1>2. n \in Placed \ {Company}
  BY DEF Sale
<1>3. PICK S : S = [x \in Legs |-> {a \in AncestorsOf(n) : LegUnder(tree[n].path, a) = x}]
  OBVIOUS
<1>4. /\ pv' = Plus(pv, S["L"], S["R"], 1) /\ event' = [event EXCEPT ![n] = @ + 1]
      /\ UNCHANGED <<tree, closure, count, credited, place, move, overtaken>>
  BY <1>3 DEF Sale, Legs
<1>5. pv' \in [Nodes -> [Legs -> Nat]] /\ event' \in [Nodes -> Nat]
  BY <1>1, <1>4, PlusTyped DEF NetShape
<1>6. ASSUME NEW a \in Nodes, NEW x \in Legs
      PROVE  pv'[a][x] = pv[a][x] + IF a \in S[x] THEN 1 ELSE 0
  <2>1. (IF x = "L" THEN S["L"] ELSE S["R"]) = S[x]
    BY <1>6 DEF Legs
  <2> QED
    BY <1>4, <2>1, PlusAt
<1>7. /\ Placed' = Placed /\ \A p, x : Child(p, x)' = Child(p, x)
      /\ \A s, p, side : Downhill(tree, closure, s, p, side)' = Downhill(tree, closure, s, p, side)
  BY <1>4, TreeStays
<1>8. NetShape'
  BY <1>1, <1>4, <1>5 DEF NetShape
<1>9. Hung(Placed, tree, closure)' /\ SlotsOnce' /\ SponsorsAgree' /\ MoveKnows'
  BY <1>1, <1>4, <1>7 DEF SlotsOnce, SponsorsAgree, MoveKnows, NoMove
<1>10. PlacesKnow'
  BY <1>1, <1>4, <1>7 DEF PlacesKnow, PlaceKnows
<1>11. Born'
  <2>1. \A m \in New : m \notin Placed => event'[m] = event[m]
    BY <1>1, <1>2, <1>4 DEF NetShape
  <2>2. ASSUME NEW m \in New, m \notin Placed, NEW x \in Legs PROVE pv'[m][x] = pv[m][x]
    <3>1. AncestorsOf(n) \subseteq Placed
      BY <1>1, NetAbove, UpIn DEF Hung
    <3>2. m \notin S[x] /\ m \in Nodes
      BY <1>3, <2>2, <3>1 DEF Nodes
    <3>3. pv[m][x] \in Nat
      BY <1>1, <3>2 DEF NetShape
    <3> QED
      BY <1>6, <3>2, <3>3
  <2>3. \A m \in New : m \notin Placed => Blank(m)'
    BY <1>1, <1>4, <2>1, <2>2 DEF Born, Blank
  <2> QED
    BY <1>1, <1>4, <1>7, <2>3 DEF Born
<1>12. Exact'
  <2>1. SUFFICES ASSUME Stale = {} PROVE Exact'
    BY <1>4 DEF Exact, Stale
  <2>2. Paths(Placed, tree, PathsOf(tree)) /\ Distances(tree, closure) /\ \A a \in Placed : Counted(a)
    BY <2>1 DEF NetInv, Exact
  <2>3. ASSUME NEW a \in Placed, NEW x \in Legs
        PROVE  a \in S[x] <=> n \in Leg(Placed, tree, closure, a, x)
    <3>1. a \in S[x] <=> a \in Up(closure, n) \ {n} /\ LegUnder(tree[n].path, a) = x
      BY <1>1, <1>3, NetAbove
    <3>2. CASE a \in Up(closure, n) \ {n}
      <4>1. PathsOf(tree)[n][Len(PathsOf(tree)[a]) + 1][1] = x <=> n \in Leg(Placed, tree, closure, a, x)
        BY <1>1, <1>2, <2>2, <3>2, LegOfPath
      <4>2. PathsOf(tree)[n] = tree[n].path /\ PathsOf(tree)[a] = tree[a].path
        BY <1>1 DEF PathsOf
      <4>3. LegUnder(tree[n].path, a) = x <=> n \in Leg(Placed, tree, closure, a, x)
        BY <4>1, <4>2 DEF LegUnder
      <4> QED
        BY <3>1, <3>2, <4>3
    <3>3. CASE a \notin Up(closure, n) \ {n}
      BY <1>1, <3>1, <3>3, LegIn
    <3> QED
      BY <3>2, <3>3
  <2>4. ASSUME NEW a \in Placed, NEW x \in Legs
        PROVE  pv'[a][x] = SumFunctionOnSet(event', Leg(Placed, tree, closure, a, x))
    <3>1. PICK leg : leg = Leg(Placed, tree, closure, a, x)
      OBVIOUS
    <3>2. IsFiniteSet(leg) /\ leg \subseteq Nodes
      BY <1>1, <3>1, LegsBelow
    <3>3. /\ pv[a][x] = SumFunctionOnSet(event, leg)
          /\ pv'[a][x] = pv[a][x] + IF n \in leg THEN 1 ELSE 0
      BY <1>1, <1>6, <2>2, <2>3, <3>1 DEF Counted
    <3>4. \A y \in leg : event[y] \in Int /\ event'[y] \in Int
      BY <1>1, <1>5, <3>2 DEF NetShape
    <3>5. \A y \in leg \ {n} : event[y] = event'[y]
      BY <1>1, <1>4, <3>2 DEF NetShape
    <3>6. CASE n \in leg
      <4>1. PICK e, g : e = event /\ g = event'
        OBVIOUS
      <4>2. SumFunctionOnSet(g, leg) = SumFunctionOnSet(e, leg) + (g[n] - e[n])
        <5>1. (\A y \in leg : e[y] \in Int /\ g[y] \in Int) /\ (\A y \in leg \ {n} : e[y] = g[y])
          BY <3>4, <3>5, <4>1
        <5> QED
          BY <3>2, <3>6, <5>1, SumChanged
      <4>3. g[n] - e[n] = 1
        BY <1>1, <1>4, <4>1 DEF NetShape
      <4> QED
        BY <3>1, <3>3, <3>6, <4>1, <4>2, <4>3
    <3>7. CASE n \notin leg
      <4>1. PICK e, g : e = event /\ g = event'
        OBVIOUS
      <4>2. \A y \in leg : e[y] = g[y]
        BY <3>5, <3>7, <4>1
      <4>3. SumFunctionOnSet(e, leg) = SumFunctionOnSet(g, leg)
        BY <3>2, <4>2, SumAlike
      <4>4. pv[a][x] \in Nat
        BY <1>1 DEF NetShape
      <4>5. pv'[a][x] = pv[a][x]
        BY <3>3, <3>7, <4>4
      <4> QED
        BY <3>1, <3>3, <4>1, <4>3, <4>5
    <3> QED
      BY <3>6, <3>7
  <2>5. \A a \in Placed' : Counted(a)'
    <3>1. SUFFICES ASSUME NEW a \in Placed PROVE Counted(a)'
      BY <1>7
    <3>2. \A x \in Legs : Leg(Placed, tree, closure, a, x)' = Leg(Placed, tree, closure, a, x)
      BY <1>4, <1>7
    <3>3. \A x \in Legs : count'[a][x] = Cardinality(Leg(Placed, tree, closure, a, x))
      BY <1>4, <2>2 DEF Counted
    <3> HIDE DEF Placed, Leg
    <3> QED
      BY <2>4, <3>2, <3>3 DEF Counted
  <2>6. Paths(Placed, tree, PathsOf(tree))' /\ Distances(tree, closure)'
    BY <1>4, <1>7, <2>2
  <2> QED
    BY <2>5, <2>6 DEF Exact
<1> QED
  BY <1>8, <1>9, <1>10, <1>11, <1>12 DEF NetInv

-----------------------------------------------------------------------------
(* Placements that end.                                                    *)

\* A new leaf counts in its own legs and changes no other.
LEMMA LeafLegs ==
  ASSUME NEW N, NEW f, NEW C, Hung(N, f, C), NEW n, n \notin N, NEW g, NEW D, Hung(N \cup {n}, g, D),
         \A m \in N : g[m].parent = f[m].parent /\ g[m].leg = f[m].leg,
         \A m \in N : Up(D, m) = Up(C, m), NEW a, NEW x
  PROVE  Leg(N \cup {n}, g, D, a, x) \ {n} = Leg(N, f, C, a, x)
<1>1. \A m : Up(C, m) \subseteq N
  BY UpIn DEF Hung
<1> QED
  BY <1>1 DEF Leg

\* What a placement that ends has done.
Attached(n) ==
  LET p == place[n].parent IN
  /\ p \in Placed /\ place[n].leg \in Legs /\ place[n].sponsor \in Placed
  /\ n \in Nodes \ Placed /\ Blank(n) /\ place[n].pc = "attach"
  /\ tree' \in [Nodes -> SlotRows] /\ tree'[n].parent = p /\ tree'[n].leg = place[n].leg
  /\ tree'[n].sponsor = place[n].sponsor /\ tree'[n].path = place[n].path
  /\ \A m \in Nodes \ {n} : tree'[m] = tree[m]
  /\ Placed' = Placed \cup {n}
  /\ Hung(Placed \cup {n}, tree', closure')
  /\ Up(closure', n) = Up(closure, p) \cup {n} /\ \A m \in Placed : Up(closure', m) = Up(closure, m)
  /\ place' \in [New -> PlaceRows] /\ place'[n].pc = "placed" /\ \A m \in New \ {n} : place'[m] = place[m]

LEMMA AttachFacts ==
  ASSUME NetInv, NEW n \in New, NEW global \in BOOLEAN, Attach(n, global)
  PROVE  Attached(n)
<1>1. /\ NetShape /\ Hung(Placed, tree, closure) /\ Born /\ PlaceKnows(n) /\ Placed \subseteq Nodes
      /\ place[n] \in PlaceRows
  BY PlacedAre DEF NetInv, NetShape, PlacesKnow
<1>2. PICK p, x, s, q : p = place[n].parent /\ x = place[n].leg /\ s = place[n].sponsor /\ q = place[n].path
  OBVIOUS
<1>3. /\ place[n].pc = "attach"
      /\ tree' = [tree EXCEPT ![n] = [parent |-> p, leg |-> x, sponsor |-> s, path |-> q]]
      /\ closure' = Leafed(closure, n, p)
      /\ place' = [place EXCEPT ![n].pc = "placed"]
  BY <1>2 DEF Attach, Leafed
<1>4. p \in Placed /\ x \in Legs /\ s \in Placed /\ q # <<>> /\ q \in Seq(Labels)
  BY <1>1, <1>2, <1>3 DEF PlaceKnows, PlaceRows
<1>5. n \in Nodes \ Placed /\ Blank(n)
  BY <1>1, <1>3 DEF Born, Nodes
<1>6. PICK row : row = [parent |-> p, leg |-> x, sponsor |-> s, path |-> q]
  OBVIOUS
<1>7. row \in SlotRows /\ row.parent = p /\ row.leg = x /\ row.sponsor = s /\ row.path = q
  BY <1>1, <1>4, <1>6, IsSlotRow
<1>8. tree' = [tree EXCEPT ![n] = row]
  BY <1>3, <1>6
<1>9. tree' \in [Nodes -> SlotRows] /\ tree'[n] = row /\ \A m \in Nodes \ {n} : tree'[m] = tree[m]
  BY <1>1, <1>5, <1>7, <1>8 DEF NetShape
<1>10. Placed' = Placed \cup {n}
  BY <1>4, <1>5, <1>7, <1>9 DEF Placed
<1>11. PICK g, D : g = tree' /\ D = closure'
  OBVIOUS
<1>12. /\ \A m \in Placed : g[m].parent = tree[m].parent /\ g[m].leg = tree[m].leg
       /\ g[n].parent = p /\ g[n].leg \in Legs
       /\ D = Leafed(closure, n, p)
  BY <1>1, <1>3, <1>4, <1>5, <1>7, <1>9, <1>11
<1>13. Hung(Placed \cup {n}, g, D) /\ Up(D, n) = Up(closure, p) \cup {n} /\ \A m \in Placed : Up(D, m) = Up(closure, m)
  <2>1. PICK N, C, f : N = Placed /\ C = closure /\ f = tree
    OBVIOUS
  <2>2. /\ Hung(N, f, C) /\ n \in Nodes \ N /\ p \in N /\ \A m \in N : g[m].parent = f[m].parent /\ g[m].leg = f[m].leg
        /\ g[n].parent = p /\ g[n].leg \in Legs
    BY <1>1, <1>4, <1>5, <1>12, <2>1
  <2>3. D = Leafed(C, n, p)
    BY <1>12, <2>1
  <2>4. Hung(N \cup {n}, g, D) /\ Up(D, n) = Up(C, p) \cup {n} /\ \A m \in N : Up(D, m) = Up(C, m)
    BY <2>2, <2>3, LeafHung
  <2> QED
    BY <2>1, <2>4
<1>14. place' \in [New -> PlaceRows] /\ place'[n].pc = "placed" /\ \A m \in New \ {n} : place'[m] = place[m]
  <2>1. PICK r : r = [place[n] EXCEPT !.pc = "placed"]
    OBVIOUS
  <2>2. r \in PlaceRows /\ r.pc = "placed"
    BY <1>1, <2>1 DEF PlaceRows
  <2>3. place' = [place EXCEPT ![n] = r]
    BY <1>1, <1>3, <2>1 DEF NetShape
  <2> QED
    BY <1>1, <2>2, <2>3 DEF NetShape
<1> QED
  BY <1>2, <1>3, <1>4, <1>5, <1>7, <1>9, <1>10, <1>11, <1>13, <1>14 DEF Attached

\* A new node counts one more in the legs it is in, and no more elsewhere.
LEMMA AttachCounts ==
  ASSUME NetInv, NEW n \in New, NEW global \in BOOLEAN, Attach(n, global)
  PROVE  /\ count' \in [Nodes -> [Legs -> Nat]]
         /\ \A a \in Nodes, x \in Legs : a \notin Up(closure, place[n].parent) => count'[a][x] = count[a][x]
         /\ Paths(Placed', tree', PathsOf(tree')) =>
              \A a \in Up(closure, place[n].parent), x \in Legs :
                count'[a][x] = count[a][x] + IF n \in Leg(Placed', tree', closure', a, x) THEN 1 ELSE 0
<1>0. Attached(n)
  BY AttachFacts
<1>1. PICK p, N, g, D : p = place[n].parent /\ N = Placed \cup {n} /\ g = tree' /\ D = closure'
  OBVIOUS
<1>2. /\ p \in Placed /\ n \in Nodes \ Placed /\ Placed' = N /\ Hung(N, g, D)
      /\ Up(D, n) = Up(closure, p) \cup {n} /\ \A m \in Placed : Up(D, m) = Up(closure, m)
      /\ g[n].parent = p /\ g[n].leg = place[n].leg /\ g[n].path = place[n].path
      /\ \A m \in Nodes \ {n} : g[m] = tree[m]
  BY <1>1, <1>0 DEF Attached
<1>3. /\ NetShape /\ Hung(Placed, tree, closure) /\ Placed \subseteq Nodes /\ AtOrAbove(p) = Up(closure, p)
      /\ Up(closure, p) \subseteq Placed
  BY <1>2, PlacedAre, NetAbove, UpIn DEF NetInv, Hung
<1>4. PICK S : S = [x \in Legs |-> IF global THEN LegsByPath(n, x) ELSE LegsByTree(n, x)]
  OBVIOUS
<1>5. count' = Plus(count, S["L"], S["R"], 1)
  BY <1>4 DEF Attach, Legs
<1>6. count' \in [Nodes -> [Legs -> Nat]]
  BY <1>3, <1>5, PlusTyped DEF NetShape
<1>7. ASSUME NEW a \in Nodes, NEW x \in Legs
      PROVE  count'[a][x] = count[a][x] + IF a \in S[x] THEN 1 ELSE 0
  <2>1. (IF x = "L" THEN S["L"] ELSE S["R"]) = S[x]
    BY <1>7 DEF Legs
  <2> QED
    BY <1>5, <2>1, PlusAt
<1>8. \A x \in Legs : S[x] \subseteq Up(closure, p)
  BY <1>1, <1>3, <1>4 DEF LegsByPath, LegsByTree
<1>9. \A a \in Nodes, x \in Legs : a \notin Up(closure, p) => count'[a][x] = count[a][x]
  <2>1. \A a \in Nodes, x \in Legs : count[a][x] \in Nat
    BY <1>3 DEF NetShape
  <2> QED
    BY <1>7, <1>8, <2>1
<1>10. ASSUME Paths(N, g, PathsOf(g)), NEW a \in Up(closure, p), NEW x \in Legs
       PROVE  a \in S[x] <=> n \in Leg(N, g, D, a, x)
  <2>1. a \in Placed /\ a # n /\ a \in Nodes
    BY <1>2, <1>3, <1>10
  <2>2. CASE global
    <3>1. PathsOf(g)[n][Len(PathsOf(g)[a]) + 1][1] = x <=> n \in Leg(N, g, D, a, x)
      <4>1. n \in N /\ a \in Up(D, n) /\ a # n
        BY <1>1, <1>2, <1>10, <2>1
      <4> QED
        BY <1>2, <1>10, <4>1, LegOfPath
    <3>2. PathsOf(g)[n] = place[n].path /\ PathsOf(g)[a] = tree[a].path
      BY <1>2, <2>1 DEF PathsOf
    <3>3. a \in S[x] <=> LegUnder(place[n].path, a) = x
      BY <1>1, <1>3, <1>4, <1>10, <2>2 DEF LegsByPath
    <3> QED
      BY <3>1, <3>2, <3>3 DEF LegUnder
  <2>3. CASE ~global
    <3>1. a \in S[x] <=> \E l \in Up(closure, p) \cup {n} :
                           LET slot == IF l = n THEN place[n] ELSE tree[l] IN slot.parent = a /\ slot.leg = x
      BY <1>1, <1>3, <1>4, <1>10, <2>3 DEF LegsByTree
    <3>2. \A l \in Up(closure, p) \cup {n} :
            /\ (IF l = n THEN place[n] ELSE tree[l]).parent = g[l].parent
            /\ (IF l = n THEN place[n] ELSE tree[l]).leg = g[l].leg
      BY <1>1, <1>2, <1>3
    <3>3. a \in S[x] <=> \E l \in Up(closure, p) \cup {n} : g[l].parent = a /\ g[l].leg = x
      BY <3>1, <3>2
    <3>4. g[Company].parent # a
      <4>1. Company # n /\ Company \in Nodes
        BY NetworkAssumption DEF Nodes
      <4> QED
        BY <1>2, <1>3, <2>1, <4>1, NetworkAssumption DEF NetShape
    <3>5. n \in Leg(N, g, D, a, x) <=> \E c \in Up(D, n) \ {Company} : g[c].parent = a /\ g[c].leg = x
      BY <1>1 DEF Leg
    <3> QED
      BY <1>2, <3>3, <3>4, <3>5
  <2> QED
    BY <2>2, <2>3
<1>11. Paths(N, g, PathsOf(g)) =>
         \A a \in Up(closure, p), x \in Legs :
           count'[a][x] = count[a][x] + IF n \in Leg(N, g, D, a, x) THEN 1 ELSE 0
  <2>1. Up(closure, p) \subseteq Nodes
    BY <1>3
  <2> QED
    BY <1>7, <1>10, <2>1
<1> QED
  BY <1>1, <1>2, <1>6, <1>9, <1>11

LEMMA AttachExact ==
  ASSUME NetInv, NEW n \in New, NEW global \in BOOLEAN, Attach(n, global)
  PROVE  Exact'
<1>0. Attached(n)
  BY AttachFacts
<1>1. PICK p, N, g, D, M, f, C : /\ p = place[n].parent /\ N = Placed \cup {n} /\ g = tree' /\ D = closure'
                                 /\ M = Placed /\ f = tree /\ C = closure
  OBVIOUS
<1>2. /\ p \in M /\ n \in Nodes \ M /\ N = M \cup {n} /\ Placed' = N /\ Hung(N, g, D) /\ Blank(n)
      /\ Up(D, n) = Up(C, p) \cup {n} /\ \A m \in M : Up(D, m) = Up(C, m)
      /\ g[n].parent = p /\ g[n].leg = place[n].leg /\ g[n].path = place[n].path
      /\ \A m \in Nodes \ {n} : g[m] = f[m]
      /\ place'[n].pc = "placed" /\ \A m \in New \ {n} : place'[m] = place[m]
      /\ place[n].pc = "attach"
  BY <1>1, <1>0 DEF Attached
<1>3. /\ NetShape /\ Hung(M, f, C) /\ M \subseteq Nodes /\ PlaceKnows(n)
      /\ UNCHANGED <<pv, event, overtaken>> /\ Company \in M
  BY <1>1, PlacedAre DEF NetInv, Attach, PlacesKnow, Hung
<1>4. SUFFICES ASSUME Stale' = {} PROVE Paths(N, g, PathsOf(g)) /\ Distances(g, D) /\ \A a \in N : Counted(a)'
  BY <1>1, <1>2 DEF Exact
<1>5. Stale = {} /\ n \notin overtaken
  <2>1. \A m \in New : place[m].pc = "placed" => place'[m].pc = "placed"
    BY <1>2
  <2> QED
    BY <1>2, <1>3, <1>4, <2>1 DEF Stale, NetShape
<1>6. /\ Paths(M, f, PathsOf(f)) /\ Distances(f, C) /\ \A a \in M : Counted(a)
      /\ g[n].path = Append(f[p].path, Label(g[n].leg, n))
  BY <1>1, <1>2, <1>3, <1>5 DEF NetInv, Exact, PlaceKnows
<1>7. \A m \in M : PathsOf(g)[m] = PathsOf(f)[m] /\ PathsOf(f)[m] = f[m].path /\ g[m] = f[m]
  BY <1>2, <1>3 DEF PathsOf
<1>8. PathsOf(g)[n] = g[n].path
  BY <1>2 DEF PathsOf
<1>9. Paths(N, g, PathsOf(g))
  <2>1. PathsOf(g)[Company] = <<Label("", Company)>>
    BY <1>3, <1>6, <1>7 DEF Paths
  <2>2. ASSUME NEW m \in N \ {Company}
        PROVE  PathsOf(g)[m] = Append(PathsOf(g)[g[m].parent], Label(g[m].leg, m))
    <3>1. CASE m = n
      BY <1>2, <1>6, <1>7, <1>8, <3>1
    <3>2. CASE m \in M
      <4>1. f[m].parent \in M
        BY <1>3, <2>2, <3>2 DEF Hung
      <4> QED
        BY <1>6, <1>7, <2>2, <3>2, <4>1 DEF Paths
    <3> QED
      BY <1>2, <3>1, <3>2
  <2> QED
    BY <2>1, <2>2 DEF Paths
<1>10. Distances(g, D)
  <2>1. PICK l : l = [m \in N |-> Len(g[m].path)]
    OBVIOUS
  <2>2. (\A m \in M : l[m] \in Nat /\ Len(f[m].path) = l[m]) /\ l[n] = l[p] + 1
    <3>1. \A m \in M : f[m].path \in Seq(Labels)
      BY <1>1, <1>3 DEF NetShape, SlotRows
    <3>2. Label(g[n].leg, n) \in Labels
      BY <1>2, <1>3 DEF PlaceKnows, Label, Labels
    <3>3. Len(g[n].path) = Len(f[p].path) + 1
      <4>1. PICK s, e : s = f[p].path /\ e = Label(g[n].leg, n)
        OBVIOUS
      <4>2. s \in Seq(Labels) /\ e \in Labels /\ g[n].path = Append(s, e)
        BY <1>2, <1>6, <3>1, <3>2, <4>1
      <4>3. Len(Append(s, e)) = Len(s) + 1
        BY <4>2, OneMore
      <4> QED
        BY <4>1, <4>2, <4>3
    <3>4. \A m \in M : l[m] = Len(f[m].path)
      BY <1>2, <1>7, <2>1
    <3>5. \A m \in M : Len(f[m].path) \in Nat
      BY <3>1, LenProperties
    <3>6. l[n] = Len(g[n].path)
      BY <1>2, <2>1
    <3> QED
      BY <1>2, <3>3, <3>4, <3>5, <3>6
  <2>3. ASSUME NEW t \in D PROVE t[1] \in N /\ t[2] \in N /\ t[3] = l[t[2]] - l[t[1]]
    <3>1. D = Leafed(C, n, p)
      BY <1>1 DEF Attach, Leafed
    <3>2. \A u \in C : u[1] \in M /\ u[2] \in M /\ u[3] = l[u[2]] - l[u[1]]
      <4>1. \A u \in C : u[1] \in M /\ u[2] \in M
        BY <1>3 DEF Hung, Rows
      <4>2. \A u \in C : u[3] = Len(f[u[2]].path) - Len(f[u[1]].path)
        BY <1>6 DEF Distances
      <4> QED
        BY <2>2, <4>1, <4>2
    <3>3. CASE t \in C
      BY <1>2, <3>2, <3>3
    <3>4. CASE t = <<n, n, 0>>
      <4>1. t[1] = n /\ t[2] = n /\ t[3] = 0
        BY <3>4
      <4> QED
        BY <1>2, <2>2, <4>1
    <3>5. CASE \E u \in C : u[2] = p /\ t = <<u[1], n, u[3] + 1>>
      <4>1. PICK u \in C : u[2] = p /\ t = <<u[1], n, u[3] + 1>>
        BY <3>5
      <4>2. PICK a, k : a = u[1] /\ k = u[3]
        OBVIOUS
      <4>3. t = <<a, n, k + 1>> /\ a \in M /\ k = l[p] - l[a]
        BY <3>2, <4>1, <4>2
      <4>4. t[1] = a /\ t[2] = n /\ t[3] = k + 1
        BY <4>3
      <4>5. l[p] \in Nat /\ l[a] \in Nat /\ l[n] = l[p] + 1
        BY <1>2, <2>2, <4>3
      <4>6. k + 1 = l[n] - l[a]
        BY <4>3, <4>5
      <4> QED
        BY <1>2, <4>3, <4>4, <4>6
    <3> QED
      BY <3>1, <3>3, <3>4, <3>5 DEF Leafed
  <2> QED
    BY <2>1, <2>3 DEF Distances
<1>11. ASSUME NEW a \in N PROVE Counted(a)'
  <2>1. SUFFICES ASSUME NEW x \in Legs
                 PROVE  /\ count'[a][x] = Cardinality(Leg(N, g, D, a, x))
                        /\ pv'[a][x] = SumFunctionOnSet(event', Leg(N, g, D, a, x))
    BY <1>1, <1>2 DEF Counted
  <2>2. PICK old, new : old = Leg(M, f, C, a, x) /\ new = Leg(N, g, D, a, x)
    OBVIOUS
  <2>3. new \ {n} = old /\ IsFiniteSet(old) /\ Cardinality(old) \in Nat /\ old \subseteq M
    BY <1>2, <1>3, <2>2, LeafLegs, LegsBelow
  <2>4. count[a][x] = Cardinality(old) /\ pv[a][x] = SumFunctionOnSet(event, old)
    <3>1. CASE a \in M
      BY <1>1, <1>6, <2>2, <3>1 DEF Counted
    <3>2. CASE a = n
      <4>1. old = {}
        BY <1>2, <1>3, <2>2, <3>2, LegIn, UpIn DEF Hung
      <4> QED
        BY <1>2, <3>2, <4>1, FS_EmptySet, SumEmpty DEF Blank
    <3> QED
      BY <1>2, <3>1, <3>2
  <2>5. count'[a][x] = count[a][x] + IF n \in new THEN 1 ELSE 0
    <3>1. CASE a \in Up(C, p)
      <4>1. Paths(Placed', tree', PathsOf(tree'))
        BY <1>1, <1>2, <1>9
      <4>2. \A b \in Up(closure, place[n].parent), y \in Legs :
              count'[b][y] = count[b][y] + IF n \in Leg(Placed', tree', closure', b, y) THEN 1 ELSE 0
        BY <4>1, AttachCounts
      <4>3. a \in Up(closure, place[n].parent)
        BY <1>1, <1>2, <3>1
      <4>4. count'[a][x] = count[a][x] + IF n \in Leg(Placed', tree', closure', a, x) THEN 1 ELSE 0
        BY <4>2, <4>3
      <4>5. Leg(Placed', tree', closure', a, x) = new
        BY <1>1, <1>2, <2>2
      <4> QED
        BY <4>4, <4>5
    <3>2. CASE a \notin Up(C, p)
      <4>1. n \notin new
        BY <1>2, <2>2, <3>2, LegIn
      <4>2. count'[a][x] = count[a][x]
        BY <1>1, <1>2, <1>3, <3>2, AttachCounts
      <4> QED
        BY <2>3, <2>4, <4>1, <4>2
    <3> QED
      BY <3>1, <3>2
  <2>6. CASE n \in new
    <3>1. new = old \cup {n} /\ n \notin old
      BY <1>2, <2>3, <2>6
    <3>2. Cardinality(new) = Cardinality(old) + 1
      BY <2>3, <3>1, FS_AddElement
    <3>3. PICK e : e = event
      OBVIOUS
    <3>4. \A y \in old \cup {n} : e[y] \in Int
      BY <1>2, <1>3, <2>3, <3>3 DEF NetShape
    <3>5. SumFunctionOnSet(e, new) = e[n] + SumFunctionOnSet(e, old)
      BY <2>3, <3>1, <3>4, SumAdd
    <3>6. e[n] = 0
      BY <1>2, <3>3 DEF Blank
    <3>7. SumFunctionOnSet(e, old) \in Int
      BY <2>3, <3>4, SumInt
    <3>8. SumFunctionOnSet(e, new) = SumFunctionOnSet(e, old)
      BY <3>5, <3>6, <3>7
    <3> QED
      BY <1>3, <2>2, <2>4, <2>5, <2>6, <3>2, <3>3, <3>8
  <2>7. CASE n \notin new
    BY <1>3, <2>2, <2>3, <2>4, <2>5, <2>7
  <2> QED
    BY <2>6, <2>7
<1> QED
  BY <1>9, <1>10, <1>11

LEMMA AttachStep ==
  ASSUME NetInv, NEW n \in New, NEW global \in BOOLEAN, Attach(n, global)
  PROVE  NetInv'
<1>0. Attached(n)
  BY AttachFacts
<1>1. PICK p, x : p = place[n].parent /\ x = place[n].leg
  OBVIOUS
<1>2. /\ p \in Placed /\ x \in Legs /\ place[n].sponsor \in Placed
      /\ n \in Nodes \ Placed /\ Blank(n) /\ place[n].pc = "attach"
      /\ tree' \in [Nodes -> SlotRows] /\ tree'[n].parent = p /\ tree'[n].leg = x
      /\ tree'[n].sponsor = place[n].sponsor
      /\ \A m \in Nodes \ {n} : tree'[m] = tree[m]
      /\ Placed' = Placed \cup {n} /\ Hung(Placed \cup {n}, tree', closure')
      /\ Up(closure', n) = Up(closure, p) \cup {n} /\ \A m \in Placed : Up(closure', m) = Up(closure, m)
      /\ place' \in [New -> PlaceRows] /\ place'[n].pc = "placed" /\ \A m \in New \ {n} : place'[m] = place[m]
  BY <1>1, <1>0 DEF Attached
<1>3. /\ NetShape /\ Hung(Placed, tree, closure) /\ SlotsOnce /\ Born /\ PlacesKnow /\ MoveKnows /\ SponsorsAgree
      /\ Placed \subseteq Nodes /\ PlaceKnows(n) /\ Company \in Placed
  BY PlacedAre DEF NetInv, PlacesKnow, Hung
<1>4. /\ UNCHANGED <<pv, event, move, overtaken>> /\ AtOrAbove(p) \cap move.rows = {}
      /\ credited' = [credited EXCEPT ![n] = place[n].sponsor]
  BY <1>1 DEF Attach, Credit
<1>5. NetShape'
  <2>1. count' \in [Nodes -> [Legs -> Nat]]
    BY AttachCounts
  <2>2. credited' \in [Nodes -> Nodes \cup {NoOne}]
    BY <1>2, <1>3, <1>4 DEF NetShape
  <2>3. tree'[Company].parent = NoOne
    BY <1>2, <1>3 DEF NetShape
  <2> QED
    BY <1>2, <1>3, <1>4, <2>1, <2>2, <2>3 DEF NetShape
<1>6. \A b, y : Child(b, y)' = IF b = p /\ y = x THEN Child(b, y) \cup {n} ELSE Child(b, y)
  <2>1. \A m \in Placed : tree'[m] = tree[m]
    BY <1>2, <1>3
  <2>2. \A b, y : Child(b, y)' = {m \in Placed \cup {n} : tree'[m].parent = b /\ tree'[m].leg = y}
    BY <1>2 DEF Child
  <2>3. \A b, y : Child(b, y) = {m \in Placed : tree[m].parent = b /\ tree[m].leg = y}
    BY DEF Child
  <2> HIDE DEF Placed
  <2> QED
    BY <1>2, <2>1, <2>2, <2>3
<1>7. Child(p, x) = {}
  BY <1>1, <1>2, <1>3 DEF PlaceKnows
<1>8. SlotsOnce'
  <2> SUFFICES ASSUME NEW k \in Placed' \ {Company}, NEW m \in Placed' \ {Company},
                      tree'[k].parent = tree'[m].parent, tree'[k].leg = tree'[m].leg
               PROVE  k = m
    BY DEF SlotsOnce
  <2>1. \A m1 \in Placed : tree'[m1] = tree[m1] /\ ~(tree[m1].parent = p /\ tree[m1].leg = x)
    BY <1>2, <1>3, <1>7 DEF Child
  <2>2. CASE k = n \/ m = n
    BY <1>2, <2>1, <2>2
  <2>3. CASE k # n /\ m # n
    BY <1>2, <1>3, <2>1, <2>3 DEF SlotsOnce
  <2> QED
    BY <2>2, <2>3
<1>9. Born'
  <2>1. {Company} \cup Old \subseteq Placed'
    BY <1>2, <1>3 DEF Born
  <2>2. ASSUME NEW m \in New PROVE (m \in Placed' <=> place'[m].pc = "placed") /\ (m \notin Placed' => Blank(m)')
    <3>1. CASE m = n
      BY <1>2, <3>1
    <3>2. CASE m # n
      <4>1. (m \in Placed <=> place[m].pc = "placed") /\ (m \notin Placed => Blank(m)) /\ m \in Nodes
        BY <1>3 DEF Born, Nodes
      <4>2. m \notin Placed => \A y \in Legs : count'[m][y] = count[m][y]
        <5>1. Up(closure, p) \subseteq Placed
          BY <1>3, UpIn DEF Hung
        <5> QED
          BY <1>1, <4>1, <5>1, AttachCounts
      <4>3. m \notin Placed => Blank(m)'
        BY <1>4, <4>1, <4>2 DEF Blank
      <4> QED
        BY <1>2, <3>2, <4>1, <4>3
    <3> QED
      BY <3>1, <3>2
  <2> QED
    BY <2>1, <2>2 DEF Born
<1>10. PlacesKnow'
  <2> SUFFICES ASSUME NEW m \in New PROVE PlaceKnows(m)'
    BY DEF PlacesKnow
  <2>1. CASE m = n
    BY <1>2, <2>1 DEF PlaceKnows
  <2>2. CASE m # n
    <3>1. PICK b, y, s, side : b = place[m].parent /\ y = place[m].leg /\ s = place[m].sponsor /\ side = place[m].side
      OBVIOUS
    <3>2. PlaceKnows(m) /\ place'[m] = place[m] /\ (m \in overtaken' <=> m \in overtaken)
      BY <1>2, <1>3, <1>4, <2>2 DEF PlacesKnow
    <3>3. place[m].pc \in {"insert", "attach"} => b \in Placed /\ s \in Placed /\ y \in Legs
      BY <3>1, <3>2 DEF PlaceKnows
    <3>4. ASSUME place[m].pc \in {"insert", "attach"}, m \notin overtaken
          PROVE  Downhill(tree', closure', s, b, side)
      <4>1. Downhill(tree, closure, s, b, side)
        BY <3>1, <3>2, <3>4 DEF PlaceKnows
      <4>2. \A c \in Up(closure, b) : tree'[c] = tree[c]
        BY <1>2, <1>3, UpIn DEF Hung
      <4> QED
        BY <1>2, <3>3, <3>4, <4>1, <4>2 DEF Downhill
    <3>5. ASSUME place[m].pc = "attach" PROVE Child(b, y)' = {}
      <4>1. Child(b, y) = {} /\ ~(b = p /\ y = x)
        BY <1>1, <1>2, <1>3, <2>2, <3>1, <3>2, <3>5 DEF PlaceKnows
      <4> QED
        BY <1>6, <4>1
    <3>6. ASSUME place[m].pc = "attach", NEW k \in New, place'[k].pc = "attach", place'[k].parent = b, place'[k].leg = y
          PROVE  k = m
      <4>1. k # n
        BY <1>2, <3>6
      <4> QED
        BY <1>2, <3>1, <3>2, <3>6, <4>1 DEF PlaceKnows
    <3>7. ASSUME place[m].pc = "attach", m \notin overtaken PROVE place[m].path = Append(tree'[b].path, Label(y, m))
      <4>1. b \in Placed /\ tree'[b] = tree[b]
        BY <1>2, <1>3, <3>3, <3>7
      <4> QED
        BY <3>1, <3>2, <3>7, <4>1 DEF PlaceKnows
    <3>8. place[m].pc = "attach" => place[m].path # <<>>
      BY <3>2 DEF PlaceKnows
    <3>9. place[m].pc \in {"insert", "attach"} /\ m \notin overtaken => (side \in Legs => y = side)
      BY <3>1, <3>2 DEF PlaceKnows
    <3>10. /\ place[m].pc \in {"insert", "attach"} /\ m \notin overtaken =>
                Downhill(tree, closure, place[m].sponsor, place[m].parent, place[m].side)'
           /\ place[m].pc = "attach" => Child(place[m].parent, place[m].leg)' = {}
      BY <3>1, <3>2, <3>4, <3>5
    <3> HIDE DEF Placed, Child, Downhill
    <3> QED
      BY <1>2, <3>1, <3>2, <3>3, <3>6, <3>7, <3>8, <3>9, <3>10 DEF PlaceKnows
  <2> QED
    BY <2>1, <2>2
<1>11. MoveKnows'
  <2> SUFFICES ASSUME move # NoMove PROVE MoveKnows'
    BY <1>4 DEF MoveKnows, NoMove
  <2>1. PICK b, y, target : b = move.parent /\ y = move.leg /\ target = move.target
    OBVIOUS
  <2>2. /\ target \in Placed \ {Company} /\ move.sponsor \in Placed /\ b \in Placed /\ y \in Legs
        /\ target \notin Up(closure, b) /\ Child(b, y) \subseteq {target} /\ b \in move.rows
    BY <1>3, <2>1 DEF MoveKnows
  <2>3. b # p
    <3>1. p \in AtOrAbove(p)
      BY DEF AtOrAbove
    <3> QED
      BY <1>4, <2>2, <3>1
  <2>4. Child(b, y)' \subseteq {target} /\ target \notin Up(closure', b)
    BY <1>2, <1>6, <2>2, <2>3
  <2>5. Child(move.parent, move.leg)' \subseteq {target} /\ target \notin Up(closure, move.parent)'
    BY <1>4, <2>1, <2>4
  <2> HIDE DEF Placed, Child, Up
  <2> QED
    BY <1>2, <1>4, <2>1, <2>2, <2>5 DEF MoveKnows
<1>12. SponsorsAgree'
  <2> SUFFICES ASSUME NEW m \in Placed' \ {Company} PROVE tree'[m].sponsor = credited'[m]
    BY DEF SponsorsAgree
  <2>1. CASE m = n
    BY <1>2, <1>3, <1>4, <2>1 DEF NetShape
  <2>2. CASE m # n
    BY <1>2, <1>3, <1>4, <2>2 DEF NetShape, SponsorsAgree
  <2> QED
    BY <2>1, <2>2
<1>13. Hung(Placed, tree, closure)'
  BY <1>2
<1> QED
  BY <1>5, <1>8, <1>9, <1>10, <1>11, <1>12, <1>13, AttachExact DEF NetInv

\* The way from the sponsor to the new node.
LEMMA AttachSide ==
  ASSUME NetInv, NEW n \in New, NEW global \in BOOLEAN, Attach(n, global), n \notin overtaken
  PROVE  LET way == SubSeq(PathIn(tree', n), Len(PathIn(tree', place[n].sponsor)) + 1, Len(PathIn(tree', n)))
         IN /\ Real(place[n].sponsor, place[n].parent)
            /\ way # <<>>
            /\ place[n].side \in Legs => \A i \in DOMAIN way : way[i][1] = place[n].side
<1>0. Attached(n)
  BY AttachFacts
<1>1. PICK p, s, side, N, g, D, f, C : /\ p = place[n].parent /\ s = place[n].sponsor /\ side = place[n].side
                                       /\ N = Placed \cup {n} /\ g = tree' /\ D = closure' /\ f = tree /\ C = closure
  OBVIOUS
<1>2. /\ p \in Placed /\ s \in Placed /\ n \in Nodes \ Placed /\ Hung(N, g, D) /\ place[n].pc = "attach"
      /\ Up(D, n) = Up(C, p) \cup {n} /\ \A m \in Placed : Up(D, m) = Up(C, m)
      /\ g[n].leg = place[n].leg /\ \A m \in Nodes \ {n} : g[m] = f[m]
  BY <1>1, <1>0 DEF Attached
<1>3. /\ Hung(Placed, f, C) /\ N \subseteq Nodes /\ Up(C, p) \subseteq Nodes \ {n}
      /\ Downhill(f, C, s, p, side) /\ (side \in Legs => place[n].leg = side)
  <2>1. PlaceKnows(n) /\ Hung(Placed, tree, closure) /\ Placed \subseteq Nodes
    BY PlacedAre DEF NetInv, PlacesKnow
  <2>2. Up(C, p) \subseteq Placed
    BY <1>1, <2>1, UpIn DEF Hung
  <2> QED
    BY <1>1, <1>2, <2>1, <2>2 DEF PlaceKnows
<1>4. s \in Up(C, p) /\ (side \in Legs => \A c \in Up(C, p) \ Up(C, s) : f[c].leg = side)
  BY <1>3 DEF Downhill
<1>5. Real(s, p)
  BY <1>1, <1>2, <1>3, <1>4, RealAbove
<1> DEFINE r == [m \in Nodes |-> PathIn(g, m)]
<1>6. Paths(N, g, r)
  BY <1>2, HungRooted, PathMeaning
<1>7. r[n] = PathIn(tree', n) /\ r[s] = PathIn(tree', s)
  BY <1>1, <1>2, <1>3
<1> HIDE DEF r
<1>8. Stands(N, g, r, n) /\ Stands(N, g, r, s) /\ Up(D, n) = IdsOf(r[n]) /\ Up(D, s) = IdsOf(r[s])
  BY <1>1, <1>2, <1>6, HungRooted, AllStand, UpIsPath
<1>9. PICK h, k, l : h = r[n] /\ k = Len(r[s]) /\ l = Len(h)
  OBVIOUS
<1>10. h \in Seq(Labels) /\ k \in Nat /\ k >= 1 /\ l \in Nat /\ l > k /\ DOMAIN h = 1..l /\ DOMAIN r[s] = 1..k
  <2>1. n \in N /\ s \in Up(D, n) /\ s # n
    BY <1>1, <1>2, <1>4
  <2>2. Len(r[n]) > Len(r[s])
    BY <1>2, <1>6, <2>1, LegOfPath
  <2> QED
    BY <1>8, <1>9, <2>2, LenProperties DEF Stands
<1>11. PICK way : way = SubSeq(h, k + 1, l)
  OBVIOUS
<1>12. Len(way) = l - k /\ DOMAIN way = 1..(l - k) /\ \A i \in 1..(l - k) : way[i] = h[k + i]
  <2>1. k + 1 \in 1..(l + 1) /\ l \in k..l /\ l - (k + 1) + 1 = l - k
    BY <1>10
  <2>2. Len(way) = l - k /\ way \in Seq(Labels) /\ \A i \in 1..(l - k) : way[i] = h[(k + 1) + i - 1]
    <3>1. PICK a : a = k + 1
      OBVIOUS
    <3>2. a \in Int /\ l \in Int /\ a <= l /\ \A i \in a..l : h[i] \in Labels
      BY <1>9, <1>10, <3>1
    <3>3. /\ SubSeq(h, a, l) \in Seq(Labels)
          /\ Len(SubSeq(h, a, l)) = IF a <= l THEN l - a + 1 ELSE 0
          /\ \A i \in 1..(l - a + 1) : SubSeq(h, a, l)[i] = h[a + i - 1]
      BY <3>2, SubSeqProperties
    <3>4. l - a + 1 = l - k
      BY <1>10, <3>1
    <3>5. way = SubSeq(h, a, l)
      BY <1>11, <3>1
    <3> QED
      BY <3>1, <3>2, <3>3, <3>4, <3>5
  <2>3. \A i \in 1..(l - k) : (k + 1) + i - 1 = k + i
    BY <1>10
  <2> QED
    BY <2>2, <2>3, LenProperties
<1>13. ASSUME side \in Legs, NEW i \in 1..(l - k) PROVE way[i][1] = side
  <2>1. PICK j : j = k + i
    OBVIOUS
  <2>2. j \in 1..l /\ j > 1 /\ j > k
    BY <1>10, <1>13, <2>1
  <2>3. PICK c : c = h[j][2]
    OBVIOUS
  <2>4. /\ c \in N /\ Len(r[c]) = j /\ h[j][1] = g[c].leg /\ c \in IdsOf(h)
    <3>1. c \in IdsOf(h)
      BY <1>10, <2>2, <2>3 DEF IdsOf
    <3> QED
      BY <1>8, <1>9, <2>2, <2>3, <3>1 DEF Stands
  <2>5. c \notin Up(D, s)
    <3>1. SUFFICES ASSUME NEW e \in 1..k, r[s][e][2] = c PROVE FALSE
      BY <1>8, <1>10 DEF IdsOf
    <3>2. Len(r[c]) = e
      BY <1>8, <1>9, <3>1 DEF Stands
    <3> QED
      BY <1>10, <2>2, <2>4, <3>1, <3>2
  <2>6. g[c].leg = side
    <3>1. CASE c = n
      BY <1>2, <1>3, <1>13, <3>1
    <3>2. CASE c # n
      BY <1>2, <1>3, <1>4, <1>8, <1>9, <1>13, <2>4, <2>5, <3>2
    <3> QED
      BY <3>1, <3>2
  <2> QED
    BY <1>12, <1>13, <2>1, <2>4, <2>6
<1>14. way # <<>>
  BY <1>10, <1>12
<1>15. way = SubSeq(PathIn(tree', n), Len(PathIn(tree', place[n].sponsor)) + 1, Len(PathIn(tree', n)))
  BY <1>1, <1>7, <1>9, <1>11
<1>16. side \in Legs => \A i \in DOMAIN way : way[i][1] = side
  BY <1>12, <1>13
<1> QED
  BY <1>1, <1>5, <1>14, <1>15, <1>16

\* Only the end of a placement puts a buyer in the tree.
LEMMA OnlyAttach ==
  ASSUME NetInv, [NetNext]_netVars, NEW n \in New, place[n].pc = "attach", place'[n].pc = "placed"
  PROVE  \E global \in BOOLEAN : Attach(n, global)
<1>1. place \in [New -> PlaceRows]
  BY DEF NetInv, NetShape
<1>2. place' # place
  OBVIOUS
<1>3. \E m \in New : \/ \E s \in Sponsors, side \in Sides : Walk(m, s, side)
                     \/ Insert(m) \/ PlaceFails(m) \/ \E global \in BOOLEAN : Attach(m, global)
  <2>1. ~(\E m \in Nodes : Sale(m)) /\ ~MoveCommit /\ ~MoveEnds
    BY <1>2 DEF Sale, MoveCommit, MoveEnds
  <2>2. \A target, sponsor, to : ~MoveLock(target, sponsor, to)
    BY <1>2 DEF MoveLock
  <2>3. NetNext
    BY <1>2 DEF netVars
  <2> HIDE DEF Sale, MoveCommit, MoveEnds, MoveLock, Walk, Insert, PlaceFails, Attach
  <2> QED
    BY <2>1, <2>2, <2>3, Zenon DEF NetNext
<1>4. PICK m \in New : \/ \E s \in Sponsors, side \in Sides : Walk(m, s, side)
                       \/ Insert(m) \/ PlaceFails(m) \/ \E global \in BOOLEAN : Attach(m, global)
  BY <1>3
<1>5. m = n
  <2>1. \E row : place' = [place EXCEPT ![m] = row]
    <3>1. CASE \E s \in Sponsors, side \in Sides : Walk(m, s, side)
      BY <3>1 DEF Walk
    <3>2. CASE Insert(m)
      BY <3>2 DEF Insert
    <3>3. CASE PlaceFails(m)
      BY <3>3 DEF PlaceFails
    <3>4. CASE \E global \in BOOLEAN : Attach(m, global)
      <4>1. place' = [place EXCEPT ![m].pc = "placed"]
        BY <3>4 DEF Attach
      <4>2. place' = [place EXCEPT ![m] = [place[m] EXCEPT !.pc = "placed"]]
        BY <1>1, <4>1
      <4> QED
        BY <4>2
    <3> QED
      BY <1>4, <3>1, <3>2, <3>3, <3>4
  <2> QED
    BY <1>1, <2>1
<1>6. ~Insert(n) /\ ~PlaceFails(n) /\ \A s \in Sponsors, side \in Sides : ~Walk(n, s, side)
  <2>1. ~Insert(n) /\ \A s \in Sponsors, side \in Sides : ~Walk(n, s, side)
    BY DEF Insert, Walk
  <2>2. PlaceFails(n) => place'[n] = NoPlace
    BY <1>1 DEF PlaceFails
  <2> QED
    BY <2>1, <2>2, NoRows
<1> QED
  BY <1>4, <1>5, <1>6

-----------------------------------------------------------------------------
(* Relocations that commit.                                                *)

\* The closure C with the nodes of the set moved below p, each at its depth.
Grafted(C, moved, p, depth) ==
  {t \in C : t[2] \in moved => t[1] \in moved}
    \cup UNION {{<<t[1], m, t[3] + 1 + depth[m]>> : t \in {t \in C : t[2] = p}} : m \in moved}

GraftedRow(C, moved, p, depth, u) ==
  \/ u \in C /\ (u[2] \in moved => u[1] \in moved)
  \/ \E m \in moved : \E t \in C : t[2] = p /\ u = <<t[1], m, t[3] + 1 + depth[m]>>

LEMMA GraftedRows ==
  ASSUME NEW C, NEW moved, NEW p, NEW depth, NEW u
  PROVE  u \in Grafted(C, moved, p, depth) <=> GraftedRow(C, moved, p, depth, u)
  BY DEF Grafted, GraftedRow

\* The nodes from x down, each at its depth below x.
Branch(N, C, x, moved, depth) ==
  /\ moved \subseteq N /\ \A m \in N : m \in moved <=> x \in Up(C, m)
  /\ \A m \in moved : depth[m] \in Nat

LEMMA GraftedMeans ==
  ASSUME NEW N, NEW f, NEW C, Hung(N, f, C), NEW x \in N \ {Company}, NEW p \in N, x \notin Up(C, p),
         NEW moved, NEW depth, Branch(N, C, x, moved, depth),
         NEW D, D = Grafted(C, moved, p, depth)
  PROVE  /\ Rows(N, D)
         /\ \A m \in N : Up(D, m) = UpMoved(C, x, p, m)
<1> USE DEF UpMoved
<1>0. /\ moved \subseteq N /\ \A m \in N : m \in moved <=> x \in Up(C, m)
      /\ \A m \in moved : depth[m] \in Nat
  BY DEF Branch
<1> USE <1>0
<1>1. \A t \in C : t = <<t[1], t[2], t[3]>> /\ t[1] \in N /\ t[2] \in N /\ t[3] \in Nat /\ (t[3] = 0 <=> t[1] = t[2])
  BY DEF Hung, Rows
<1>2. \A u : u \in D <=> GraftedRow(C, moved, p, depth, u)
  BY GraftedRows
<1>3. Up(C, p) \subseteq N /\ \A a \in Up(C, p) : a \notin moved
  BY UpFacts
<1>4. ASSUME NEW u \in D
      PROVE  u = <<u[1], u[2], u[3]>> /\ u[1] \in N /\ u[2] \in N /\ u[3] \in Nat /\ (u[3] = 0 <=> u[1] = u[2])
  <2>1. CASE u \in C
    BY <1>1, <2>1
  <2>2. CASE \E m \in moved : \E t \in C : t[2] = p /\ u = <<t[1], m, t[3] + 1 + depth[m]>>
    <3>1. PICK m \in moved, t \in C : t[2] = p /\ u = <<t[1], m, t[3] + 1 + depth[m]>>
      BY <2>2
    <3>2. PICK a, k : a = t[1] /\ k = t[3] + 1 + depth[m]
      OBVIOUS
    <3>3. a \in N /\ a \in Up(C, p) /\ k \in Nat /\ k # 0
      <4>1. t[3] \in Nat /\ depth[m] \in Nat
        BY <1>1, <3>1
      <4>2. k \in Nat /\ k # 0
        BY <3>2, <4>1
      <4>3. a \in Up(C, p)
        BY <3>1, <3>2 DEF Up
      <4> QED
        BY <1>1, <3>1, <3>2, <4>2, <4>3
    <3>4. u = <<a, m, k>> /\ m \in N /\ a # m
      BY <1>3, <3>1, <3>2, <3>3
    <3>5. u[1] = a /\ u[2] = m /\ u[3] = k
      BY <3>4
    <3> QED
      BY <3>3, <3>4, <3>5
  <2> QED
    BY <1>2, <2>1, <2>2 DEF GraftedRow
<1>5. Rows(N, D)
  BY <1>4 DEF Rows
<1>6. ASSUME NEW m \in N
      PROVE  Up(D, m) = UpMoved(C, x, p, m)
  <2>1. ASSUME NEW a \in Up(D, m)
        PROVE  IF x \in Up(C, m) THEN a \in Up(C, p) \/ (a \in Up(C, m) /\ x \in Up(C, a)) ELSE a \in Up(C, m)
    <3>1. PICK u \in D : u[1] = a /\ u[2] = m
      BY DEF Up
    <3>2. CASE u \in C /\ (u[2] \in moved => u[1] \in moved)
      <4>1. a \in Up(C, m)
        BY <3>1, <3>2 DEF Up
      <4>2. m \in moved => a \in moved
        BY <3>1, <3>2
      <4> QED
        BY <4>1, <4>2
    <3>3. CASE \E k \in moved : \E t \in C : t[2] = p /\ u = <<t[1], k, t[3] + 1 + depth[k]>>
      <4>1. PICK k \in moved, t \in C : t[2] = p /\ u = <<t[1], k, t[3] + 1 + depth[k]>>
        BY <3>3
      <4>2. k = m /\ t[1] = a
        BY <3>1, <4>1
      <4>3. a \in Up(C, p)
        BY <4>1, <4>2 DEF Up
      <4> QED
        BY <4>1, <4>2, <4>3
    <3> QED
      BY <1>2, <3>2, <3>3 DEF GraftedRow
  <2>2. ASSUME NEW a \in Up(C, m), x \in Up(C, m) => x \in Up(C, a) PROVE a \in Up(D, m)
    <3>1. PICK u \in C : u[1] = a /\ u[2] = m
      BY DEF Up
    <3>2. u[2] \in moved => u[1] \in moved
      BY <1>1, <2>2, <3>1
    <3>3. u \in D
      BY <1>2, <3>2 DEF GraftedRow
    <3> QED
      BY <3>1, <3>3 DEF Up
  <2>3. ASSUME NEW a \in Up(C, p), x \in Up(C, m) PROVE a \in Up(D, m)
    <3>1. PICK t \in C : t[1] = a /\ t[2] = p
      BY DEF Up
    <3>2. m \in moved
      BY <2>3
    <3>3. PICK u : u = <<t[1], m, t[3] + 1 + depth[m]>>
      OBVIOUS
    <3>4. u[1] = a /\ u[2] = m
      BY <3>1, <3>3
    <3>5. u \in D
      BY <1>2, <3>1, <3>2, <3>3 DEF GraftedRow
    <3> QED
      BY <3>4, <3>5 DEF Up
  <2> HIDE DEF Up
  <2> QED
    BY <2>1, <2>2, <2>3
<1> QED
  BY <1>5, <1>6

\* An ancestor that is above neither the old place nor the new one keeps its legs.
LEMMA LegsElsewhere ==
  ASSUME NEW N, NEW f, NEW C, Hung(N, f, C), NEW x \in N \ {Company}, NEW p \in N, x \notin Up(C, p), NEW g, NEW D,
         \A m \in N \ {x} : g[m].parent = f[m].parent /\ g[m].leg = f[m].leg, g[x].parent = p,
         \A m \in N : Up(D, m) = UpMoved(C, x, p, m),
         NEW a, a \notin Up(C, x) \ {x}, a \notin Up(C, p), NEW y
  PROVE  Leg(N, g, D, a, y) = Leg(N, f, C, a, y)
<1> USE DEF UpMoved
<1>1. \A m \in N : Up(C, m) \subseteq N /\ m \in Up(C, m)
  BY UpFacts
<1>2. f[x].parent \in Up(C, x) /\ f[x].parent # x /\ p \in Up(C, p)
  <2>1. f[x].parent \in N /\ x \notin Up(C, f[x].parent) /\ Up(C, x) = Up(C, f[x].parent) \cup {x}
    BY DEF Hung
  <2> QED
    BY <1>1, <2>1
<1>3. \A m \in N : \A c \in Up(C, m) : c # Company => f[c].parent \in Up(C, m) /\ f[c].parent \in Up(C, c)
  <2> SUFFICES ASSUME NEW m \in N, NEW c \in Up(C, m), c # Company
               PROVE  f[c].parent \in Up(C, m) /\ f[c].parent \in Up(C, c)
    OBVIOUS
  <2>1. c \in N /\ c \in Up(C, c)
    BY <1>1
  <2> QED
    BY <2>1, UpFacts
<1>4. ASSUME NEW d \in Leg(N, f, C, a, y) PROVE d \in Leg(N, g, D, a, y)
  <2>1. PICK c \in Up(C, d) \ {Company} : d \in N /\ f[c].parent = a /\ f[c].leg = y
    BY DEF Leg
  <2>2. c # x
    BY <1>2, <2>1
  <2>3. g[c].parent = a /\ g[c].leg = y
    BY <1>1, <2>1, <2>2
  <2>4. c \in Up(D, d)
    <3>1. CASE x \in Up(C, d)
      <4>1. x \in Up(C, c) \/ c \in Up(C, x)
        BY <2>1, <3>1, UpFacts
      <4>2. c \notin Up(C, x)
        <5>1. SUFFICES ASSUME c \in Up(C, x) PROVE FALSE
          OBVIOUS
        <5>2. a \in Up(C, x)
          BY <1>3, <2>1, <5>1
        <5>3. a = x
          BY <5>2
        <5>4. c \in N /\ x \in Up(C, c)
          BY <1>1, <1>3, <2>1, <5>3
        <5> QED
          BY <2>2, <5>1, <5>4, UpFacts
      <4> QED
        BY <2>1, <3>1, <4>1, <4>2
    <3>2. CASE x \notin Up(C, d)
      BY <2>1, <3>2
    <3> QED
      BY <3>1, <3>2
  <2> QED
    BY <2>1, <2>3, <2>4 DEF Leg
<1>5. ASSUME NEW d \in Leg(N, g, D, a, y) PROVE d \in Leg(N, f, C, a, y)
  <2>1. PICK c \in Up(D, d) \ {Company} : d \in N /\ g[c].parent = a /\ g[c].leg = y
    BY DEF Leg
  <2>2. c # x
    BY <1>2, <2>1
  <2>3. c \in Up(C, d) \/ c \in Up(C, p)
    BY <2>1
  <2>4. c \in N
    BY <1>1, <2>1, <2>3
  <2>5. f[c].parent = a /\ f[c].leg = y
    BY <2>1, <2>2, <2>4
  <2>6. c \notin Up(C, p)
    BY <1>3, <2>1, <2>5
  <2> QED
    BY <2>1, <2>3, <2>5, <2>6 DEF Leg
<1> QED
  BY <1>4, <1>5

\* The path of a moved node that hangs below the root of its subtree.
LEMMA AfterTyped ==
  ASSUME NEW h \in Seq(Labels), NEW s \in Seq(Labels), NEW k \in Nat, k <= Len(s), h # <<>>
  PROVE  After(h, s, k) \in Seq(Labels) /\ After(h, s, k) # <<>>
<1>1. PICK e : e = Label("", Company)
  OBVIOUS
<1>2. e \in Labels
  BY <1>1 DEF Label, Labels, Nodes
<1>3. k \in 0..Len(s) /\ Len(s) \in Nat /\ Len(h) \in Nat /\ Len(h) # 0
  BY LenProperties
<1>4. After(h, s, k) \in Seq(Labels) /\ Len(After(h, s, k)) = Len(h) + (Len(s) - k)
  BY <1>2, <1>3, TailAppend
<1>5. Len(After(h, s, k)) # 0
  <2>1. PICK a, b, c : a = Len(h) /\ b = Len(s) /\ c = Len(After(h, s, k))
    OBVIOUS
  <2>2. a \in Nat /\ a # 0 /\ b \in Nat /\ k <= b /\ c = a + (b - k)
    BY <1>3, <1>4, <2>1
  <2>3. c # 0
    BY <2>2
  <2> QED
    BY <2>1, <2>3
<1> QED
  BY <1>4, <1>5

Depths(f, x) == [m \in Nodes |-> Len(f[m].path) - Len(f[x].path)]

\* What a relocation makes of tree and closure.
Relocated(x, p, moved, root) ==
  /\ x \in Placed \ {Company} /\ p \in Placed /\ move.leg \in Legs /\ move.sponsor \in Placed
  /\ x \notin Up(closure, p) /\ Child(p, move.leg) \subseteq {x}
  /\ x \in moved /\ \A m : m \in moved <=> m \in Placed /\ x \in Up(closure, m)
  /\ tree' \in [Nodes -> SlotRows]
  /\ tree'[x].parent = p /\ tree'[x].leg = move.leg /\ tree'[x].sponsor = move.sponsor /\ tree'[x].path = root
  /\ \A m \in Nodes \ {x} : /\ tree'[m].parent = tree[m].parent /\ tree'[m].leg = tree[m].leg
                            /\ tree'[m].sponsor = tree[m].sponsor
  /\ \A m \in Nodes \ moved : tree'[m] = tree[m]
  /\ \A m \in moved \ {x} : tree'[m].path = After(root, tree[m].path, Len(tree[x].path))
  /\ Placed' = Placed /\ Hung(Placed, tree', closure')
  /\ \A m \in Placed : Up(closure', m) = UpMoved(closure, x, p, m)
  /\ closure' = Grafted(closure, moved, p, Depths(tree, x))

LEMMA MoveFacts ==
  ASSUME NetInv, MoveCommit, Restructures, NEW x, x = move.target, NEW p, p = move.parent,
         NEW moved, moved = SubtreeOf(x), NEW root, root = Append(tree[p].path, Label(move.leg, x))
  PROVE  Relocated(x, p, moved, root)
<1>1. PICK y, s : y = move.leg /\ s = move.sponsor
  OBVIOUS
<1>2. root = Append(tree[p].path, Label(y, x))
  BY <1>1
<1>3. NetShape /\ Hung(Placed, tree, closure) /\ Placed \subseteq Nodes
  BY PlacedAre DEF NetInv
<1>4. /\ x \in Placed \ {Company} /\ p \in Placed /\ y \in Legs /\ s \in Placed
      /\ x \notin Up(closure, p) /\ Child(p, y) \subseteq {x}
  BY <1>1 DEF NetInv, MoveKnows, MoveCommit
<1>5. x \in moved /\ \A m : m \in moved <=> m \in Placed /\ x \in Up(closure, m)
  BY <1>2, <1>3, <1>4, NetAbove, UpFacts
<1> DEFINE T(n) == IF n \notin moved THEN tree[n]
                   ELSE IF n = x THEN [parent |-> p, leg |-> y, sponsor |-> s, path |-> root]
                   ELSE [tree[n] EXCEPT !.path = NewPath(n, root)]
<1>6. /\ tree' = [n \in Nodes |-> T(n)]
      /\ \A m \in moved \ {x} : Reaches(tree[m].path, x)
      /\ closure' = NewClosure(moved)
  BY <1>1, <1>2 DEF MoveCommit
<1>7. root \in Seq(Labels) /\ root # <<>>
  <2>1. PICK t, e : t = tree[p].path /\ e = Label(y, x)
    OBVIOUS
  <2>2. t \in Seq(Labels) /\ e \in Labels
    <3>1. tree[p] \in SlotRows
      BY <1>3, <1>4 DEF NetShape
    <3> QED
      BY <1>3, <1>4, <2>1, <3>1 DEF SlotRows, Label, Labels
  <2>3. root = Append(t, e)
    BY <1>2, <2>1
  <2> QED
    BY <2>2, <2>3
<1>8. \A m \in Nodes : tree[m].path \in Seq(Labels) /\ Len(tree[m].path) \in Nat
  <2>1. \A m \in Nodes : tree[m].path \in Seq(Labels)
    BY <1>3 DEF NetShape, SlotRows
  <2> QED
    BY <2>1, LenProperties
<1>9. \A m \in Nodes \ moved : T(m) = tree[m]
  OBVIOUS
<1>10. T(x) \in SlotRows /\ T(x).parent = p /\ T(x).leg = y /\ T(x).sponsor = s /\ T(x).path = root
  <2>1. PICK row : row = [parent |-> p, leg |-> y, sponsor |-> s, path |-> root]
    OBVIOUS
  <2>2. T(x) = row
    BY <1>5, <2>1
  <2> HIDE DEF T
  <2>3. row \in SlotRows /\ row.parent = p /\ row.leg = y /\ row.sponsor = s /\ row.path = root
    BY <1>3, <1>4, <1>7, <2>1, IsSlotRow
  <2> QED
    BY <2>2, <2>3
<1>11. ASSUME NEW m \in moved, m # x
       PROVE  /\ T(m) \in SlotRows /\ T(m).parent = tree[m].parent /\ T(m).leg = tree[m].leg
              /\ T(m).sponsor = tree[m].sponsor /\ T(m).path = After(root, tree[m].path, Len(tree[x].path))
              /\ T(m).path # <<>>
  <2>1. PICK k, t : k = Len(tree[x].path) /\ t = tree[m].path
    OBVIOUS
  <2>2. m \in Nodes /\ k \in Nat /\ t \in Seq(Labels) /\ k <= Len(t)
    <3>1. m \in Nodes /\ x \in Nodes
      BY <1>3, <1>4, <1>5
    <3>2. Len(t) > k /\ Len(t) \in Nat /\ k \in Nat
      BY <1>6, <1>8, <1>11, <2>1, <3>1 DEF Reaches
    <3> QED
      BY <1>8, <2>1, <3>1, <3>2
  <2>3. PICK q : q = NewPath(m, root)
    OBVIOUS
  <2>4. q = After(root, t, k)
    BY <1>1, <2>1, <2>3 DEF NewPath, After
  <2>5. q \in Seq(Labels) /\ q # <<>>
    BY <1>7, <2>2, <2>4, AfterTyped
  <2>6. T(m) = [tree[m] EXCEPT !.path = q]
    BY <1>11, <2>3
  <2> HIDE DEF T
  <2>7. tree[m] \in SlotRows
    BY <1>3, <2>2 DEF NetShape
  <2>8. /\ T(m) \in SlotRows /\ T(m).parent = tree[m].parent /\ T(m).leg = tree[m].leg
        /\ T(m).sponsor = tree[m].sponsor /\ T(m).path = q
    BY <2>5, <2>6, <2>7 DEF SlotRows
  <2> QED
    BY <2>1, <2>4, <2>5, <2>8
<1> HIDE DEF T
<1>12. \A m \in Nodes : T(m) \in SlotRows
  <2> SUFFICES ASSUME NEW m \in Nodes PROVE T(m) \in SlotRows
    OBVIOUS
  <2>1. tree[m] \in SlotRows
    BY <1>3 DEF NetShape
  <2>2. CASE m \notin moved
    BY <1>9, <2>1, <2>2
  <2>3. CASE m = x
    BY <1>10, <2>3
  <2>4. CASE m \in moved /\ m # x
    BY <1>11, <2>4
  <2> QED
    BY <2>2, <2>3, <2>4
<1>13. PICK g, D : g = tree' /\ D = closure'
  OBVIOUS
<1>14. g \in [Nodes -> SlotRows] /\ \A m \in Nodes : g[m] = T(m)
  BY <1>6, <1>12, <1>13
<1>15. /\ g[x].parent = p /\ g[x].leg = y /\ g[x].sponsor = s /\ g[x].path = root
       /\ \A m \in Nodes \ {x} : /\ g[m].parent = tree[m].parent /\ g[m].leg = tree[m].leg
                                 /\ g[m].sponsor = tree[m].sponsor
       /\ \A m \in Nodes \ moved : g[m] = tree[m]
       /\ \A m \in moved \ {x} : g[m].path = After(root, tree[m].path, Len(tree[x].path)) /\ g[m].path # <<>>
  <2>1. x \in Nodes /\ moved \subseteq Nodes
    BY <1>3, <1>4, <1>5
  <2> QED
    BY <1>9, <1>10, <1>11, <1>14, <2>1
<1>16. Placed' = Placed
  <2>1. \A m \in moved : m \in Placed /\ g[m].path # <<>>
    BY <1>5, <1>7, <1>15
  <2>2. \A m \in Nodes \ moved : g[m] = tree[m]
    BY <1>15
  <2> QED
    BY <1>13, <2>1, <2>2 DEF Placed
<1>17. PICK depth : depth = Depths(tree, x)
  OBVIOUS
<1>18. D = Grafted(closure, moved, p, depth)
  <2>1. \A m \in moved : depth[m] = Len(tree[m].path) - Len(tree[x].path)
    BY <1>3, <1>5, <1>17 DEF Depths
  <2> DEFINE Old1 == {t \in closure : t[2] \in moved => t[1] \in moved}
             Row(u, m, k) == <<u[1], m, u[3] + 1 + k>>
             In(m) == {Row(u, m, depth[m]) : u \in {t \in closure : t[2] = p}}
             Put(m) == {Row(u, m, Len(tree[m].path) - Len(tree[x].path)) : u \in {t \in closure : t[2] = p}}
  <2>2. Grafted(closure, moved, p, depth) = Old1 \cup UNION {In(m) : m \in moved}
    BY DEF Grafted
  <2>3. D = Old1 \cup UNION {Put(m) : m \in moved}
    BY <1>1, <1>6, <1>13 DEF NewClosure, Kept
  <2>4. \A m \in moved : Put(m) = In(m)
    BY <2>1
  <2> HIDE DEF Old1, In, Put, Row
  <2>5. {Put(m) : m \in moved} = {In(m) : m \in moved}
    BY <2>4
  <2> QED
    BY <2>2, <2>3, <2>5
<1>19. \A m \in moved : depth[m] \in Nat
  <2> SUFFICES ASSUME NEW m \in moved PROVE depth[m] \in Nat
    OBVIOUS
  <2>1. m \in Nodes /\ x \in Nodes
    BY <1>3, <1>4, <1>5
  <2>2. PICK a, b : a = Len(tree[m].path) /\ b = Len(tree[x].path)
    OBVIOUS
  <2>3. a \in Nat /\ b \in Nat /\ (m # x => a > b) /\ depth[m] = a - b
    BY <1>6, <1>8, <1>17, <2>1, <2>2 DEF Reaches, Depths
  <2>4. a >= b
    BY <2>2, <2>3
  <2>5. a - b \in Nat
    BY <2>3, <2>4
  <2> QED
    BY <2>3, <2>5
<1>20. /\ Rows(Placed, D)
       /\ \A m \in Placed : Up(D, m) = UpMoved(closure, x, p, m)
  <2>1. PICK N, f, C : N = Placed /\ f = tree /\ C = closure
    OBVIOUS
  <2>2. /\ Hung(N, f, C) /\ x \in N \ {Company} /\ p \in N /\ x \notin Up(C, p)
        /\ D = Grafted(C, moved, p, depth)
    BY <1>3, <1>4, <1>18, <2>1
  <2>3. Branch(N, C, x, moved, depth)
    BY <1>5, <1>19, <2>1 DEF Branch
  <2>4. /\ Rows(N, D)
        /\ \A m \in N : Up(D, m) = UpMoved(C, x, p, m)
    BY <2>2, <2>3, GraftedMeans
  <2> QED
    BY <2>1, <2>4
<1>21. Hung(Placed, g, D)
  <2>1. /\ \A m \in Placed \ {x} : g[m].parent = tree[m].parent /\ g[m].leg = tree[m].leg
        /\ g[x].parent = p /\ g[x].leg \in Legs
    BY <1>3, <1>4, <1>15
  <2> QED
    BY <1>3, <1>4, <1>20, <2>1, MovedHung
<1>22. closure' = Grafted(closure, moved, p, Depths(tree, x))
  BY <1>13, <1>17, <1>18
<1>23. /\ tree' \in [Nodes -> SlotRows]
       /\ tree'[x].parent = p /\ tree'[x].leg = y /\ tree'[x].sponsor = s /\ tree'[x].path = root
       /\ \A m \in Nodes \ {x} : /\ tree'[m].parent = tree[m].parent /\ tree'[m].leg = tree[m].leg
                                 /\ tree'[m].sponsor = tree[m].sponsor
       /\ \A m \in Nodes \ moved : tree'[m] = tree[m]
       /\ \A m \in moved \ {x} : tree'[m].path = After(root, tree[m].path, Len(tree[x].path))
       /\ Hung(Placed, tree', closure')
       /\ \A m \in Placed : Up(closure', m) = UpMoved(closure, x, p, m)
  BY <1>13, <1>14, <1>15, <1>20, <1>21
<1> QED
  BY <1>1, <1>2, <1>4, <1>5, <1>16, <1>22, <1>23 DEF Relocated

\* The nodes whose path and closure put them under leg y of a.
PathLeg(t, C, a, y) ==
  LET below == {r[2] : r \in {r \in C : r[1] = a /\ r[3] > 0}}
  IN {d \in below : Len(t[d].path) > Len(t[a].path) /\ t[d].path[Len(t[a].path) + 1][1] = y}

LEMMA PathLegIs ==
  ASSUME NEW N, NEW f, NEW C, Rows(N, C), NEW a, NEW y
  PROVE  \A d : d \in PathLeg(f, C, a, y) <=>
           /\ a \in Up(C, d) /\ a # d
           /\ Len(f[d].path) > Len(f[a].path) /\ f[d].path[Len(f[a].path) + 1][1] = y
<1>1. \A t \in C : t[3] \in Nat /\ (t[3] = 0 <=> t[1] = t[2])
  BY DEF Rows
<1>2. \A d : d \in {r[2] : r \in {r \in C : r[1] = a /\ r[3] > 0}} <=> a \in Up(C, d) /\ a # d
  BY <1>1 DEF Up
<1> HIDE DEF Up
<1> QED
  BY <1>2 DEF PathLeg

\* What paths and closure say is what the tree says, when the paths are those of the tree.
LEMMA PathLegMeaning ==
  ASSUME NEW N, NEW f, NEW C, Hung(N, f, C), Paths(N, f, PathsOf(f)), NEW a, NEW y
  PROVE  PathLeg(f, C, a, y) = Leg(N, f, C, a, y)
<1>1. PICK r : r = PathsOf(f)
  OBVIOUS
<1>2. /\ Paths(N, f, r) /\ Rows(N, C) /\ N \subseteq Nodes
      /\ \A d \in N : r[d] = f[d].path
  BY <1>1 DEF Hung, PathsOf
<1>3. \A d, b : b \in Up(C, d) => b \in N /\ d \in N
  BY <1>2 DEF Rows, Up
<1>4. ASSUME NEW d, a \in Up(C, d), a # d
      PROVE  /\ Len(f[d].path) > Len(f[a].path)
             /\ f[d].path[Len(f[a].path) + 1][1] = y <=> d \in Leg(N, f, C, a, y)
  <2>1. a \in N /\ d \in N
    BY <1>3, <1>4
  <2>2. /\ Len(r[d]) > Len(r[a])
        /\ r[d][Len(r[a]) + 1][1] = y <=> d \in Leg(N, f, C, a, y)
    BY <1>2, <1>4, <2>1, LegOfPath
  <2> QED
    BY <1>2, <2>1, <2>2
<1>5. \A d \in Leg(N, f, C, a, y) : a \in Up(C, d) /\ a # d
  BY LegIn
<1>6. \A d : d \in PathLeg(f, C, a, y) <=>
           /\ a \in Up(C, d) /\ a # d
           /\ Len(f[d].path) > Len(f[a].path) /\ f[d].path[Len(f[a].path) + 1][1] = y
  BY <1>2, PathLegIs
<1>7. \A d : d \in PathLeg(f, C, a, y) <=> d \in Leg(N, f, C, a, y)
  BY <1>4, <1>5, <1>6
<1> QED
  BY <1>7

LEMMA RegroupedElsewhere ==
  ASSUME NEW f, NEW k, NEW h, NEW q, NEW a \in Nodes, NEW y \in Legs, f[a][y] \in Nat,
         a \notin AncestorsOf(move.target), a \notin AtOrAbove(move.parent)
  PROVE  Regrouped(f, k, h, q)[a][y] = f[a][y]
<1> DEFINE On(S, path, x) == {b \in S : LegUnder(path, b) = x}
           old == AncestorsOf(move.target)
           new == AtOrAbove(move.parent)
           m == Minus(f, On(old, h, "L"), On(old, h, "R"), k)
<1>1. Regrouped(f, k, h, q) = Plus(m, On(new, q, "L"), On(new, q, "R"), k)
  BY DEF Regrouped
<1>2. m[a][y] = f[a][y]
  BY DEF Minus
<1>3. a \notin (IF y = "L" THEN On(new, q, "L") ELSE On(new, q, "R"))
  OBVIOUS
<1> HIDE DEF m, On, old, new
<1>4. Regrouped(f, k, h, q)[a][y] = m[a][y] + 0
  BY <1>1, <1>3, PlusAt
<1> QED
  BY <1>2, <1>4

LEMMA RegroupedTyped ==
  ASSUME NEW f, NEW k, NEW h, NEW q, \A a \in Nodes, y \in Legs : Regrouped(f, k, h, q)[a][y] \in Nat
  PROVE  Regrouped(f, k, h, q) \in [Nodes -> [Legs -> Nat]]
<1> DEFINE On(S, path, x) == {b \in S : LegUnder(path, b) = x}
           old == AncestorsOf(move.target)
           new == AtOrAbove(move.parent)
           m == Minus(f, On(old, h, "L"), On(old, h, "R"), k)
<1>1. PICK g, L, R : g = m /\ L = On(new, q, "L") /\ R = On(new, q, "R")
  OBVIOUS
<1>2. Regrouped(f, k, h, q) = Plus(g, L, R, k)
  BY <1>1 DEF Regrouped
<1> HIDE DEF m, On, old, new
<1>3. \A a \in Nodes, y \in Legs : Plus(g, L, R, k)[a][y] \in Nat
  BY <1>2
<1>4. Plus(g, L, R, k) = [a \in Nodes |-> [y \in Legs |-> Plus(g, L, R, k)[a][y]]]
  BY DEF Plus
<1> HIDE DEF Plus
<1>5. Plus(g, L, R, k) \in [Nodes -> [Legs -> Nat]]
  BY <1>3, <1>4
<1> QED
  BY <1>2, <1>5

\* The counters after a relocation: those of the ancestors that changed are as the paths
\* say, and the others stay.
LEMMA MoveCounts ==
  ASSUME NetInv, MoveCommit, Restructures, NEW x, x = move.target, NEW p, p = move.parent
  PROVE  /\ count' \in [Nodes -> [Legs -> Nat]] /\ pv' \in [Nodes -> [Legs -> Nat]]
         /\ \A a \in Nodes, y \in Legs :
              IF a \in (Up(closure, x) \ {x}) \cup Up(closure, p)
              THEN /\ count'[a][y] = Cardinality(PathLeg(tree', closure', a, y))
                   /\ pv'[a][y] = SumFunctionOnSet(event, PathLeg(tree', closure', a, y))
              ELSE count'[a][y] = count[a][y] /\ pv'[a][y] = pv[a][y]
<1>1. PICK moved, root : moved = SubtreeOf(x) /\ root = Append(tree[p].path, Label(move.leg, x))
  OBVIOUS
<1>2. /\ x \in Placed /\ p \in Placed /\ Placed' = Placed /\ Hung(Placed, tree', closure')
  BY <1>1, MoveFacts DEF Relocated
<1>3. NetShape /\ Hung(Placed, tree, closure) /\ Placed \subseteq Nodes
  BY PlacedAre DEF NetInv
<1>4. /\ AncestorsOf(move.target) = Up(closure, x) \ {x} /\ AtOrAbove(move.parent) = Up(closure, p)
      /\ Up(closure, x) \subseteq Placed /\ Up(closure, p) \subseteq Placed
  <2>1. AncestorsOf(x) = Up(closure, x) \ {x} /\ AtOrAbove(p) = Up(closure, p)
    BY <1>2, <1>3, NetAbove
  <2> QED
    BY <1>3, <2>1, UpIn DEF Hung
<1>5. /\ count' = Regrouped(count, Cardinality(moved), tree[x].path, root)
      /\ pv' = Regrouped(pv, SumFunctionOnSet(event, moved), tree[x].path, root)
  BY <1>1 DEF MoveCommit
<1>6. PICK k, l, h : count' = Regrouped(count, k, h, root) /\ pv' = Regrouped(pv, l, h, root)
  BY <1>5, Zenon
<1>7. ASSUME NEW a \in (Up(closure, x) \ {x}) \cup Up(closure, p), NEW y \in Legs
      PROVE  /\ count'[a][y] = Cardinality(PathLeg(tree', closure', a, y))
             /\ pv'[a][y] = SumFunctionOnSet(event, PathLeg(tree', closure', a, y))
  <2>1. Intact(tree', closure', count', pv', moved)
    BY <1>1 DEF MoveCommit
  <2> QED
    BY <1>4, <1>7, <2>1 DEF Intact, PathLeg
<1>8. ASSUME NEW a \in Nodes, a \notin (Up(closure, x) \ {x}) \cup Up(closure, p), NEW y \in Legs
      PROVE  count'[a][y] = count[a][y] /\ pv'[a][y] = pv[a][y]
  <2>1. count[a][y] \in Nat /\ pv[a][y] \in Nat
    BY <1>3 DEF NetShape
  <2>2. a \notin AncestorsOf(move.target) /\ a \notin AtOrAbove(move.parent)
    BY <1>4, <1>8
  <2> QED
    BY <1>6, <2>1, <2>2, RegroupedElsewhere
<1>9. ASSUME NEW a, NEW y
      PROVE  /\ Cardinality(PathLeg(tree', closure', a, y)) \in Nat
             /\ SumFunctionOnSet(event, PathLeg(tree', closure', a, y)) \in Nat
  <2>1. PICK S, e, D : S = PathLeg(tree', closure', a, y) /\ e = event /\ D = closure'
    OBVIOUS
  <2>2. Rows(Placed, D)
    BY <1>2, <2>1 DEF Hung
  <2>3. \A d \in S : \E r \in D : d = r[2]
    BY <2>1 DEF PathLeg
  <2>4. S \subseteq Placed
    BY <2>2, <2>3 DEF Rows
  <2>5. IsFiniteSet(S) /\ Cardinality(S) \in Nat /\ \A d \in S : e[d] \in Nat
    <3>1. S \subseteq Nodes
      BY <1>3, <2>4
    <3> QED
      BY <1>3, <2>1, <3>1, NodesFinite, FS_Subset, FS_CardinalityType DEF NetShape
  <2>6. SumFunctionOnSet(e, S) \in Nat
    BY <2>5, SumNat
  <2> QED
    BY <2>1, <2>5, <2>6
<1>10. \A a \in Nodes, y \in Legs : count'[a][y] \in Nat /\ pv'[a][y] \in Nat
  <2> SUFFICES ASSUME NEW a \in Nodes, NEW y \in Legs PROVE count'[a][y] \in Nat /\ pv'[a][y] \in Nat
    OBVIOUS
  <2>1. CASE a \in (Up(closure, x) \ {x}) \cup Up(closure, p)
    BY <1>7, <1>9, <2>1
  <2>2. CASE a \notin (Up(closure, x) \ {x}) \cup Up(closure, p)
    BY <1>3, <1>8, <2>2 DEF NetShape
  <2> QED
    BY <2>1, <2>2
<1>11. count' \in [Nodes -> [Legs -> Nat]] /\ pv' \in [Nodes -> [Legs -> Nat]]
  BY <1>6, <1>10, RegroupedTyped
<1> QED
  BY <1>7, <1>8, <1>11

LEMMA MoveExact ==
  ASSUME NetInv, MoveCommit, Restructures, NEW x, x = move.target, NEW p, p = move.parent,
         NEW moved, moved = SubtreeOf(x), NEW root, root = Append(tree[p].path, Label(move.leg, x))
  PROVE  Exact'
<1>1. Relocated(x, p, moved, root)
  BY MoveFacts
<1>2. /\ x \in Placed \ {Company} /\ p \in Placed /\ move.leg \in Legs /\ move.sponsor \in Placed
      /\ x \notin Up(closure, p) /\ Child(p, move.leg) \subseteq {x}
      /\ x \in moved /\ \A m : m \in moved <=> m \in Placed /\ x \in Up(closure, m)
      /\ tree' \in [Nodes -> SlotRows]
      /\ tree'[x].parent = p /\ tree'[x].leg = move.leg /\ tree'[x].sponsor = move.sponsor /\ tree'[x].path = root
      /\ \A m \in Nodes \ {x} : /\ tree'[m].parent = tree[m].parent /\ tree'[m].leg = tree[m].leg
                                /\ tree'[m].sponsor = tree[m].sponsor
      /\ \A m \in Nodes \ moved : tree'[m] = tree[m]
      /\ \A m \in moved \ {x} : tree'[m].path = After(root, tree[m].path, Len(tree[x].path))
      /\ Placed' = Placed /\ Hung(Placed, tree', closure')
      /\ \A m \in Placed : Up(closure', m) = UpMoved(closure, x, p, m)
      /\ closure' = Grafted(closure, moved, p, Depths(tree, x))
  BY <1>1 DEF Relocated
<1>3. PICK N, f, C, g, D, r, q : /\ N = Placed /\ f = tree /\ C = closure /\ g = tree' /\ D = closure'
                                 /\ r = PathsOf(tree) /\ q = PathsOf(tree')
  OBVIOUS
<1>4. /\ NetShape /\ Hung(N, f, C) /\ N \subseteq Nodes /\ UNCHANGED <<place, event>>
      /\ overtaken \subseteq overtaken'
  BY <1>3, PlacedAre DEF NetInv, MoveCommit
<1>5. SUFFICES ASSUME Stale' = {} PROVE Paths(N, g, PathsOf(g)) /\ Distances(g, D) /\ \A a \in N : Counted(a)'
  BY <1>2, <1>3 DEF Exact
<1>6. Paths(N, f, r) /\ Distances(f, C) /\ \A a \in N : Counted(a)
  <2>1. Stale = {}
    BY <1>4, <1>5 DEF Stale
  <2> QED
    BY <1>3, <2>1 DEF NetInv, Exact
<1>7. (\A m \in N : r[m] = f[m].path /\ q[m] = g[m].path) /\ r[p] = f[p].path
  BY <1>2, <1>3, <1>4 DEF PathsOf
<1>8. /\ \A m \in N \ {x} : g[m].parent = f[m].parent /\ g[m].leg = f[m].leg
      /\ g[x].parent = p /\ g[x].leg \in Legs
      /\ Renamed(N, C, x, p, g, r, q)
  <2>1. x \in N /\ p \in N /\ \A m \in N : m \in Nodes /\ (m \in moved <=> x \in Up(C, m))
    BY <1>2, <1>3, <1>4
  <2>2. q[x] = root /\ root = Append(r[p], Label(g[x].leg, x)) /\ r[x] = f[x].path
    BY <1>2, <1>3, <1>7, <2>1
  <2>3. \A m \in N : x \notin Up(C, m) => g[m] = f[m]
    BY <1>2, <1>3, <2>1
  <2>4. \A m \in N \ {x} : x \in Up(C, m) => g[m].path = After(root, f[m].path, Len(f[x].path))
    BY <1>2, <1>3, <2>1
  <2>5. \A m \in N : x \notin Up(C, m) => q[m] = r[m]
    BY <1>7, <2>3
  <2>6. \A m \in N \ {x} : x \in Up(C, m) => q[m] = After(q[x], r[m], Len(r[x]))
    BY <1>7, <2>2, <2>4
  <2>7. Renamed(N, C, x, p, g, r, q)
    BY <2>2, <2>5, <2>6 DEF Renamed
  <2>8. \A m \in N \ {x} : g[m].parent = f[m].parent /\ g[m].leg = f[m].leg
    BY <1>2, <1>3, <2>1
  <2>9. g[x].parent = p /\ g[x].leg \in Legs
    BY <1>2, <1>3
  <2> QED
    BY <2>7, <2>8, <2>9
<1>9. /\ Paths(N, g, q)
      /\ \A m \in N : x \in Up(C, m) => Len(q[m]) = Len(r[p]) + 1 + (Len(r[m]) - Len(r[x]))
  <2>1. Hung(N, f, C) /\ x \in N \ {Company} /\ p \in N /\ x \notin Up(C, p) /\ Paths(N, f, r)
    BY <1>2, <1>3, <1>4, <1>6
  <2>2. Paths(N, g, q) /\ Deeper(N, C, x, p, r, q)
    BY <1>8, <2>1, MovedPaths
  <2> QED
    BY <2>2 DEF Deeper
<1>10. Distances(g, D)
  <2>1. PICK l, h : l = [m \in N |-> Len(r[m])] /\ h = [m \in N |-> Len(q[m])]
    OBVIOUS
  <2>2. /\ \A m \in N : l[m] \in Nat /\ l[m] = Len(f[m].path) /\ h[m] = Len(g[m].path)
        /\ \A m \in N : x \in Up(C, m) => h[m] = l[p] + 1 + (l[m] - l[x])
        /\ \A m \in N : x \notin Up(C, m) => h[m] = l[m]
    <3>1. \A m \in N : f[m].path \in Seq(Labels)
      BY <1>3, <1>4 DEF NetShape, SlotRows
    <3>2. \A m \in N : Len(f[m].path) \in Nat
      BY <3>1, LenProperties
    <3>3. \A m \in N : l[m] = Len(f[m].path) /\ h[m] = Len(g[m].path) /\ l[m] = Len(r[m]) /\ h[m] = Len(q[m])
      BY <1>7, <2>1
    <3>4. \A m \in N : x \notin Up(C, m) => q[m] = r[m]
      BY <1>8 DEF Renamed
    <3>5. \A m \in N : x \in Up(C, m) => Len(q[m]) = Len(r[p]) + 1 + (Len(r[m]) - Len(r[x]))
      BY <1>9
    <3>6. x \in N /\ p \in N
      BY <1>2, <1>3
    <3>7. ASSUME NEW m \in N, x \in Up(C, m) PROVE h[m] = l[p] + 1 + (l[m] - l[x])
      <4>1. Len(r[p]) = l[p] /\ Len(r[m]) = l[m] /\ Len(r[x]) = l[x] /\ Len(q[m]) = h[m]
        BY <3>3, <3>6
      <4> QED
        BY <3>5, <3>7, <4>1
    <3>8. ASSUME NEW m \in N, x \notin Up(C, m) PROVE h[m] = l[m]
      BY <3>3, <3>4, <3>8
    <3> QED
      BY <3>2, <3>3, <3>7, <3>8
  <2>3. \A u \in C : u[1] \in N /\ u[2] \in N /\ u[3] = l[u[2]] - l[u[1]] /\ u[1] \in Up(C, u[2])
    <3>1. \A u \in C : u[1] \in N /\ u[2] \in N
      BY <1>4 DEF Hung, Rows
    <3>2. \A u \in C : u[1] \in Up(C, u[2])
      BY DEF Up
    <3> QED
      BY <1>6, <2>2, <3>1, <3>2 DEF Distances
  <2>4. ASSUME NEW u \in D PROVE u[1] \in N /\ u[2] \in N /\ u[3] = h[u[2]] - h[u[1]]
    <3>1. PICK depth : depth = Depths(tree, x)
      OBVIOUS
    <3>2. GraftedRow(C, moved, p, depth, u)
      BY <1>2, <1>3, <3>1, GraftedRows
    <3>3. CASE u \in C /\ (u[2] \in moved => u[1] \in moved)
      <4>1. PICK a, b : a = u[1] /\ b = u[2]
        OBVIOUS
      <4>2. a \in N /\ b \in N /\ u[3] = l[b] - l[a] /\ a \in Up(C, b) /\ l[a] \in Nat /\ l[b] \in Nat
        BY <2>2, <2>3, <3>3, <4>1
      <4>3. x \in Up(C, a) <=> x \in Up(C, b)
        <5>1. Up(C, a) \subseteq Up(C, b)
          BY <1>4, <4>2, UpFacts
        <5>2. b \in moved => a \in moved
          BY <3>3, <4>1
        <5> QED
          BY <1>2, <1>3, <4>2, <5>1, <5>2
      <4>4. l[p] \in Nat /\ l[x] \in Nat
        BY <1>2, <1>3, <2>2
      <4>5. h[b] - h[a] = l[b] - l[a]
        BY <2>2, <4>2, <4>3, <4>4
      <4> QED
        BY <4>1, <4>2, <4>5
    <3>4. CASE \E m \in moved : \E t \in C : t[2] = p /\ u = <<t[1], m, t[3] + 1 + depth[m]>>
      <4>1. PICK m \in moved, t \in C : t[2] = p /\ u = <<t[1], m, t[3] + 1 + depth[m]>>
        BY <3>4
      <4>2. PICK a, k : a = t[1] /\ k = depth[m]
        OBVIOUS
      <4>3. /\ a \in N /\ t[3] = l[p] - l[a] /\ a \in Up(C, p) /\ m \in N /\ x \in Up(C, m)
            /\ u = <<a, m, t[3] + 1 + k>>
        BY <1>2, <1>3, <2>3, <4>1, <4>2
      <4>4. k = l[m] - l[x]
        <5>1. m \in Nodes /\ x \in N
          BY <1>2, <1>3, <1>4, <4>3
        <5> QED
          BY <1>3, <2>2, <3>1, <4>2, <4>3, <5>1 DEF Depths
      <4>5. x \notin Up(C, a)
        <5>1. Up(C, a) \subseteq Up(C, p)
          BY <1>2, <1>3, <1>4, <4>3, UpFacts
        <5> QED
          BY <1>2, <1>3, <5>1
      <4>6. u[1] = a /\ u[2] = m /\ u[3] = t[3] + 1 + k
        BY <4>3
      <4>7. h[m] = l[p] + 1 + (l[m] - l[x]) /\ h[a] = l[a] /\ l[a] \in Nat /\ l[m] \in Nat /\ l[p] \in Nat /\ l[x] \in Nat
        BY <1>2, <1>3, <2>2, <4>3, <4>5
      <4>8. t[3] + 1 + k = h[m] - h[a]
        BY <4>3, <4>4, <4>7
      <4> QED
        BY <4>3, <4>6, <4>8
    <3> QED
      BY <3>2, <3>3, <3>4 DEF GraftedRow
  <2> QED
    BY <2>2, <2>4 DEF Distances
<1>11. Hung(N, g, D)
  BY <1>2, <1>3
<1>12. ASSUME NEW a \in N PROVE Counted(a)'
  <2>1. SUFFICES ASSUME NEW y \in Legs
                 PROVE  /\ count'[a][y] = Cardinality(Leg(N, g, D, a, y))
                        /\ pv'[a][y] = SumFunctionOnSet(event', Leg(N, g, D, a, y))
    BY <1>2, <1>3 DEF Counted
  <2>2. a \in Nodes /\ event' = event
    BY <1>4
  <2>3. CASE a \in (Up(closure, x) \ {x}) \cup Up(closure, p)
    <3>1. /\ count'[a][y] = Cardinality(PathLeg(tree', closure', a, y))
          /\ pv'[a][y] = SumFunctionOnSet(event, PathLeg(tree', closure', a, y))
      BY <2>2, <2>3, MoveCounts
    <3>2. Paths(N, g, PathsOf(g))
      BY <1>3, <1>9
    <3>3. PathLeg(g, D, a, y) = Leg(N, g, D, a, y)
      BY <1>11, <3>2, PathLegMeaning
    <3> QED
      BY <1>3, <2>2, <3>1, <3>3
  <2>4. CASE a \notin (Up(closure, x) \ {x}) \cup Up(closure, p)
    <3>1. count'[a][y] = count[a][y] /\ pv'[a][y] = pv[a][y]
      BY <2>2, <2>4, MoveCounts
    <3>2. count[a][y] = Cardinality(Leg(N, f, C, a, y)) /\ pv[a][y] = SumFunctionOnSet(event, Leg(N, f, C, a, y))
      BY <1>3, <1>6 DEF Counted
    <3>3. Leg(N, g, D, a, y) = Leg(N, f, C, a, y)
      <4>1. /\ x \in N \ {Company} /\ p \in N /\ x \notin Up(C, p)
            /\ a \notin Up(C, x) \ {x} /\ a \notin Up(C, p)
            /\ \A m \in N : Up(D, m) = UpMoved(C, x, p, m)
        BY <1>2, <1>3, <2>4
      <4> QED
        BY <1>4, <1>8, <4>1, LegsElsewhere
    <3> QED
      BY <2>2, <3>1, <3>2, <3>3
  <2> QED
    BY <2>3, <2>4
<1>13. Paths(N, g, PathsOf(g))
  BY <1>3, <1>9
<1> QED
  BY <1>10, <1>12, <1>13

LEMMA RestructureStep ==
  ASSUME NetInv, MoveCommit, Restructures, NEW x, x = move.target, NEW p, p = move.parent
  PROVE  NetInv'
<1>0. PICK moved, root, y : moved = SubtreeOf(x) /\ root = Append(tree[p].path, Label(move.leg, x)) /\ y = move.leg
  OBVIOUS
<1>1. Relocated(x, p, moved, root)
  BY <1>0, MoveFacts
<1>2. /\ x \in Placed \ {Company} /\ p \in Placed /\ y \in Legs /\ move.sponsor \in Placed
      /\ x \notin Up(closure, p) /\ Child(p, y) \subseteq {x}
      /\ x \in moved /\ \A m : m \in moved <=> m \in Placed /\ x \in Up(closure, m)
      /\ tree' \in [Nodes -> SlotRows]
      /\ tree'[x].parent = p /\ tree'[x].leg = y /\ tree'[x].sponsor = move.sponsor
      /\ \A m \in Nodes \ {x} : /\ tree'[m].parent = tree[m].parent /\ tree'[m].leg = tree[m].leg
                                /\ tree'[m].sponsor = tree[m].sponsor
      /\ \A m \in Nodes \ moved : tree'[m] = tree[m]
      /\ Placed' = Placed /\ Hung(Placed, tree', closure')
      /\ \A m \in Placed : Up(closure', m) = UpMoved(closure, x, p, m)
  BY <1>0, <1>1 DEF Relocated
<1>3. /\ NetShape /\ Hung(Placed, tree, closure) /\ SlotsOnce /\ Born /\ PlacesKnow /\ SponsorsAgree
      /\ Placed \subseteq Nodes
  BY PlacedAre DEF NetInv
<1>4. /\ UNCHANGED <<event, place>> /\ move' = NoMove /\ ~InProgress(p, y)
      /\ credited' = [credited EXCEPT ![x] = move.sponsor]
      /\ overtaken' = overtaken \cup {n \in New : place[n].pc \in {"insert", "attach"} /\ place[n].parent \in moved}
  BY <1>0 DEF MoveCommit, Credit
<1>5. NetShape'
  <2>1. count' \in [Nodes -> [Legs -> Nat]] /\ pv' \in [Nodes -> [Legs -> Nat]]
    BY MoveCounts
  <2>2. credited' \in [Nodes -> Nodes \cup {NoOne}]
    BY <1>2, <1>3, <1>4 DEF NetShape
  <2>3. tree'[Company].parent = NoOne
    <3>1. Company \in Nodes /\ Company # x
      BY <1>2 DEF Nodes
    <3> QED
      BY <1>2, <1>3, <3>1 DEF NetShape
  <2>4. move' \in MoveRows /\ overtaken' \subseteq New
    BY <1>3, <1>4, NoRows DEF NetShape
  <2> QED
    BY <1>2, <1>3, <1>4, <2>1, <2>2, <2>3, <2>4 DEF NetShape
<1>6. SlotsOnce'
  <2> SUFFICES ASSUME NEW k \in Placed \ {Company}, NEW m \in Placed \ {Company},
                      tree'[k].parent = tree'[m].parent, tree'[k].leg = tree'[m].leg
               PROVE  k = m
    BY <1>2 DEF SlotsOnce
  <2>1. \A z \in Placed \ {x} : /\ tree'[z].parent = tree[z].parent /\ tree'[z].leg = tree[z].leg
                                /\ ~(tree[z].parent = p /\ tree[z].leg = y)
    BY <1>2, <1>3 DEF Child
  <2>2. CASE k = x \/ m = x
    BY <1>2, <2>1, <2>2
  <2>3. CASE k # x /\ m # x
    BY <1>3, <2>1, <2>3 DEF SlotsOnce
  <2> QED
    BY <2>2, <2>3
<1>7. Born'
  <2>1. ASSUME NEW m \in New, m \notin Placed PROVE Blank(m)'
    <3>1. m \in Nodes /\ Blank(m)
      BY <1>3, <2>1 DEF Born, Nodes
    <3>2. m \notin (Up(closure, x) \ {x}) \cup Up(closure, p)
      <4>1. Up(closure, x) \subseteq Placed /\ Up(closure, p) \subseteq Placed
        BY <1>3, UpIn DEF Hung
      <4> QED
        BY <2>1, <4>1
    <3>3. \A z \in Legs : count'[m][z] = count[m][z] /\ pv'[m][z] = pv[m][z]
      BY <3>1, <3>2, MoveCounts
    <3> QED
      BY <1>4, <3>1, <3>3 DEF Blank
  <2> HIDE DEF Placed, Blank
  <2> QED
    BY <1>2, <1>3, <1>4, <2>1 DEF Born
<1>8. \A b, z : Child(b, z)' = {m \in Placed : tree'[m].parent = b /\ tree'[m].leg = z}
  BY <1>2 DEF Child
<1>9. PlacesKnow'
  <2> SUFFICES ASSUME NEW m \in New PROVE PlaceKnows(m)'
    BY DEF PlacesKnow
  <2>1. PICK b, z, s, side : b = place[m].parent /\ z = place[m].leg /\ s = place[m].sponsor /\ side = place[m].side
    OBVIOUS
  <2>2. PlaceKnows(m) /\ place' = place
    BY <1>3, <1>4 DEF PlacesKnow
  <2>3. place[m].pc \in {"insert", "attach"} => b \in Placed /\ s \in Placed /\ z \in Legs
    BY <2>1, <2>2 DEF PlaceKnows
  <2>4. place[m].pc \in {"insert", "attach"} /\ m \notin overtaken' => m \notin overtaken /\ b \notin moved
    BY <1>4, <2>1
  <2>5. ASSUME place[m].pc \in {"insert", "attach"}, m \notin overtaken'
        PROVE  Downhill(tree', closure', s, b, side) /\ (side \in Legs => z = side)
    <3>1. Downhill(tree, closure, s, b, side) /\ (side \in Legs => z = side)
      BY <2>1, <2>2, <2>4, <2>5 DEF PlaceKnows
    <3>2. s \in Up(closure, b) /\ x \notin Up(closure, b) /\ Up(closure, s) \subseteq Up(closure, b)
          /\ Up(closure, b) \subseteq Placed
      <4>1. s \in Up(closure, b) /\ x \notin Up(closure, b)
        BY <1>2, <2>3, <2>4, <2>5, <3>1 DEF Downhill
      <4>2. Up(closure, b) \subseteq Placed /\ Up(closure, s) \subseteq Up(closure, b)
        BY <1>3, <2>3, <2>5, <4>1, UpFacts
      <4> QED
        BY <4>1, <4>2
    <3>3. Up(closure', b) = Up(closure, b) /\ Up(closure', s) = Up(closure, s)
      BY <1>2, <2>3, <2>5, <3>2 DEF UpMoved
    <3>4. \A c \in Up(closure, b) : tree'[c].leg = tree[c].leg
      BY <1>2, <1>3, <3>2
    <3> HIDE DEF Up
    <3> QED
      BY <3>1, <3>3, <3>4 DEF Downhill
  <2>6. ASSUME place[m].pc = "attach" PROVE Child(b, z)' = {}
    <3>1. Child(b, z) = {} /\ ~(b = p /\ z = y)
      BY <1>4, <2>1, <2>2, <2>6 DEF PlaceKnows, InProgress
    <3>2. \A c \in Placed : ~(tree[c].parent = b /\ tree[c].leg = z)
      BY <3>1 DEF Child
    <3>3. \A c \in Placed : ~(tree'[c].parent = b /\ tree'[c].leg = z)
      BY <1>2, <1>3, <3>1, <3>2
    <3> HIDE DEF Placed
    <3> QED
      BY <1>8, <3>3
  <2>7. ASSUME place[m].pc = "attach", m \notin overtaken' PROVE place[m].path = Append(tree'[b].path, Label(z, m))
    <3>1. b \in Nodes \ moved
      BY <1>3, <2>3, <2>4, <2>7
    <3>2. tree'[b] = tree[b]
      BY <1>2, <3>1
    <3> QED
      BY <2>1, <2>2, <2>4, <2>7, <3>2 DEF PlaceKnows
  <2>8. /\ place[m].pc = "attach" => place[m].path # <<>>
        /\ place[m].pc = "attach" =>
             \A k \in New : place[k].pc = "attach" /\ place[k].parent = b /\ place[k].leg = z => k = m
    BY <2>1, <2>2 DEF PlaceKnows
  <2>9. /\ place[m].pc \in {"insert", "attach"} /\ m \notin overtaken' =>
             Downhill(tree, closure, place[m].sponsor, place[m].parent, place[m].side)'
        /\ place[m].pc = "attach" => Child(place[m].parent, place[m].leg)' = {}
    BY <2>1, <2>2, <2>5, <2>6
  <2> HIDE DEF Placed, Child, Downhill
  <2> QED
    BY <1>2, <2>1, <2>2, <2>3, <2>5, <2>7, <2>8, <2>9 DEF PlaceKnows
<1>10. MoveKnows'
  BY <1>4 DEF MoveKnows
<1>11. SponsorsAgree'
  <2> SUFFICES ASSUME NEW m \in Placed \ {Company} PROVE tree'[m].sponsor = credited'[m]
    BY <1>2 DEF SponsorsAgree
  <2>1. CASE m = x
    BY <1>2, <1>3, <1>4, <2>1 DEF NetShape
  <2>2. CASE m # x
    BY <1>2, <1>3, <1>4, <2>2 DEF NetShape, SponsorsAgree
  <2> QED
    BY <2>1, <2>2
<1>12. Hung(Placed, tree, closure)' /\ Exact'
  BY <1>0, <1>2, MoveExact
<1> QED
  BY <1>5, <1>6, <1>7, <1>9, <1>10, <1>11, <1>12 DEF NetInv

\* A relocation that changes the sponsor only.
LEMMA SponsorStep ==
  ASSUME NetInv, MoveCommit, ~Restructures
  PROVE  NetInv'
<1>1. PICK x, s : x = move.target /\ s = move.sponsor
  OBVIOUS
<1>2. /\ NetShape /\ Hung(Placed, tree, closure) /\ SlotsOnce /\ Born /\ PlacesKnow /\ SponsorsAgree
      /\ Placed \subseteq Nodes
  BY PlacedAre DEF NetInv
<1>3. x \in Placed \ {Company} /\ s \in Placed
  BY <1>1 DEF NetInv, MoveKnows, MoveCommit
<1>4. /\ tree' = [tree EXCEPT ![x].sponsor = s]
      /\ UNCHANGED <<closure, count, pv, overtaken, event, place>>
      /\ credited' = [credited EXCEPT ![x] = s] /\ move' = NoMove
  BY <1>1 DEF MoveCommit, Credit
<1>5. /\ tree' \in [Nodes -> SlotRows]
      /\ \A m \in Nodes : /\ tree'[m].parent = tree[m].parent /\ tree'[m].leg = tree[m].leg
                          /\ tree'[m].path = tree[m].path
                          /\ tree'[m].sponsor = IF m = x THEN s ELSE tree[m].sponsor
  <2>1. PICK row : row = [tree[x] EXCEPT !.sponsor = s]
    OBVIOUS
  <2>2. tree[x] \in SlotRows
    BY <1>2, <1>3 DEF NetShape
  <2>3. /\ row \in SlotRows /\ row.parent = tree[x].parent /\ row.leg = tree[x].leg /\ row.path = tree[x].path
        /\ row.sponsor = s
    BY <1>2, <1>3, <2>1, <2>2 DEF SlotRows
  <2>4. tree' = [tree EXCEPT ![x] = row]
    BY <1>2, <1>4, <2>1 DEF NetShape
  <2> QED
    BY <1>2, <1>3, <2>3, <2>4 DEF NetShape
<1>6. Placed' = Placed
  BY <1>5 DEF Placed
<1>7. /\ Hung(Placed, tree', closure)
      /\ \A a, y : Leg(Placed, tree', closure, a, y) = Leg(Placed, tree, closure, a, y)
  <2>1. PICK g : g = tree'
    OBVIOUS
  <2>2. \A m \in Placed \ {Company} : g[m].parent = tree[m].parent /\ g[m].leg = tree[m].leg
    BY <1>2, <1>5, <2>1
  <2>3. Hung(Placed, g, closure) /\ \A a, y : Leg(Placed, g, closure, a, y) = Leg(Placed, tree, closure, a, y)
    BY <1>2, <2>2, HungAlike
  <2> QED
    BY <2>1, <2>3
<1>8. NetShape'
  <2>1. credited' \in [Nodes -> Nodes \cup {NoOne}] /\ move' \in MoveRows /\ tree'[Company].parent = NoOne
    BY <1>2, <1>3, <1>4, <1>5, NoRows DEF NetShape, Nodes
  <2> QED
    BY <1>2, <1>4, <1>5, <2>1 DEF NetShape
<1>9. SlotsOnce'
  BY <1>2, <1>5, <1>6 DEF SlotsOnce
<1>10. Born'
  BY <1>2, <1>4, <1>6 DEF Born, Blank
<1>11. PlacesKnow'
  <2>1. \A b, y : Child(b, y)' = Child(b, y)
    BY <1>2, <1>5, <1>6 DEF Child
  <2>2. \A b, t, side : b \in Placed => Downhill(tree, closure, t, b, side)' = Downhill(tree, closure, t, b, side)
    <3>1. \A b : Up(closure, b) \subseteq Nodes
      BY <1>2, UpIn DEF Hung
    <3>2. \A b : Up(closure, b)' = Up(closure, b)
      BY <1>4 DEF Up
    <3> HIDE DEF Up
    <3> QED
      BY <1>5, <3>1, <3>2 DEF Downhill
  <2> SUFFICES ASSUME NEW m \in New PROVE PlaceKnows(m)'
    BY DEF PlacesKnow
  <2>3. PlaceKnows(m)
    BY <1>2 DEF PlacesKnow
  <2>4. PICK b, z, t, side : b = place[m].parent /\ z = place[m].leg /\ t = place[m].sponsor /\ side = place[m].side
    OBVIOUS
  <2>5. place[m].pc \in {"insert", "attach"} => b \in Placed /\ t \in Placed /\ z \in Legs
    BY <2>3, <2>4 DEF PlaceKnows
  <2>6. place[m].pc \in {"insert", "attach"} /\ m \notin overtaken =>
          /\ Downhill(tree, closure, place[m].sponsor, place[m].parent, place[m].side)'
          /\ side \in Legs => z = side
    <3>1. SUFFICES ASSUME place[m].pc \in {"insert", "attach"}, m \notin overtaken
                   PROVE  /\ Downhill(tree, closure, place[m].sponsor, place[m].parent, place[m].side)'
                          /\ side \in Legs => z = side
      OBVIOUS
    <3>2. Downhill(tree, closure, t, b, side) /\ (side \in Legs => z = side)
      BY <2>3, <2>4, <3>1 DEF PlaceKnows
    <3>3. b \in Placed
      BY <2>5, <3>1
    <3> HIDE DEF Placed, Downhill
    <3>4. Downhill(tree, closure, t, b, side)'
      BY <2>2, <3>2, <3>3
    <3> QED
      BY <1>4, <2>4, <3>2, <3>4
  <2>7. place[m].pc = "attach" =>
          /\ Child(place[m].parent, place[m].leg)' = {} /\ place[m].path # <<>>
          /\ \A k \in New : place[k].pc = "attach" /\ place[k].parent = b /\ place[k].leg = z => k = m
    BY <1>4, <2>1, <2>3, <2>4 DEF PlaceKnows
  <2>8. place[m].pc = "attach" /\ m \notin overtaken => place[m].path = Append(tree'[b].path, Label(z, m))
    <3>1. SUFFICES ASSUME place[m].pc = "attach", m \notin overtaken
                   PROVE  place[m].path = Append(tree'[b].path, Label(z, m))
      OBVIOUS
    <3>2. tree'[b].path = tree[b].path
      BY <1>2, <1>5, <2>5, <3>1
    <3> QED
      BY <2>3, <2>4, <3>1, <3>2 DEF PlaceKnows
  <2> HIDE DEF Placed, Child, Downhill
  <2> QED
    BY <1>4, <1>6, <2>4, <2>5, <2>6, <2>7, <2>8 DEF PlaceKnows
<1>12. SponsorsAgree'
  <2>1. \A m \in Placed \ {Company} : tree'[m].sponsor = credited'[m]
    BY <1>2, <1>4, <1>5 DEF NetShape, SponsorsAgree
  <2> QED
    BY <1>6, <2>1 DEF SponsorsAgree
<1>13. Exact'
  <2>1. SUFFICES ASSUME Stale = {} PROVE Exact'
    BY <1>4 DEF Exact, Stale
  <2>2. Paths(Placed, tree, PathsOf(tree)) /\ Distances(tree, closure) /\ \A a \in Placed : Counted(a)
    BY <2>1 DEF NetInv, Exact
  <2>3. PICK g, D, r, N, f : g = tree' /\ D = closure /\ r = PathsOf(tree) /\ N = Placed /\ f = tree
    OBVIOUS
  <2>4. /\ \A m \in Nodes : g[m].parent = f[m].parent /\ g[m].leg = f[m].leg /\ g[m].path = f[m].path
        /\ N \subseteq Nodes /\ Paths(N, f, r) /\ Distances(f, D)
        /\ r = PathsOf(f) /\ \A t \in D : t[1] \in N /\ t[2] \in N
    BY <1>2, <1>5, <2>2, <2>3 DEF Hung, Rows
  <2>5. PathsOf(g) = r
    BY <2>4 DEF PathsOf
  <2>6. Paths(N, g, PathsOf(g))
    BY <2>4, <2>5 DEF Paths
  <2>7. Distances(g, D)
    BY <2>4 DEF Distances
  <2>8. ASSUME NEW a \in N PROVE Counted(a)'
    <3>1. Counted(a)
      BY <2>2, <2>3, <2>8
    <3>2. \A y \in Legs : Leg(Placed, tree, closure, a, y)' = Leg(Placed, tree, closure, a, y)
      BY <1>4, <1>6, <1>7
    <3> HIDE DEF Placed, Leg
    <3> QED
      BY <1>4, <3>1, <3>2 DEF Counted
  <2> QED
    BY <1>4, <1>6, <2>3, <2>6, <2>7, <2>8 DEF Exact
<1>14. Hung(Placed, tree, closure)' /\ MoveKnows'
  BY <1>4, <1>6, <1>7 DEF MoveKnows
<1> QED
  BY <1>8, <1>9, <1>10, <1>11, <1>12, <1>13, <1>14 DEF NetInv

LEMMA NetStutters == ASSUME NetInv, UNCHANGED netVars PROVE NetInv'
<1>1. /\ NetShape /\ Hung(Placed, tree, closure) /\ SlotsOnce /\ Born /\ PlacesKnow /\ MoveKnows /\ SponsorsAgree
  BY DEF NetInv
<1>2. UNCHANGED <<tree, closure, count, pv, event, credited, place, move, overtaken>>
  BY DEF netVars
<1>3. move' \in MoveRows /\ MoveKnows'
  <2>1. /\ Placed' = Placed /\ \A p, x : Child(p, x)' = Child(p, x)
        /\ \A n : Up(closure, n)' = Up(closure, n)
    BY <1>2, TreeStays
  <2> HIDE DEF Placed, Child, Up
  <2> QED
    BY <1>1, <1>2, <2>1 DEF MoveKnows, NetShape, NoMove
<1> QED
  BY <1>2, <1>3, MoveOnly

\* Every step keeps the invariant.
LEMMA NetKeepsInv == ASSUME NetInv, [NetNext]_netVars PROVE NetInv'
<1>1. CASE \E n \in New, s \in Sponsors, side \in Sides : Walk(n, s, side)
  BY <1>1, WalkStep
<1>2. CASE \E n \in New : Insert(n)
  BY <1>2, InsertStep
<1>3. CASE \E n \in New : PlaceFails(n)
  BY <1>3, PlaceFailsStep
<1>4. CASE \E n \in New, global \in BOOLEAN : Attach(n, global)
  BY <1>4, AttachStep
<1>5. CASE \E n \in Nodes : Sale(n)
  BY <1>5, SaleStep
<1>6. CASE \E target, sponsor, p \in Placed, x \in Legs : MoveLock(target, sponsor, [parent |-> p, leg |-> x])
  BY <1>6, MoveLockStep
<1>7. CASE MoveCommit
  <2>1. CASE Restructures
    BY <1>7, <2>1, RestructureStep
  <2>2. CASE ~Restructures
    BY <1>7, <2>2, SponsorStep
  <2> QED
    BY <2>1, <2>2
<1>8. CASE MoveEnds
  BY <1>8, MoveEndsStep
<1>9. CASE UNCHANGED netVars
  BY <1>9, NetStutters
<1> QED
  BY <1>1, <1>2, <1>3, <1>4, <1>5, <1>6, <1>7, <1>8, <1>9 DEF NetNext

\* The invariant behind the tables of the network, in every reachable state.
THEOREM NetInvariant == NetSpec => []NetInv
<1>1. NetInit => NetInv
  BY NetBegins
<1>2. NetInv /\ [NetNext]_netVars => NetInv'
  BY NetKeepsInv
<1> QED
  BY <1>1, <1>2, PTL DEF NetSpec

\* The types of the tables of the network (mlm.affiliate and those derived from it).
THEOREM NetTypeCorrect == NetSpec => []NetTypeOK
<1>1. NetInv => NetTypeOK
  BY InvMeansType
<1> QED
  BY <1>1, NetInvariant, PTL

\* Placements and relocations always leave one tree, and closure, paths, counters and
\* sponsors say the same of it (autoPlaceAffiliate, PreviewOrMoveAdminTreeRelocation).
THEOREM OneTreeEverywhere == NetSpec => []TreeAgrees
<1>1. NetInv => TreeAgrees
  BY InvMeansTree
<1> QED
  BY <1>1, NetInvariant, PTL

\* A buyer by a link of one side ends at the outer end of that side of its sponsor
\* (autoPlaceAffiliate).
THEOREM SideAlwaysRespected == NetSpec => SideRespected
<1>1. NetInv /\ [NetNext]_netVars =>
        \A n \in New : place[n].pc = "attach" /\ place'[n].pc = "placed" /\ n \notin overtaken =>
          LET way == SubSeq(PathIn(tree', n), Len(PathIn(tree', place[n].sponsor)) + 1, Len(PathIn(tree', n)))
          IN /\ Real(place[n].sponsor, place[n].parent)
             /\ way # <<>>
             /\ place[n].side \in Legs => \A i \in DOMAIN way : way[i][1] = place[n].side
  <2> SUFFICES ASSUME NetInv, [NetNext]_netVars, NEW n \in New,
                      place[n].pc = "attach", place'[n].pc = "placed", n \notin overtaken
               PROVE  LET way == SubSeq(PathIn(tree', n), Len(PathIn(tree', place[n].sponsor)) + 1, Len(PathIn(tree', n)))
                      IN /\ Real(place[n].sponsor, place[n].parent)
                         /\ way # <<>>
                         /\ place[n].side \in Legs => \A i \in DOMAIN way : way[i][1] = place[n].side
    OBVIOUS
  <2>1. PICK global \in BOOLEAN : Attach(n, global)
    BY OnlyAttach
  <2> QED
    BY <2>1, AttachSide
<1> QED
  BY <1>1, NetInvariant, PTL DEF NetSpec, SideRespected
=============================================================================
