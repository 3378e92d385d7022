-------------------------------- MODULE Sums --------------------------------
(***************************************************************************)
(* What SumFunctionOnSet adds up, for any finite set.  The fold picks its  *)
(* elements one by one; that the order does not matter, and what a sum     *)
(* gains or loses with an element, is proved by looking at a least subset  *)
(* for which it would not hold.  UpTo and PartByPart are that induction on *)
(* their own; the lemmas on quotients are the arithmetic of the throttles. *)
(***************************************************************************)
EXTENDS Integers, FiniteSets, FiniteSetsExt, FiniteSetTheorems, WellFoundedInduction, TLAPS

-----------------------------------------------------------------------------
(* Products and quotients, one fact at a time.                             *)

LEMMA DivMonotone ==
  ASSUME NEW x \in Nat, NEW y \in Nat, x <= y, NEW d \in Nat \ {0}
  PROVE  x \div d \in Nat /\ x \div d <= y \div d
  OBVIOUS

LEMMA ProductMonotone ==
  ASSUME NEW x \in Nat, NEW y \in Nat, x <= y, NEW d \in Nat
  PROVE  x * d \in Nat /\ d * x \in Nat /\ x * d <= y * d /\ d * x <= d * y
  OBVIOUS

LEMMA ProductOf ==
  ASSUME NEW x \in Nat, NEW y \in Nat
  PROVE  x * y \in Nat /\ x * y = y * x
  OBVIOUS

LEMMA QuotientOf ==
  ASSUME NEW x \in Nat, NEW y \in Nat \ {0}
  PROVE  x \div y \in Nat /\ y * (x \div y) <= x /\ (x \div y) * y <= x
  OBVIOUS

LEMMA CancelScale ==
  ASSUME NEW x \in Nat, NEW y \in Nat, NEW s \in Nat \ {0}, x * s <= y * s
  PROVE  x <= y
<1> SUFFICES ASSUME y + 1 <= x PROVE FALSE
  OBVIOUS
<1>1. (y + 1) * s <= x * s
  BY ProductMonotone
<1>2. (y + 1) * s = y * s + s
  OBVIOUS
<1>3. y * s \in Nat /\ x * s \in Nat
  BY ProductOf
<1> QED
  BY <1>1, <1>2, <1>3

LEMMA Throttled ==
  ASSUME NEW p \in Nat, NEW g \in Nat, NEW t \in Nat, NEW s \in Nat \ {0}, NEW i \in Nat,
         s * p <= t * g, 100 * g * t <= i * s
  PROVE  100 * p <= i
<1>1. s * p \in Nat /\ t * g \in Nat
  BY ProductOf
<1>2. 100 * (s * p) <= 100 * (t * g)
  BY <1>1
<1>3. 100 * (t * g) = 100 * g * t
  OBVIOUS
<1>4. 100 * (s * p) = (100 * p) * s
  OBVIOUS
<1>5. (100 * p) * s <= i * s
  <2>1. 100 * g * t \in Int /\ i * s \in Int /\ (100 * p) * s \in Int
    BY ProductOf
  <2> QED
    BY <1>2, <1>3, <1>4, <2>1
<1>6. 100 * p \in Nat
  OBVIOUS
<1> QED
  BY <1>5, <1>6, CancelScale

-----------------------------------------------------------------------------
(* Induction on numbers.                                                   *)

\* What holds of zero and goes from a number to the next holds up to n.
LEMMA UpTo ==
  ASSUME NEW n \in Nat, NEW G, 0 \in G, \A k \in 1..n : k - 1 \in G => k \in G
  PROVE  \A k \in 0..n : k \in G
<1> DEFINE B == {k \in 0..n : k \notin G}
           R == {p \in Nat \X Nat : p[1] < p[2]}
<1>1. SUFFICES ASSUME B # {} PROVE FALSE
  OBVIOUS
<1>2. IsWellFoundedOn(R, Nat)
  BY NatLessThanWellFounded DEF OpToRel
<1>3. B \subseteq Nat
  OBVIOUS
<1>4. PICK k \in B : \A j \in B : ~ (<<j, k>> \in R)
  <2> HIDE DEF R, B
  <2> QED
    BY <1>1, <1>2, <1>3, WFMin
<1>5. k \in 1..n /\ k - 1 \in 0..n /\ <<k - 1, k>> \in R
  BY <1>4
<1>6. k - 1 \in G
  BY <1>4, <1>5
<1> QED
  BY <1>4, <1>5, <1>6

-----------------------------------------------------------------------------
(* Sums.                                                                   *)

\* The element the fold takes first.
Picked(s) == CHOOSE x \in s : TRUE

\* I adds up f over the subsets of S as the fold does.
Adds(I, f, S) == I = [s \in SUBSET S |-> IF s = {} THEN 0 ELSE f[Picked(s)] + I[s \ {Picked(s)}]]

\* Of the subsets of a finite set that have a property, one has no smaller one that has it.
LEMMA LeastSubset ==
  ASSUME NEW S, IsFiniteSet(S), NEW B, B \subseteq SUBSET S, B # {}
  PROVE  \E t \in B : \A u \in B : u \subseteq t => u = t
<1>1. IsWellFoundedOn(StrictSubsetOrdering(S), FiniteSubsetsOf(S))
  BY FS_StrictSubsetOrderingWellFounded
<1>2. B \subseteq FiniteSubsetsOf(S)
  BY FS_FiniteSubsetsOfFinite
<1>3. \E x \in B : \A y \in B : ~ (<<y, x>> \in StrictSubsetOrdering(S))
  BY <1>1, <1>2, WFMin
<1> QED
  BY <1>2, <1>3 DEF StrictSubsetOrdering, FiniteSubsetsOf

LEMMA PickedIn == \A s : s # {} => Picked(s) \in s
  BY DEF Picked

\* What holds of the empty set, and of a part of S if it holds of all that is less, holds of
\* every part of S.
LEMMA PartByPart ==
  ASSUME NEW S, IsFiniteSet(S), NEW G, {} \in G,
         \A t \in SUBSET S : t # {} /\ (\A u \in SUBSET t : u # t => u \in G) => t \in G
  PROVE  \A t \in SUBSET S : t \in G
<1> DEFINE B == {t \in SUBSET S : t \notin G}
<1>1. SUFFICES ASSUME B # {} PROVE FALSE
  OBVIOUS
<1>2. B \subseteq SUBSET S
  OBVIOUS
<1> HIDE DEF B
<1>3. PICK t \in B : \A u \in B : u \subseteq t => u = t
  BY <1>1, <1>2, LeastSubset
<1>4. t \in SUBSET S /\ t \notin G /\ t # {}
  BY <1>3 DEF B
<1>5. \A u \in SUBSET t : u # t => u \in SUBSET S /\ u \notin B
  BY <1>3, <1>4
<1> QED
  BY <1>4, <1>5 DEF B

\* A finite set of integers has a greatest and a least one.
LEMMA Ends ==
  ASSUME NEW S, IsFiniteSet(S), S \subseteq Int, S # {}
  PROVE  /\ Max(S) \in S /\ \A y \in S : y <= Max(S)
         /\ Min(S) \in S /\ \A y \in S : Min(S) <= y
<1> DEFINE Top(t) == \E x \in t : \A y \in t : x >= y
           Bottom(t) == \E x \in t : \A y \in t : x =< y
           G == {t \in SUBSET S : t = {} \/ (Top(t) /\ Bottom(t))}
<1>1. {} \in G
  OBVIOUS
<1>2. ASSUME NEW t \in SUBSET S, t # {}, \A u \in SUBSET t : u # t => u \in G
      PROVE  t \in G
  <2> DEFINE p == Picked(t)
             u == t \ {p}
  <2>1. u \in SUBSET t /\ u # t /\ p \in t /\ t = u \cup {p} /\ t \subseteq Int
    BY <1>2, PickedIn
  <2> HIDE DEF p, u
  <2>2. u = {} \/ (Top(u) /\ Bottom(u))
    BY <1>2, <2>1
  <2>3. CASE u = {}
    <3>1. \A y \in t : p >= y /\ p =< y
      BY <2>1, <2>3
    <3> QED
      BY <2>1, <3>1
  <2>4. CASE Top(u) /\ Bottom(u)
    <3>1. PICK x \in u : \A y \in u : x >= y
      BY <2>4
    <3>2. PICK z \in u : \A y \in u : z =< y
      BY <2>4
    <3>3. Top(t)
      <4>1. CASE x >= p
        BY <2>1, <3>1, <4>1
      <4>2. CASE ~(x >= p)
        <5>1. \A y \in t : p >= y
          BY <2>1, <3>1, <4>2
        <5> QED
          BY <2>1, <5>1
      <4> QED
        BY <4>1, <4>2
    <3>4. Bottom(t)
      <4>1. CASE z =< p
        BY <2>1, <3>2, <4>1
      <4>2. CASE ~(z =< p)
        <5>1. \A y \in t : p =< y
          BY <2>1, <3>2, <4>2
        <5> QED
          BY <2>1, <5>1
      <4> QED
        BY <4>1, <4>2
    <3> HIDE DEF Top, Bottom
    <3> QED
      BY <3>3, <3>4
  <2> HIDE DEF Top, Bottom
  <2> QED
    BY <2>2, <2>3, <2>4
<1>3. S \in G
  <2> HIDE DEF G
  <2>1. \A t \in SUBSET S : t \in G
    BY <1>1, <1>2, PartByPart
  <2> QED
    BY <2>1
<1>4. Top(S) /\ Bottom(S)
  BY <1>3
<1>5. Max(S) \in S /\ \A y \in S : Max(S) >= y
  BY <1>4 DEF Max
<1>6. Min(S) \in S /\ \A y \in S : Min(S) =< y
  BY <1>4 DEF Min
<1> HIDE DEF Top, Bottom
<1>7. Max(S) \in Int /\ Min(S) \in Int
  BY <1>5, <1>6
<1> QED
  BY <1>5, <1>6, <1>7

\* The fold has one value.
LEMMA AddsOnce ==
  ASSUME NEW T, NEW U, IsFiniteSet(T), NEW f, NEW I, NEW J, Adds(I, f, T), Adds(J, f, U),
         NEW V, V \subseteq T, V \subseteq U
  PROVE  I[V] = J[V]
<1> DEFINE G == {t \in SUBSET V : I[t] = J[t]}
<1>1. IsFiniteSet(V)
  BY FS_Subset
<1>2. \A t \in SUBSET V : /\ I[t] = IF t = {} THEN 0 ELSE f[Picked(t)] + I[t \ {Picked(t)}]
                          /\ J[t] = IF t = {} THEN 0 ELSE f[Picked(t)] + J[t \ {Picked(t)}]
  BY DEF Adds
<1>3. {} \in G
  BY <1>2
<1>4. ASSUME NEW t \in SUBSET V, t # {}, \A u \in SUBSET t : u # t => u \in G
      PROVE  t \in G
  <2>1. t \ {Picked(t)} \in G
    BY <1>4, PickedIn
  <2> QED
    BY <1>2, <1>4, <2>1
<1> HIDE DEF G
<1>5. V \in G
  BY <1>1, <1>3, <1>4, PartByPart
<1> QED
  BY <1>5 DEF G

\* ... and it is defined.
LEMMA AddsExists ==
  ASSUME NEW S, IsFiniteSet(S), NEW f
  PROVE  \E I : Adds(I, f, S)
<1> DEFINE B == {t \in SUBSET S : ~\E I : Adds(I, f, t)}
<1>1. SUFFICES ASSUME B # {} PROVE FALSE
  OBVIOUS
<1>a. B \subseteq SUBSET S
  OBVIOUS
<1> HIDE DEF B
<1>2. PICK t \in B : \A u \in B : u \subseteq t => u = t
  BY <1>1, <1>a, LeastSubset
<1> DEFINE Fold(u) == CHOOSE I : Adds(I, f, u)
           G == [s \in SUBSET t |-> IF s = {} THEN 0 ELSE f[Picked(s)] + Fold(s \ {Picked(s)})[s \ {Picked(s)}]]
<1>3. t \subseteq S /\ ~\E I : Adds(I, f, t)
  BY <1>2 DEF B
<1>4. ASSUME NEW u \in SUBSET t, u # t PROVE Adds(Fold(u), f, u) /\ IsFiniteSet(u)
  <2>1. u \notin B /\ u \in SUBSET S
    BY <1>2, <1>3, <1>4
  <2>2. \E I : Adds(I, f, u)
    BY <2>1 DEF B
  <2> QED
    BY <2>1, <2>2, FS_Subset
<1>5. ASSUME NEW u \in SUBSET t, u # t PROVE G[u] = Fold(u)[u]
  <2>1. Adds(Fold(u), f, u)
    BY <1>4, <1>5
  <2>2. Fold(u)[u] = IF u = {} THEN 0 ELSE f[Picked(u)] + Fold(u)[u \ {Picked(u)}]
    BY <2>1 DEF Adds
  <2>3. CASE u = {}
    BY <2>2, <2>3
  <2>4. CASE u # {}
    <3> DEFINE v == u \ {Picked(u)}
    <3>1. v \in SUBSET t /\ v \subseteq u /\ v # t
      BY <1>5
    <3>2. Adds(Fold(v), f, v) /\ IsFiniteSet(v) /\ IsFiniteSet(u)
      BY <1>4, <1>5, <3>1
    <3> HIDE DEF Fold
    <3>3. Fold(u)[v] = Fold(v)[v]
      BY <2>1, <3>1, <3>2, AddsOnce
    <3> QED
      BY <2>2, <2>4, <3>3
  <2> QED
    BY <2>3, <2>4
<1> HIDE DEF Fold
<1>6. ASSUME NEW s \in SUBSET t, s # {} PROVE Fold(s \ {Picked(s)})[s \ {Picked(s)}] = G[s \ {Picked(s)}]
  <2>1. s \ {Picked(s)} \in SUBSET t /\ s \ {Picked(s)} # t
    BY <1>6, PickedIn
  <2> QED
    BY <1>5, <2>1
<1>7. Adds(G, f, t)
  <2>1. G = [s \in SUBSET t |-> IF s = {} THEN 0 ELSE f[Picked(s)] + G[s \ {Picked(s)}]]
    BY <1>6
  <2> QED
    BY <2>1 DEF Adds
<1> QED
  BY <1>3, <1>7

LEMMA SumAdds ==
  ASSUME NEW S, IsFiniteSet(S), NEW f
  PROVE  \E I : Adds(I, f, S) /\ SumFunctionOnSet(f, S) = I[S]
<1> DEFINE I == CHOOSE J : Adds(J, f, S)
<1>1. Adds(I, f, S)
  BY AddsExists
<1>2. SumFunctionOnSet(f, S) = I[S]
  BY DEF SumFunctionOnSet, FoldFunctionOnSet, MapThenFoldSet, Adds, Picked
<1> QED
  BY <1>1, <1>2

-----------------------------------------------------------------------------
(* What a sum is made of.                                                  *)

LEMMA SumEmpty == \A f : SumFunctionOnSet(f, {}) = 0
<1> SUFFICES ASSUME NEW f PROVE SumFunctionOnSet(f, {}) = 0
  OBVIOUS
<1>1. PICK I : Adds(I, f, {}) /\ SumFunctionOnSet(f, {}) = I[{}]
  BY SumAdds, FS_EmptySet
<1> QED
  BY <1>1 DEF Adds

LEMMA SumPicked ==
  ASSUME NEW S, IsFiniteSet(S), S # {}, NEW f
  PROVE  SumFunctionOnSet(f, S) = f[Picked(S)] + SumFunctionOnSet(f, S \ {Picked(S)})
<1> DEFINE u == S \ {Picked(S)}
<1>1. u \in SUBSET S /\ S \in SUBSET S /\ IsFiniteSet(u)
  BY FS_Subset
<1>2. PICK I : Adds(I, f, S) /\ SumFunctionOnSet(f, S) = I[S]
  BY SumAdds
<1> HIDE DEF u
<1>3. PICK J : Adds(J, f, u) /\ SumFunctionOnSet(f, u) = J[u]
  BY <1>1, SumAdds
<1>4. I[S] = f[Picked(S)] + I[u]
  BY <1>1, <1>2 DEF Adds, u
<1>5. I[u] = J[u]
  BY <1>1, <1>2, <1>3, AddsOnce
<1> QED
  BY <1>2, <1>3, <1>4, <1>5 DEF u

\* The sum looks at the terms of the set only.
LEMMA SumAlike ==
  ASSUME NEW S, IsFiniteSet(S), NEW f, NEW g, \A x \in S : f[x] = g[x]
  PROVE  SumFunctionOnSet(f, S) = SumFunctionOnSet(g, S)
<1> DEFINE G == {t \in SUBSET S : SumFunctionOnSet(f, t) = SumFunctionOnSet(g, t)}
<1>1. {} \in G
  BY SumEmpty
<1>2. ASSUME NEW t \in SUBSET S, t # {}, \A u \in SUBSET t : u # t => u \in G
      PROVE  t \in G
  <2> DEFINE u == t \ {Picked(t)}
  <2>1. IsFiniteSet(t) /\ IsFiniteSet(u) /\ u \in G /\ Picked(t) \in S
    BY <1>2, FS_Subset, PickedIn
  <2>2. SumFunctionOnSet(f, u) = SumFunctionOnSet(g, u) /\ f[Picked(t)] = g[Picked(t)]
    BY <1>2, <2>1
  <2> QED
    BY <1>2, <2>1, <2>2, SumPicked, ZenonT(60)
<1> HIDE DEF G
<1>3. S \in G
  BY <1>1, <1>2, PartByPart
<1> QED
  BY <1>3 DEF G

LEMMA SumInt ==
  ASSUME NEW S, IsFiniteSet(S), NEW f, \A x \in S : f[x] \in Int
  PROVE  SumFunctionOnSet(f, S) \in Int
<1> DEFINE G == {t \in SUBSET S : SumFunctionOnSet(f, t) \in Int}
<1>1. {} \in G
  BY SumEmpty
<1>2. ASSUME NEW t \in SUBSET S, t # {}, \A u \in SUBSET t : u # t => u \in G
      PROVE  t \in G
  <2> DEFINE u == t \ {Picked(t)}
  <2>1. IsFiniteSet(t) /\ IsFiniteSet(u) /\ u \in G /\ Picked(t) \in S
    BY <1>2, FS_Subset, PickedIn
  <2>2. SumFunctionOnSet(f, t) = f[Picked(t)] + SumFunctionOnSet(f, u)
    BY <1>2, <2>1, SumPicked
  <2>3. SumFunctionOnSet(f, u) \in Int /\ f[Picked(t)] \in Int
    BY <1>2, <2>1
  <2> QED
    BY <2>2, <2>3
<1> HIDE DEF G
<1>3. S \in G
  BY <1>1, <1>2, PartByPart
<1> QED
  BY <1>3 DEF G

LEMMA SumNat ==
  ASSUME NEW S, IsFiniteSet(S), NEW f, \A x \in S : f[x] \in Nat
  PROVE  SumFunctionOnSet(f, S) \in Nat
<1> DEFINE G == {t \in SUBSET S : SumFunctionOnSet(f, t) \in Nat}
<1>1. {} \in G
  BY SumEmpty
<1>2. ASSUME NEW t \in SUBSET S, t # {}, \A u \in SUBSET t : u # t => u \in G
      PROVE  t \in G
  <2> DEFINE u == t \ {Picked(t)}
  <2>1. IsFiniteSet(t) /\ IsFiniteSet(u) /\ u \in G /\ Picked(t) \in S
    BY <1>2, FS_Subset, PickedIn
  <2>2. SumFunctionOnSet(f, t) = f[Picked(t)] + SumFunctionOnSet(f, u)
    BY <1>2, <2>1, SumPicked
  <2>3. SumFunctionOnSet(f, u) \in Nat /\ f[Picked(t)] \in Nat
    BY <1>2, <2>1
  <2> QED
    BY <2>2, <2>3
<1> HIDE DEF G
<1>3. S \in G
  BY <1>1, <1>2, PartByPart
<1> QED
  BY <1>3 DEF G

\* Term by term no more: in sum no more.
LEMMA SumWithin ==
  ASSUME NEW S, IsFiniteSet(S), NEW f, NEW g,
         \A x \in S : f[x] \in Int /\ g[x] \in Int /\ f[x] <= g[x]
  PROVE  SumFunctionOnSet(f, S) <= SumFunctionOnSet(g, S)
<1> DEFINE G == {t \in SUBSET S : SumFunctionOnSet(f, t) <= SumFunctionOnSet(g, t)}
<1>1. {} \in G
  BY SumEmpty
<1>2. ASSUME NEW t \in SUBSET S, t # {}, \A u \in SUBSET t : u # t => u \in G
      PROVE  t \in G
  <2> DEFINE u == t \ {Picked(t)}
  <2>1. IsFiniteSet(t) /\ IsFiniteSet(u) /\ u \in G /\ Picked(t) \in S
    BY <1>2, FS_Subset, PickedIn
  <2>2. SumFunctionOnSet(f, u) <= SumFunctionOnSet(g, u)
    BY <2>1
  <2>3. f[Picked(t)] \in Int /\ g[Picked(t)] \in Int /\ f[Picked(t)] <= g[Picked(t)]
    BY <2>1
  <2>4. SumFunctionOnSet(f, u) \in Int /\ SumFunctionOnSet(g, u) \in Int
    BY <2>1, SumInt
  <2>5. SumFunctionOnSet(f, t) = f[Picked(t)] + SumFunctionOnSet(f, u) /\ SumFunctionOnSet(g, t) = g[Picked(t)] + SumFunctionOnSet(g, u)
    BY <1>2, <2>1, SumPicked
  <2> HIDE DEF u
  <2>6. SumFunctionOnSet(f, t) <= SumFunctionOnSet(g, t)
    BY <2>2, <2>3, <2>4, <2>5
  <2> QED
    BY <2>6
<1> HIDE DEF G
<1>3. S \in G
  BY <1>1, <1>2, PartByPart
<1> QED
  BY <1>3 DEF G

\* Two sums over one set are one.
LEMMA SumPlus ==
  ASSUME NEW S, IsFiniteSet(S), NEW f, NEW g, NEW h,
         \A x \in S : f[x] \in Int /\ g[x] \in Int /\ h[x] = f[x] + g[x]
  PROVE  SumFunctionOnSet(h, S) = SumFunctionOnSet(f, S) + SumFunctionOnSet(g, S)
<1> DEFINE G == {t \in SUBSET S : SumFunctionOnSet(h, t) = SumFunctionOnSet(f, t) + SumFunctionOnSet(g, t)}
<1>1. {} \in G
  BY SumEmpty
<1>2. ASSUME NEW t \in SUBSET S, t # {}, \A u \in SUBSET t : u # t => u \in G
      PROVE  t \in G
  <2> DEFINE u == t \ {Picked(t)}
  <2>1. IsFiniteSet(t) /\ IsFiniteSet(u) /\ u \in G /\ Picked(t) \in S
    BY <1>2, FS_Subset, PickedIn
  <2>2. SumFunctionOnSet(h, u) = SumFunctionOnSet(f, u) + SumFunctionOnSet(g, u)
    BY <2>1
  <2>3. f[Picked(t)] \in Int /\ g[Picked(t)] \in Int /\ h[Picked(t)] = f[Picked(t)] + g[Picked(t)]
    BY <2>1
  <2>4. SumFunctionOnSet(f, u) \in Int /\ SumFunctionOnSet(g, u) \in Int
    BY <2>1, SumInt
  <2>5. /\ SumFunctionOnSet(f, t) = f[Picked(t)] + SumFunctionOnSet(f, u)
        /\ SumFunctionOnSet(g, t) = g[Picked(t)] + SumFunctionOnSet(g, u)
        /\ SumFunctionOnSet(h, t) = h[Picked(t)] + SumFunctionOnSet(h, u)
    BY <1>2, <2>1, SumPicked
  <2> HIDE DEF u
  <2>6. SumFunctionOnSet(h, t) = SumFunctionOnSet(f, t) + SumFunctionOnSet(g, t)
    BY <2>2, <2>3, <2>4, <2>5
  <2> QED
    BY <2>6
<1> HIDE DEF G
<1>3. S \in G
  BY <1>1, <1>2, PartByPart
<1> QED
  BY <1>3 DEF G

\* A sum of multiples.
LEMMA TimesSum == \A k, x, y \in Int : k * (x + y) = k * x + k * y
  OBVIOUS

LEMMA SumScaled ==
  ASSUME NEW S, IsFiniteSet(S), NEW f, NEW g, NEW k \in Int,
         \A x \in S : f[x] \in Int /\ g[x] = k * f[x]
  PROVE  SumFunctionOnSet(g, S) = k * SumFunctionOnSet(f, S)
<1> DEFINE G == {t \in SUBSET S : SumFunctionOnSet(g, t) = k * SumFunctionOnSet(f, t)}
<1>1. {} \in G
  BY SumEmpty
<1>2. ASSUME NEW t \in SUBSET S, t # {}, \A u \in SUBSET t : u # t => u \in G
      PROVE  t \in G
  <2> DEFINE u == t \ {Picked(t)}
  <2>1. IsFiniteSet(t) /\ IsFiniteSet(u) /\ u \in G /\ Picked(t) \in S
    BY <1>2, FS_Subset, PickedIn
  <2>2. SumFunctionOnSet(g, u) = k * SumFunctionOnSet(f, u)
    BY <2>1
  <2>3. f[Picked(t)] \in Int /\ g[Picked(t)] = k * f[Picked(t)]
    BY <2>1
  <2>4. SumFunctionOnSet(f, u) \in Int
    BY <2>1, SumInt
  <2>5. /\ SumFunctionOnSet(f, t) = f[Picked(t)] + SumFunctionOnSet(f, u)
        /\ SumFunctionOnSet(g, t) = g[Picked(t)] + SumFunctionOnSet(g, u)
    BY <1>2, <2>1, SumPicked
  <2> HIDE DEF u
  <2>6. k * SumFunctionOnSet(f, t) = k * f[Picked(t)] + k * SumFunctionOnSet(f, u)
    BY <2>3, <2>4, <2>5, TimesSum
  <2>7. SumFunctionOnSet(g, t) = k * SumFunctionOnSet(f, t)
    BY <2>2, <2>3, <2>5, <2>6
  <2> QED
    BY <2>7
<1> HIDE DEF G
<1>3. S \in G
  BY <1>1, <1>2, PartByPart
<1> QED
  BY <1>3 DEF G

\* It does not matter which element the sum is taken apart at.
LEMMA SumRemove ==
  ASSUME NEW S, IsFiniteSet(S), NEW f, \A x \in S : f[x] \in Int, NEW x \in S
  PROVE  SumFunctionOnSet(f, S) = f[x] + SumFunctionOnSet(f, S \ {x})
<1> DEFINE G == {t \in SUBSET S : \A y \in t : SumFunctionOnSet(f, t) = f[y] + SumFunctionOnSet(f, t \ {y})}
<1>1. {} \in G
  OBVIOUS
<1>2. ASSUME NEW t \in SUBSET S, t # {}, \A u \in SUBSET t : u # t => u \in G, NEW y \in t
      PROVE  SumFunctionOnSet(f, t) = f[y] + SumFunctionOnSet(f, t \ {y})
  <2> DEFINE p == Picked(t)
             u == t \ {p}
             v == t \ {y}
             w == t \ {p, y}
  <2>1. IsFiniteSet(t) /\ p \in t /\ y \in t
    BY <1>2, FS_Subset, PickedIn
  <2>2. SumFunctionOnSet(f, t) = f[p] + SumFunctionOnSet(f, u)
    BY <1>2, <2>1, SumPicked
  <2>3. CASE y = p
    BY <2>2, <2>3
  <2>4. CASE y # p
    <3>1. SumFunctionOnSet(f, u) = f[y] + SumFunctionOnSet(f, w)
      <4>1. y \in u /\ u \ {y} = w /\ u \in G
        BY <1>2, <2>1, <2>4
      <4> QED
        BY <1>2, <4>1
    <3>2. SumFunctionOnSet(f, v) = f[p] + SumFunctionOnSet(f, w)
      <4>1. p \in v /\ v \ {p} = w /\ v \in G
        BY <1>2, <2>1, <2>4
      <4> QED
        BY <4>1
    <3>3. f[p] \in Int /\ f[y] \in Int /\ SumFunctionOnSet(f, w) \in Int
      <4>1. IsFiniteSet(w) /\ p \in S /\ y \in S /\ \A z \in w : f[z] \in Int
        BY <2>1, FS_Subset
      <4> QED
        BY <4>1, SumInt
    <3> HIDE DEF p, u, w
    <3> QED
      BY <2>2, <3>1, <3>2, <3>3 DEF v
  <2> QED
    BY <2>3, <2>4
<1> HIDE DEF G
<1>3. S \in G
  <2>1. \A t \in SUBSET S : t # {} /\ (\A u \in SUBSET t : u # t => u \in G) => t \in G
    BY <1>2 DEF G
  <2> QED
    BY <1>1, <2>1, PartByPart
<1> QED
  BY <1>3 DEF G

\* ... nor which element comes last.
LEMMA SumAdd ==
  ASSUME NEW S, IsFiniteSet(S), NEW x, x \notin S, NEW f, \A y \in S \cup {x} : f[y] \in Int
  PROVE  SumFunctionOnSet(f, S \cup {x}) = f[x] + SumFunctionOnSet(f, S)
<1>1. IsFiniteSet(S \cup {x}) /\ (S \cup {x}) \ {x} = S /\ x \in S \cup {x}
  BY FS_AddElement
<1> QED
  BY <1>1, SumRemove

\* One of the terms changes.
LEMMA SumChanged ==
  ASSUME NEW S, IsFiniteSet(S), NEW f, NEW g, NEW x \in S,
         \A y \in S : f[y] \in Int /\ g[y] \in Int, \A y \in S \ {x} : f[y] = g[y]
  PROVE  SumFunctionOnSet(g, S) = SumFunctionOnSet(f, S) + (g[x] - f[x])
<1> DEFINE u == S \ {x}
<1>1. IsFiniteSet(u) /\ u \subseteq S
  BY FS_Subset
<1>2. SumFunctionOnSet(f, S) = f[x] + SumFunctionOnSet(f, u) /\ SumFunctionOnSet(g, S) = g[x] + SumFunctionOnSet(g, u)
  BY SumRemove
<1>3. SumFunctionOnSet(f, u) = SumFunctionOnSet(g, u) /\ SumFunctionOnSet(f, u) \in Int
  BY <1>1, SumAlike, SumInt
<1> HIDE DEF u
<1> QED
  BY <1>2, <1>3

\* A part adds up to no more than the whole.
LEMMA SumOfPart ==
  ASSUME NEW S, IsFiniteSet(S), NEW f, \A x \in S : f[x] \in Nat, NEW T, T \subseteq S
  PROVE  SumFunctionOnSet(f, T) <= SumFunctionOnSet(f, S)
<1> DEFINE G == {t \in SUBSET S : SumFunctionOnSet(f, T \cap t) <= SumFunctionOnSet(f, t)}
<1>1. {} \in G
  BY SumEmpty
<1>2. ASSUME NEW t \in SUBSET S, t # {}, \A u \in SUBSET t : u # t => u \in G
      PROVE  t \in G
  <2> DEFINE p == Picked(t)
             u == t \ {p}
  <2>1. IsFiniteSet(t) /\ u \in G /\ p \in t /\ p \in S
    BY <1>2, FS_Subset, PickedIn
  <2>2. IsFiniteSet(T \cap t) /\ IsFiniteSet(T \cap u) /\ IsFiniteSet(u)
    BY FS_Subset
  <2>3. SumFunctionOnSet(f, T \cap u) \in Nat /\ SumFunctionOnSet(f, u) \in Nat /\ f[p] \in Nat
    BY <2>1, <2>2, SumNat
  <2>4. SumFunctionOnSet(f, t) = f[p] + SumFunctionOnSet(f, u)
    BY <1>2, <2>1, SumPicked
  <2>5. CASE p \in T
    <3>1. p \in T \cap t /\ (T \cap t) \ {p} = T \cap u /\ \A x \in T \cap t : f[x] \in Int
      BY <2>1, <2>5
    <3>2. SumFunctionOnSet(f, T \cap t) = f[p] + SumFunctionOnSet(f, T \cap u)
      BY <2>2, <3>1, SumRemove
    <3> QED
      BY <2>1, <2>3, <2>4, <3>2
  <2>6. CASE p \notin T
    <3>1. T \cap t = T \cap u
      BY <2>6
    <3>2. SumFunctionOnSet(f, T \cap u) <= SumFunctionOnSet(f, u)
      BY <2>1
    <3> HIDE DEF p, u
    <3>3. SumFunctionOnSet(f, T \cap u) <= SumFunctionOnSet(f, t)
      BY <2>3, <2>4, <3>2
    <3> QED
      BY <3>1, <3>3
  <2> QED
    BY <2>5, <2>6
<1> HIDE DEF G
<1>3. S \in G
  BY <1>1, <1>2, PartByPart
<1>4. T \cap S = T
  OBVIOUS
<1> QED
  BY <1>3, <1>4 DEF G

\* A sum of nothing but zeros.
LEMMA SumZero ==
  ASSUME NEW S, IsFiniteSet(S), NEW f, \A x \in S : f[x] = 0
  PROVE  SumFunctionOnSet(f, S) = 0
<1>1. \A x \in S : f[x] \in Int /\ f[x] = 0 * f[x]
  OBVIOUS
<1>2. SumFunctionOnSet(f, S) = 0 * SumFunctionOnSet(f, S)
  BY <1>1, SumScaled
<1>3. SumFunctionOnSet(f, S) \in Int
  BY <1>1, SumInt
<1> QED
  BY <1>2, <1>3

\* One place more.
LEMMA SumGrows ==
  ASSUME NEW n \in Nat, NEW f, NEW g, \A k \in 1..n : f[k] \in Int /\ g[k] = f[k], g[n + 1] \in Int
  PROVE  /\ SumFunctionOnSet(g, 1..(n + 1)) = SumFunctionOnSet(f, 1..n) + g[n + 1]
         /\ SumFunctionOnSet(f, 1..n) \in Int
<1>1. IsFiniteSet(1..n) /\ (1..n) \cup {n + 1} = 1..(n + 1) /\ n + 1 \notin 1..n
  <2>1. 1 \in Int /\ n \in Int
    OBVIOUS
  <2>2. IsFiniteSet(1..n)
    BY <2>1, FS_Interval
  <2> QED
    BY <2>2
<1>2. \A y \in (1..n) \cup {n + 1} : g[y] \in Int
  OBVIOUS
<1>3. SumFunctionOnSet(g, 1..(n + 1)) = g[n + 1] + SumFunctionOnSet(g, 1..n)
  BY <1>1, <1>2, SumAdd
<1>4. SumFunctionOnSet(g, 1..n) = SumFunctionOnSet(f, 1..n)
  BY <1>1, SumAlike
<1>5. SumFunctionOnSet(f, 1..n) \in Int
  BY <1>1, SumInt
<1> QED
  BY <1>3, <1>4, <1>5
=============================================================================
