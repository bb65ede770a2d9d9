----------------------------- MODULE SumProofs -----------------------------
(***************************************************************************)
(* Facts about least elements and about the sum of a function, which the   *)
(* fleet-wide counts of the runner and of the metrics are stated with.     *)
(* Induction is had from the well-foundedness of <: what is claimed is     *)
(* written as a set of naturals, without an operator as a parameter.       *)
(***************************************************************************)
EXTENDS Integers, Functions, FiniteSetTheorems, WellFoundedInduction, TLAPS

-----------------------------------------------------------------------------
(***************************************************************************)
(* The naturals are well ordered.                                          *)
(***************************************************************************)

\* Every set of naturals that is not empty has a least element.
LEMMA LeastElement ==
    ASSUME NEW T, T \subseteq Nat, T # {}
    PROVE  \E x \in T : \A y \in T : x <= y
<1> DEFINE R == OpToRel(<, Nat)
<1>1. IsWellFoundedOn(R, Nat)
  BY NatLessThanWellFounded
<1>2. \A x, y \in Nat : y < x => <<y, x>> \in R
  BY DEF OpToRel
<1> HIDE DEF R
<1>3. PICK x \in T : \A y \in T : ~ (<<y, x>> \in R)
  BY <1>1, WFMin
<1>4. ASSUME NEW y \in T PROVE x <= y
  <2>1. x \in Nat /\ y \in Nat
    OBVIOUS
  <2>2. ~ (y < x)
    BY <1>2, <1>3, <2>1
  <2> QED
    BY <2>1, <2>2
<1> QED
  BY <1>4

\* A set that holds 0, and with every number its successor, holds all naturals.
LEMMA AllNaturals ==
    ASSUME NEW P, 0 \in P, \A n \in Nat : n \in P => n + 1 \in P
    PROVE  Nat \subseteq P
<1> SUFFICES ASSUME Nat \ P # {} PROVE FALSE
  OBVIOUS
<1>1. PICK m \in Nat \ P : \A y \in Nat \ P : m <= y
  BY LeastElement
<1>2. m - 1 \in Nat
  BY <1>1
<1>3. m - 1 \in P
  BY <1>1, <1>2
<1> QED
  BY <1>1, <1>2, <1>3

-----------------------------------------------------------------------------
(***************************************************************************)
(* The recursion behind SumFunction.                                       *)
(***************************************************************************)
First(s) == CHOOSE x \in s : TRUE

IsFold(h, f) ==
    h = [s \in SUBSET (DOMAIN f) |-> IF s = {} THEN 0 ELSE f[First(s)] + h[s \ {First(s)}]]

\* The element that the fold takes first is one of the set.
LEMMA FirstOf == \A s : s # {} => First(s) \in s
  BY DEF First

\* What is left of a finite set without its first element is smaller by one.
LEMMA Smaller ==
    ASSUME NEW S, IsFiniteSet(S), NEW n \in Nat
    PROVE  /\ \A s \in SUBSET S : IsFiniteSet(s) /\ Cardinality(s) \in Nat
           /\ \A s \in SUBSET S : Cardinality(s) = 0 => s = {}
           /\ \A s \in SUBSET S : Cardinality(s) = n + 1 =>
                /\ s # {} /\ First(s) \in s
                /\ s \ {First(s)} \in SUBSET S
                /\ Cardinality(s \ {First(s)}) = n
<1>1. ASSUME NEW s \in SUBSET S
      PROVE  IsFiniteSet(s) /\ Cardinality(s) \in Nat /\ (Cardinality(s) = 0 => s = {})
  <2>1. IsFiniteSet(s)
    BY FS_Subset
  <2> QED
    BY <2>1, FS_CardinalityType, FS_EmptySet
<1>2. ASSUME NEW s \in SUBSET S, Cardinality(s) = n + 1
      PROVE  /\ s # {} /\ First(s) \in s
             /\ s \ {First(s)} \in SUBSET S
             /\ Cardinality(s \ {First(s)}) = n
  <2>1. s # {}
    BY <1>2, FS_EmptySet
  <2>2. First(s) \in s
    BY <2>1, FirstOf
  <2>3. Cardinality(s \ {First(s)}) = Cardinality(s) - 1
    BY <1>1, <2>2, FS_RemoveElement
  <2> QED
    BY <1>2, <2>1, <2>2, <2>3
<1> QED
  BY <1>1, <1>2

\* The recursion has a solution: up to every cardinality, by induction.
LEMMA FoldExists ==
    ASSUME NEW f, IsFiniteSet(DOMAIN f)
    PROVE  \E h : IsFold(h, f)
<1> DEFINE D == DOMAIN f
           Next(h) == [s \in SUBSET D |->
                          IF s = {} THEN 0 ELSE f[First(s)] + h[s \ {First(s)}]]
           Upto(n, h) == \A s \in SUBSET D : Cardinality(s) <= n => h[s] = Next(h)[s]
           P == {n \in Nat : \E h : Upto(n, h)}
<1>0. \A s \in SUBSET D : IsFiniteSet(s) /\ Cardinality(s) \in Nat
  BY Smaller, 0 \in Nat
<1>1. 0 \in P
  <2> DEFINE h == [s \in SUBSET D |-> 0]
  <2>1. ASSUME NEW s \in SUBSET D, Cardinality(s) <= 0 PROVE s = {}
    <3>1. Cardinality(s) = 0
      BY <1>0, <2>1
    <3> QED
      BY <3>1, Smaller, 0 \in Nat
  <2>2. Upto(0, h)
    BY <2>1
  <2> QED
    BY <2>2
<1>2. ASSUME NEW n \in Nat, n \in P PROVE n + 1 \in P
  <2>1. PICK h : Upto(n, h)
    BY <1>2
  <2> DEFINE g == Next(h)
  <2>2. ASSUME NEW s \in SUBSET D, Cardinality(s) <= n + 1 PROVE g[s] = Next(g)[s]
    <3>1. CASE s = {}
      BY <3>1
    <3>2. CASE s # {}
      <4> DEFINE t == s \ {First(s)}
      <4>1. Cardinality(s) # 0
        BY <1>0, <3>2, FS_EmptySet
      <4>2. PICK k \in Nat : Cardinality(s) = k + 1
        <5>1. Cardinality(s) - 1 \in Nat /\ Cardinality(s) = (Cardinality(s) - 1) + 1
          BY <1>0, <4>1
        <5> QED
          BY <5>1
      <4>3. t \in SUBSET D /\ Cardinality(t) = k
        BY <4>2, Smaller
      <4>4. h[t] = g[t]
        <5>1. Cardinality(t) <= n
          BY <2>2, <4>2, <4>3
        <5> QED
          BY <2>1, <4>3, <5>1
      <4>5. g[s] = f[First(s)] + h[t] /\ Next(g)[s] = f[First(s)] + g[t]
        BY <3>2
      <4> QED
        BY <4>4, <4>5
    <3> QED
      BY <3>1, <3>2
  <2>3. \E g1 : Upto(n + 1, g1)
    BY <2>2
  <2> HIDE DEF g, Upto
  <2> QED
    BY <2>3
<1>3. Cardinality(D) \in Nat
  BY FS_CardinalityType
<1> HIDE DEF P
<1>4. Cardinality(D) \in P
  BY <1>1, <1>2, <1>3, AllNaturals
<1> USE DEF P
<1>5. PICK h : Upto(Cardinality(D), h)
  BY <1>4
<1> DEFINE g == Next(h)
<1>6. \A s \in SUBSET D : h[s] = g[s]
  <2>1. \A s \in SUBSET D : Cardinality(s) <= Cardinality(D)
    BY FS_Subset
  <2> QED
    BY <1>5, <2>1
<1>7. \A s \in SUBSET D : s \ {First(s)} \in SUBSET D
  OBVIOUS
<1>8. g = Next(g)
  BY <1>6, <1>7
<1> QED
  BY <1>8 DEF IsFold

\* SumFunction is the value of such a fold on the whole domain.
LEMMA SumIs ==
    ASSUME NEW f, IsFiniteSet(DOMAIN f)
    PROVE  \E h : IsFold(h, f) /\ SumFunction(f) = h[DOMAIN f]
<1> DEFINE h == CHOOSE h : IsFold(h, f)
<1>1. IsFold(h, f)
  BY FoldExists
<1>2. SumFunction(f) = h[DOMAIN f]
  BY DEF SumFunction, SumFunctionOnSet, FoldFunctionOnSet, MapThenFoldSet, IsFold, First
<1> QED
  BY <1>1, <1>2

-----------------------------------------------------------------------------
(***************************************************************************)
(* What the sum of a function is, and how it moves with the function.      *)
(***************************************************************************)

\* Induction over the subsets of a finite set, in the order of the recursion.
LEMMA AllSubsets ==
    ASSUME NEW D, IsFiniteSet(D), NEW Q, {} \in Q,
           \A s \in SUBSET D : s # {} /\ s \ {First(s)} \in Q => s \in Q
    PROVE  SUBSET D \subseteq Q
<1> DEFINE P == {n \in Nat : \A s \in SUBSET D : Cardinality(s) = n => s \in Q}
<1>1. 0 \in P
  BY Smaller, 0 \in Nat
<1>2. ASSUME NEW n \in Nat, n \in P PROVE n + 1 \in P
  <2>1. ASSUME NEW s \in SUBSET D, Cardinality(s) = n + 1 PROVE s \in Q
    <3>1. s # {} /\ s \ {First(s)} \in SUBSET D /\ Cardinality(s \ {First(s)}) = n
      BY <2>1, Smaller
    <3>2. s \ {First(s)} \in Q
      BY <1>2, <3>1
    <3> QED
      BY <3>1, <3>2
  <2> QED
    BY <2>1
<1> HIDE DEF P
<1>3. Nat \subseteq P
  BY <1>1, <1>2, AllNaturals
<1>4. ASSUME NEW s \in SUBSET D PROVE s \in Q
  <2>1. Cardinality(s) \in Nat
    BY Smaller, 0 \in Nat
  <2>2. Cardinality(s) \in P
    BY <1>3, <2>1
  <2> QED
    BY <2>2 DEF P
<1> QED
  BY <1>4

\* A fold of naturals, unrolled by one element.
LEMMA FoldStep ==
    ASSUME NEW D, NEW f \in [D -> Nat], NEW h, IsFold(h, f)
    PROVE  /\ h[{}] = 0
           /\ \A s \in SUBSET D : s # {} => h[s] = f[First(s)] + h[s \ {First(s)}]
<1>1. DOMAIN f = D
  OBVIOUS
<1>2. h = [s \in SUBSET D |-> IF s = {} THEN 0 ELSE f[First(s)] + h[s \ {First(s)}]]
  BY <1>1 DEF IsFold
<1>3. \A s \in SUBSET D : h[s] = IF s = {} THEN 0 ELSE f[First(s)] + h[s \ {First(s)}]
  BY <1>2
<1> QED
  BY <1>3, {} \in SUBSET D

\* A sum of naturals is a natural, and no term exceeds it.
LEMMA SumType ==
    ASSUME NEW D, IsFiniteSet(D), NEW f \in [D -> Nat]
    PROVE  SumFunction(f) \in Nat /\ \A x \in D : f[x] <= SumFunction(f)
<1>1. PICK h : IsFold(h, f) /\ SumFunction(f) = h[D]
  BY SumIs
<1> DEFINE Q == {s \in SUBSET D : h[s] \in Nat /\ \A x \in s : f[x] <= h[s]}
<1>2. {} \in Q
  BY <1>1, FoldStep
<1>3. ASSUME NEW s \in SUBSET D, s # {}, s \ {First(s)} \in Q PROVE s \in Q
  <2> DEFINE a == First(s)
             t == s \ {a}
  <2>1. a \in s /\ h[s] = f[a] + h[t]
    BY <1>1, <1>3, FoldStep, FirstOf
  <2>2. f[a] \in Nat /\ h[t] \in Nat /\ \A x \in t : f[x] <= h[t]
    BY <1>3, <2>1
  <2>3. ASSUME NEW x \in s PROVE f[x] <= h[s]
    <3>1. f[x] \in Nat /\ (x = a \/ f[x] <= h[t])
      BY <2>2
    <3> HIDE DEF a, t
    <3> QED
      BY <2>1, <2>2, <3>1
  <2> QED
    BY <2>1, <2>2, <2>3
<1> HIDE DEF Q
<1>4. D \in Q
  BY <1>2, <1>3, AllSubsets
<1> QED
  BY <1>1, <1>4 DEF Q

\* The sum of zeros.
LEMMA SumZero ==
    ASSUME NEW D, IsFiniteSet(D), NEW f \in [D -> Nat], \A x \in D : f[x] = 0
    PROVE  SumFunction(f) = 0
<1>1. PICK h : IsFold(h, f) /\ SumFunction(f) = h[D]
  BY SumIs
<1> DEFINE Q == {s \in SUBSET D : h[s] = 0}
<1>2. {} \in Q
  BY <1>1, FoldStep
<1>3. ASSUME NEW s \in SUBSET D, s # {}, s \ {First(s)} \in Q PROVE s \in Q
  <2>1. First(s) \in s /\ h[s] = f[First(s)] + h[s \ {First(s)}]
    BY <1>1, <1>3, FoldStep, FirstOf
  <2> QED
    BY <1>3, <2>1
<1> HIDE DEF Q
<1>4. D \in Q
  BY <1>2, <1>3, AllSubsets
<1> QED
  BY <1>1, <1>4 DEF Q

\* Functions that differ in one place have sums that differ by as much.
LEMMA SumPlus ==
    ASSUME NEW D, IsFiniteSet(D), NEW f \in [D -> Nat], NEW g \in [D -> Nat], NEW a \in D,
           \A x \in D : x # a => g[x] = f[x]
    PROVE  SumFunction(g) + f[a] = SumFunction(f) + g[a]
<1>1. PICK h : IsFold(h, f) /\ SumFunction(f) = h[D]
  BY SumIs
<1>2. PICK k : IsFold(k, g) /\ SumFunction(g) = k[D]
  BY SumIs
<1> DEFINE Q == {s \in SUBSET D : /\ h[s] \in Nat /\ k[s] \in Nat
                                  /\ a \notin s => k[s] = h[s]
                                  /\ a \in s => k[s] + f[a] = h[s] + g[a]}
<1>3. {} \in Q
  BY <1>1, <1>2, FoldStep
<1>4. ASSUME NEW s \in SUBSET D, s # {}, s \ {First(s)} \in Q PROVE s \in Q
  <2> DEFINE b == First(s)
             t == s \ {b}
  <2>1. b \in s /\ h[s] = f[b] + h[t] /\ k[s] = g[b] + k[t]
    BY <1>1, <1>2, <1>4, FoldStep, FirstOf
  <2>2. /\ f[b] \in Nat /\ g[b] \in Nat /\ f[a] \in Nat /\ g[a] \in Nat
        /\ h[t] \in Nat /\ k[t] \in Nat
        /\ b # a => g[b] = f[b]
    BY <1>4, <2>1
  <2>3. CASE b = a
    <3>1. k[t] = h[t] /\ a \in s
      BY <1>4, <2>1, <2>3
    <3> HIDE DEF b, t
    <3> QED
      BY <2>1, <2>2, <2>3, <3>1
  <2>4. CASE b # a
    <3>1. /\ a \notin s => k[t] = h[t]
          /\ a \in s => k[t] + f[a] = h[t] + g[a]
      BY <1>4, <2>1, <2>4
    <3> HIDE DEF b, t
    <3> QED
      BY <2>1, <2>2, <2>4, <3>1
  <2> QED
    BY <2>3, <2>4
<1> HIDE DEF Q
<1>5. D \in Q
  BY <1>3, <1>4, AllSubsets
<1> QED
  BY <1>1, <1>2, <1>5 DEF Q

\* A finite set that falls into parts has as many members as they have.
LEMMA SumOfParts ==
    ASSUME NEW D, IsFiniteSet(D), NEW f \in [D -> Nat],
           NEW T, IsFiniteSet(T), NEW part \in [T -> D],
           \A d \in D : f[d] = Cardinality({i \in T : part[i] = d})
    PROVE  SumFunction(f) = Cardinality(T)
<1>1. PICK h : IsFold(h, f) /\ SumFunction(f) = h[D]
  BY SumIs
<1> DEFINE In(s) == {i \in T : part[i] \in s}
           Q == {s \in SUBSET D : h[s] = Cardinality(In(s))}
<1>2. {} \in Q
  <2>1. In({}) = {}
    OBVIOUS
  <2> QED
    BY <1>1, <2>1, FoldStep, FS_EmptySet
<1>3. ASSUME NEW s \in SUBSET D, s # {}, s \ {First(s)} \in Q PROVE s \in Q
  <2> DEFINE a == First(s)
             t == s \ {a}
             P == {i \in T : part[i] = a}
  <2>1. a \in s /\ h[s] = f[a] + h[t]
    BY <1>1, <1>3, FoldStep, FirstOf
  <2>2. h[t] = Cardinality(In(t)) /\ f[a] = Cardinality(P)
    BY <1>3, <2>1
  <2>3. In(s) = In(t) \cup P /\ In(t) \cap P = {}
    BY <2>1
  <2>4. IsFiniteSet(In(t)) /\ IsFiniteSet(P)
    <3>1. In(t) \subseteq T /\ P \subseteq T
      OBVIOUS
    <3> HIDE DEF In, P
    <3> QED
      BY <3>1, FS_Subset
  <2> HIDE DEF In, P
  <2>5. Cardinality(In(s)) = Cardinality(In(t)) + Cardinality(P)
    <3>1. Cardinality(In(t) \cup P) =
            Cardinality(In(t)) + Cardinality(P) - Cardinality(In(t) \cap P)
      BY <2>4, FS_Union
    <3>2. Cardinality(In(t) \cap P) = 0
      BY <2>3, FS_EmptySet
    <3>3. Cardinality(In(t)) \in Nat /\ Cardinality(P) \in Nat
      BY <2>4, FS_CardinalityType
    <3>4. Cardinality(In(t) \cup P) = Cardinality(In(t)) + Cardinality(P)
      <4> DEFINE x == Cardinality(In(t))
                 y == Cardinality(P)
                 z == Cardinality(In(t) \cap P)
      <4>1. x + y - z = x + y
        <5>1. x \in Nat /\ y \in Nat /\ z = 0
          BY <3>2, <3>3
        <5> HIDE DEF x, y, z
        <5> QED
          BY <5>1
      <4> QED
        BY <3>1, <4>1
    <3> QED
      BY <2>3, <3>4
  <2>6. Cardinality(In(t)) \in Nat /\ Cardinality(P) \in Nat
    BY <2>4, FS_CardinalityType
  <2>7. h[s] = Cardinality(In(s))
    BY <2>1, <2>2, <2>5, <2>6
  <2> QED
    BY <2>7
<1> HIDE DEF Q
<1>4. D \in Q
  BY <1>2, <1>3, AllSubsets
<1>5. In(D) = T
  OBVIOUS
<1> QED
  BY <1>1, <1>4, <1>5 DEF Q

=============================================================================
