------------------------------ MODULE Induction ------------------------------
(***************************************************************************)
(* Induction over the natural numbers for a set of them, and what follows  *)
(* for sums over finite sets.  The library's induction theorems take the   *)
(* statement as an operator; here it is the set of the numbers that satisfy *)
(* it, which the provers can instantiate, and the least number outside of  *)
(* that set is the counterexample that cannot be (WFMin).  A sum is what   *)
(* MapThenFoldSet of Folds computes with +, by the recursive function on   *)
(* subsets that it defines: that the function exists is proved first.      *)
(***************************************************************************)
EXTENDS Integers, FiniteSets, Folds, FiniteSetTheorems, WellFoundedInduction, TLAPS

(* A set of numbers that is not empty has a least one. *)
LEMMA LeastNat ==
  ASSUME NEW S \in SUBSET Nat, S # {}
  PROVE  \E m \in S : \A k \in S : m <= k
<1>1. IsWellFoundedOn(OpToRel(<, Nat), Nat)
  BY NatLessThanWellFounded
<1>2. PICK m \in S : \A k \in S : <<k, m>> \notin OpToRel(<, Nat)
  BY <1>1, WFMin
<1>3. \A k \in S : k \in Nat /\ m \in Nat /\ ~(k < m)
  BY <1>2 DEF OpToRel
<1> QED BY <1>3

(* A set with 0 and the successors of its numbers has every number. *)
LEMMA SetInduction ==
  ASSUME NEW S, 0 \in S, \A n \in Nat : n \in S => n + 1 \in S
  PROVE  \A n \in Nat : n \in S
<1> DEFINE Out == Nat \ S
<1> SUFFICES ASSUME Out # {} PROVE FALSE
  OBVIOUS
<1>1. PICK m \in Out : \A k \in Out : m <= k
  BY LeastNat
<1>2. m # 0 /\ m - 1 \in Nat /\ m - 1 \notin Out
  BY <1>1
<1> QED BY <1>1, <1>2

-----------------------------------------------------------------------------
(* Sums of natural numbers over a finite set: what MapThenFoldSet computes. *)

Total(f, S) ==
  LET iter[s \in SUBSET S] ==
        IF s = {} THEN 0 ELSE LET x == CHOOSE x \in s : TRUE IN f[x] + iter[s \ {x}]
  IN  iter[S]

(* The element a fold over s takes. *)
Pick(s) == CHOOSE x \in s : TRUE

(* g is the sum of f over each subset of S. *)
Sums(f, S, g) ==
  g = [s \in SUBSET S |-> IF s = {} THEN 0 ELSE f[Pick(s)] + g[s \ {Pick(s)}]]

(* The element a fold takes next is one of the set. *)
LEMMA PickIn == ASSUME NEW s, s # {} PROVE Pick(s) \in s
BY DEF Pick

(* The finite sets a fold meets on its way. *)
LEMMA SmallerSet ==
  ASSUME NEW S, IsFiniteSet(S), NEW s \in SUBSET S
  PROVE  /\ IsFiniteSet(s) /\ Cardinality(s) \in Nat /\ Cardinality(s) <= Cardinality(S)
         /\ (Cardinality(s) = 0 <=> s = {})
         /\ \A x \in s : s \ {x} \in SUBSET S /\ Cardinality(s \ {x}) = Cardinality(s) - 1
<1>1. IsFiniteSet(s) /\ Cardinality(s) <= Cardinality(S)
  BY FS_Subset
<1> QED BY <1>1, FS_CardinalityType, FS_EmptySet, FS_RemoveElement

(* The recursive function that a fold defines exists: by induction on the size
   of the sets, extending it one size at a time. *)
LEMMA SumsExist ==
  ASSUME NEW S, IsFiniteSet(S), NEW f
  PROVE  \E g : Sums(f, S, g)
<1> DEFINE Value(g, s) == IF s = {} THEN 0 ELSE f[Pick(s)] + g[s \ {Pick(s)}]
           UpTo(g, n) == \A s \in SUBSET S : Cardinality(s) <= n => g[s] = Value(g, s)
           Good == {n \in Nat : \E g : g = [s \in SUBSET S |-> g[s]] /\ UpTo(g, n)}
<1>1. 0 \in Good
  <2> DEFINE g == [s \in SUBSET S |-> 0]
  <2>1. g = [s \in SUBSET S |-> g[s]]
    OBVIOUS
  <2>2. UpTo(g, 0)
    BY SmallerSet
  <2> QED BY <2>1, <2>2
<1>2. ASSUME NEW n \in Nat, n \in Good PROVE n + 1 \in Good
  <2>1. PICK g : UpTo(g, n)
    BY <1>2
  <2> DEFINE h == [s \in SUBSET S |-> IF Cardinality(s) = n + 1 THEN Value(g, s) ELSE g[s]]
  <2>2. h = [s \in SUBSET S |-> h[s]]
    OBVIOUS
  <2>3. ASSUME NEW s \in SUBSET S, Cardinality(s) <= n + 1 PROVE h[s] = Value(h, s)
    <3>1. CASE s = {}
      <4>1. Cardinality(s) = 0
        BY <3>1, FS_EmptySet
      <4> QED BY <2>1, <3>1, <4>1
    <3>2. CASE s # {}
      <4> DEFINE t == s \ {Pick(s)}
      <4>1. Pick(s) \in s
        BY <3>2, PickIn
      <4>2. t \in SUBSET S /\ Cardinality(t) = Cardinality(s) - 1 /\ Cardinality(s) \in Nat
        BY <4>1, SmallerSet
      <4>3. h[t] = g[t]
        BY <2>3, <4>2
      <4>4. h[s] = Value(g, s)
        BY <2>1, <2>3, <4>2
      <4> HIDE DEF h
      <4> QED BY <3>2, <4>3, <4>4
    <3> QED BY <3>1, <3>2
  <2>4. UpTo(h, n + 1)
    BY <2>3
  <2> HIDE DEF h, UpTo
  <2> QED BY <2>2, <2>4
<1> HIDE DEF Good
<1>3. Cardinality(S) \in Good
  <2>1. \A n \in Nat : n \in Good
    BY <1>1, <1>2, SetInduction
  <2> QED BY <2>1, FS_CardinalityType
<1>4. PICK g : g = [s \in SUBSET S |-> g[s]] /\ UpTo(g, Cardinality(S))
  BY <1>3 DEF Good
<1>5. \A s \in SUBSET S : g[s] = Value(g, s)
  BY <1>4, SmallerSet
<1> QED BY <1>4, <1>5 DEF Sums

(* A sum is the value of that function. *)
LEMMA TotalIsSum ==
  ASSUME NEW S, IsFiniteSet(S), NEW f
  PROVE  \E g : Sums(f, S, g) /\ Total(f, S) = g[S]
<1> DEFINE g == CHOOSE h : Sums(f, S, h)
<1>1. Sums(f, S, g)
  BY SumsExist
<1>2. Total(f, S) = g[S]
  BY DEF Total, Sums, Pick
<1> QED BY <1>1, <1>2

(* Sums of functions that agree on a set agree there, whatever larger set
   either is defined over. *)
LEMMA SumsAgree ==
  ASSUME NEW S, IsFiniteSet(S), NEW T \in SUBSET S, NEW f, NEW e, \A x \in T : e[x] = f[x],
         NEW g, Sums(f, S, g), NEW h, Sums(e, T, h)
  PROVE  g[T] = h[T]
<1> DEFINE Good == {n \in Nat : \A s \in SUBSET T : Cardinality(s) = n => g[s] = h[s]}
<1>0. ASSUME NEW s \in SUBSET T
      PROVE  /\ g[s] = IF s = {} THEN 0 ELSE f[Pick(s)] + g[s \ {Pick(s)}]
             /\ h[s] = IF s = {} THEN 0 ELSE e[Pick(s)] + h[s \ {Pick(s)}]
  BY DEF Sums
<1>1. 0 \in Good
  BY <1>0, SmallerSet
<1>2. ASSUME NEW n \in Nat, n \in Good PROVE n + 1 \in Good
  <2> SUFFICES ASSUME NEW s \in SUBSET T, Cardinality(s) = n + 1 PROVE g[s] = h[s]
    OBVIOUS
  <2>1. s # {} /\ s \in SUBSET S
    BY SmallerSet
  <2>2. Pick(s) \in s
    BY <2>1, PickIn
  <2>3. s \ {Pick(s)} \in SUBSET T /\ Cardinality(s \ {Pick(s)}) = n
    BY <2>1, <2>2, SmallerSet
  <2>4. g[s \ {Pick(s)}] = h[s \ {Pick(s)}]
    BY <1>2, <2>3
  <2> QED BY <1>0, <2>1, <2>2, <2>4
<1> HIDE DEF Good
<1>3. Cardinality(T) \in Good
  <2>1. \A n \in Nat : n \in Good
    BY <1>1, <1>2, SetInduction
  <2> QED BY <2>1, SmallerSet
<1> QED BY <1>3 DEF Good

(* A sum depends only on the values over its set. *)
LEMMA TotalCongruent ==
  ASSUME NEW S, IsFiniteSet(S), NEW f, NEW e, \A x \in S : e[x] = f[x]
  PROVE  Total(e, S) = Total(f, S)
<1>1. PICK g : Sums(f, S, g) /\ Total(f, S) = g[S]
  BY TotalIsSum
<1>2. PICK h : Sums(e, S, h) /\ Total(e, S) = h[S]
  BY TotalIsSum
<1> QED BY <1>1, <1>2, SumsAgree

(* The sum over no elements. *)
LEMMA TotalEmpty == ASSUME NEW f PROVE Total(f, {}) = 0
<1>1. PICK g : Sums(f, {}, g) /\ Total(f, {}) = g[{}]
  BY TotalIsSum, FS_EmptySet
<1> QED BY <1>1 DEF Sums

(* A sum is that of the element taken first and of the rest. *)
LEMMA TotalPicks ==
  ASSUME NEW S, IsFiniteSet(S), S # {}, NEW f
  PROVE  Total(f, S) = f[Pick(S)] + Total(f, S \ {Pick(S)})
<1> DEFINE T == S \ {Pick(S)}
<1>1. PICK g : Sums(f, S, g) /\ Total(f, S) = g[S]
  BY TotalIsSum
<1>2. IsFiniteSet(T) /\ T \in SUBSET S
  BY FS_Subset
<1>3. PICK h : Sums(f, T, h) /\ Total(f, T) = h[T]
  BY <1>2, TotalIsSum
<1>4. g[T] = h[T]
  BY <1>1, <1>2, <1>3, SumsAgree
<1>5. g[S] = f[Pick(S)] + g[T]
  BY <1>1 DEF Sums
<1> QED BY <1>1, <1>3, <1>4, <1>5

(* A sum does not depend on the order in which the set is emptied. *)
LEMMA TotalSplits ==
  ASSUME NEW U, IsFiniteSet(U), NEW f, \A x \in U : f[x] \in Nat
  PROVE  /\ Total(f, U) \in Nat
         /\ \A x \in U : Total(f, U) = f[x] + Total(f, U \ {x})
<1> DEFINE Splits(S) == /\ Total(f, S) \in Nat
                        /\ \A x \in S : Total(f, S) = f[x] + Total(f, S \ {x})
           Good == {n \in Nat : \A S \in SUBSET U : Cardinality(S) <= n => Splits(S)}
<1>1. 0 \in Good
  <2>1. ASSUME NEW S \in SUBSET U, Cardinality(S) <= 0 PROVE Splits(S)
    <3>1. S = {}
      BY <2>1, SmallerSet
    <3> QED BY <3>1, TotalEmpty
  <2> HIDE DEF Splits
  <2> QED BY <2>1
<1>2. ASSUME NEW n \in Nat, n \in Good PROVE n + 1 \in Good
  <2>1. ASSUME NEW S \in SUBSET U, Cardinality(S) = n + 1 PROVE Splits(S)
    <3> DEFINE p == Pick(S)
    <3>1. IsFiniteSet(S) /\ S # {}
      BY <2>1, SmallerSet
    <3>2. p \in S /\ Total(f, S) = f[p] + Total(f, S \ {p})
      BY <3>1, PickIn, TotalPicks
    <3>3. ASSUME NEW x \in S PROVE S \ {x} \in SUBSET U /\ Splits(S \ {x})
      <4>1. S \ {x} \in SUBSET U /\ Cardinality(S \ {x}) = n
        BY <2>1, SmallerSet
      <4> HIDE DEF Splits
      <4> QED BY <1>2, <4>1
    <3>4. Total(f, S) \in Nat
      <4>1. f[p] \in Nat /\ Total(f, S \ {p}) \in Nat
        BY <3>2, <3>3
      <4> QED BY <3>2, <4>1
    <3>5. ASSUME NEW x \in S, x # p PROVE Total(f, S) = f[x] + Total(f, S \ {x})
      <4> DEFINE R == S \ {p, x}
      <4>1. (S \ {p}) \ {x} = R /\ (S \ {x}) \ {p} = R /\ x \in S \ {p} /\ p \in S \ {x}
        BY <3>2, <3>5
      <4>2. Total(f, S \ {p}) = f[x] + Total(f, R) /\ Total(f, S \ {p}) \in Nat
        BY <3>2, <3>3, <4>1
      <4>3. Total(f, S \ {x}) = f[p] + Total(f, R) /\ Total(f, S \ {x}) \in Nat
        BY <3>3, <4>1
      <4>4. Total(f, R) \in Nat
        <5>1. IsFiniteSet(R) /\ Cardinality(R) = n - 1 /\ n - 1 \in Nat
          <6>1. Cardinality(S \ {p}) = n /\ IsFiniteSet(S \ {p}) /\ S \ {p} \in SUBSET U
            BY <2>1, <3>2, <3>3, SmallerSet
          <6> QED BY <4>1, <6>1, SmallerSet
        <5>2. R \in SUBSET U
          OBVIOUS
        <5> HIDE DEF R
        <5> QED BY <1>2, <5>1, <5>2
      <4>5. f[p] \in Nat /\ f[x] \in Nat
        BY <3>2
      <4> HIDE DEF p, R
      <4> QED BY <3>2, <4>2, <4>3, <4>4, <4>5
    <3> HIDE DEF p
    <3> QED BY <3>2, <3>4, <3>5
  <2> HIDE DEF Splits
  <2>2. ASSUME NEW S \in SUBSET U, Cardinality(S) <= n + 1 PROVE Splits(S)
    <3>1. Cardinality(S) \in Nat
      BY SmallerSet
    <3> QED BY <1>2, <2>1, <2>2, <3>1
  <2> QED BY <2>2
<1> HIDE DEF Good
<1>3. Cardinality(U) \in Good
  <2>1. \A n \in Nat : n \in Good
    BY <1>1, <1>2, SetInduction
  <2> QED BY <2>1, FS_CardinalityType
<1> QED BY <1>3 DEF Good

(* The sum of zeros. *)
LEMMA TotalZero ==
  ASSUME NEW U, IsFiniteSet(U), NEW f, \A x \in U : f[x] = 0
  PROVE  Total(f, U) = 0
<1> DEFINE Good == {n \in Nat : \A S \in SUBSET U : Cardinality(S) = n => Total(f, S) = 0}
<1>1. 0 \in Good
  BY TotalEmpty, SmallerSet
<1>2. ASSUME NEW n \in Nat, n \in Good PROVE n + 1 \in Good
  <2> SUFFICES ASSUME NEW S \in SUBSET U, Cardinality(S) = n + 1 PROVE Total(f, S) = 0
    OBVIOUS
  <2>1. IsFiniteSet(S) /\ S # {}
    BY SmallerSet
  <2>2. Pick(S) \in S /\ Total(f, S) = f[Pick(S)] + Total(f, S \ {Pick(S)})
    BY <2>1, PickIn, TotalPicks
  <2>3. S \ {Pick(S)} \in SUBSET U /\ Cardinality(S \ {Pick(S)}) = n
    BY <2>2, SmallerSet
  <2> QED BY <1>2, <2>2, <2>3
<1> HIDE DEF Good
<1>3. Cardinality(U) \in Good
  <2>1. \A n \in Nat : n \in Good
    BY <1>1, <1>2, SetInduction
  <2> QED BY <2>1, FS_CardinalityType
<1> QED BY <1>3 DEF Good

(* Sums are ordered as their functions are, scaled by any factor. *)
LEMMA TotalBound ==
  ASSUME NEW U, IsFiniteSet(U), NEW k \in Nat, NEW f, NEW e,
         \A x \in U : f[x] \in Nat /\ e[x] \in Nat /\ f[x] <= k * e[x]
  PROVE  Total(f, U) <= k * Total(e, U)
<1> DEFINE Bounded(S) == Total(f, S) <= k * Total(e, S)
           Good == {n \in Nat : \A S \in SUBSET U : Cardinality(S) = n => Bounded(S)}
<1>1. 0 \in Good
  <2>1. ASSUME NEW S \in SUBSET U, Cardinality(S) = 0 PROVE Bounded(S)
    <3>1. Total(f, S) = 0 /\ Total(e, S) = 0
      BY <2>1, SmallerSet, TotalEmpty
    <3> QED BY <3>1
  <2> HIDE DEF Bounded
  <2> QED BY <2>1
<1>2. ASSUME NEW n \in Nat, n \in Good PROVE n + 1 \in Good
  <2>1. ASSUME NEW S \in SUBSET U, Cardinality(S) = n + 1 PROVE Bounded(S)
    <3> DEFINE p == Pick(S)
               T == S \ {p}
    <3>1. IsFiniteSet(S) /\ S # {}
      BY <2>1, SmallerSet
    <3>2. p \in S
      BY <3>1, PickIn
    <3>3. T \in SUBSET U /\ IsFiniteSet(T) /\ Cardinality(T) = n
      BY <2>1, <3>1, <3>2, SmallerSet, FS_RemoveElement
    <3>4. Total(f, S) = f[p] + Total(f, T) /\ Total(e, S) = e[p] + Total(e, T)
      BY <3>1, TotalPicks
    <3>5. Total(f, T) \in Nat /\ Total(e, T) \in Nat
      <4>1. \A x \in T : f[x] \in Nat /\ e[x] \in Nat
        OBVIOUS
      <4> HIDE DEF T
      <4> QED BY <3>3, <4>1, TotalSplits
    <3>6. Total(f, T) <= k * Total(e, T)
      BY <1>2, <3>3
    <3>7. f[p] \in Nat /\ e[p] \in Nat /\ f[p] <= k * e[p]
      BY <3>2
    <3> HIDE DEF p, T
    <3>8. k * (e[p] + Total(e, T)) = k * e[p] + k * Total(e, T)
      BY <3>5, <3>7
    <3>9. k * e[p] \in Nat /\ k * Total(e, T) \in Nat
      BY <3>5, <3>7
    <3> QED BY <3>4, <3>5, <3>6, <3>7, <3>8, <3>9
  <2> HIDE DEF Bounded
  <2> QED BY <2>1
<1> HIDE DEF Good
<1>3. Cardinality(U) \in Good
  <2>1. \A n \in Nat : n \in Good
    BY <1>1, <1>2, SetInduction
  <2> QED BY <2>1, FS_CardinalityType
<1> QED BY <1>3 DEF Good

(* Sums are ordered as their functions are. *)
LEMMA TotalGrows ==
  ASSUME NEW U, IsFiniteSet(U), NEW f, NEW e,
         \A x \in U : f[x] \in Nat /\ e[x] \in Nat /\ f[x] <= e[x]
  PROVE  Total(f, U) <= Total(e, U)
<1>1. Total(e, U) \in Nat
  BY TotalSplits
<1>2. \A x \in U : f[x] \in Nat /\ e[x] \in Nat /\ f[x] <= 1 * e[x]
  OBVIOUS
<1>3. Total(f, U) <= 1 * Total(e, U)
  BY <1>2, TotalBound
<1> QED BY <1>1, <1>3

(* A function that grows, in one place by v, has its sum grow by v. *)
LEMMA TotalRaise ==
  ASSUME NEW U, IsFiniteSet(U), NEW f, NEW e,
         \A x \in U : f[x] \in Nat /\ e[x] \in Nat /\ f[x] <= e[x],
         NEW m \in U, NEW v \in Nat, f[m] + v <= e[m]
  PROVE  Total(f, U) + v <= Total(e, U)
<1> DEFINE T == U \ {m}
<1>1. IsFiniteSet(T)
  BY FS_RemoveElement
<1>2. \A x \in T : f[x] \in Nat /\ e[x] \in Nat /\ f[x] <= e[x]
  OBVIOUS
<1>3. Total(f, U) = f[m] + Total(f, T) /\ Total(e, U) = e[m] + Total(e, T)
  BY TotalSplits
<1> HIDE DEF T
<1>4. Total(f, T) <= Total(e, T) /\ Total(f, T) \in Nat /\ Total(e, T) \in Nat
  BY <1>1, <1>2, TotalGrows, TotalSplits
<1>5. f[m] \in Nat /\ e[m] \in Nat
  OBVIOUS
<1> QED BY <1>3, <1>4, <1>5

(* A subset's sum is no larger. *)
LEMMA TotalSubset ==
  ASSUME NEW U, IsFiniteSet(U), NEW T \in SUBSET U, NEW f, \A x \in U : f[x] \in Nat
  PROVE  Total(f, T) <= Total(f, U)
<1> DEFINE Within(S) == Total(f, S \cap T) <= Total(f, S)
           Good == {n \in Nat : \A S \in SUBSET U : Cardinality(S) = n => Within(S)}
<1>0. ASSUME NEW S \in SUBSET U
      PROVE  Total(f, S) \in Nat /\ \A x \in S : Total(f, S) = f[x] + Total(f, S \ {x})
  <2>1. IsFiniteSet(S) /\ \A x \in S : f[x] \in Nat
    BY SmallerSet
  <2> QED BY <2>1, TotalSplits
<1>1. 0 \in Good
  <2>1. ASSUME NEW S \in SUBSET U, Cardinality(S) = 0 PROVE Within(S)
    <3>1. S = {} /\ S \cap T = {}
      BY <2>1, SmallerSet
    <3> QED BY <3>1, TotalEmpty
  <2> HIDE DEF Within
  <2> QED BY <2>1
<1>2. ASSUME NEW n \in Nat, n \in Good PROVE n + 1 \in Good
  <2>1. ASSUME NEW S \in SUBSET U, Cardinality(S) = n + 1 PROVE Within(S)
    <3>1. IsFiniteSet(S) /\ S # {}
      BY <2>1, SmallerSet
    <3>2. PICK p \in S : TRUE
      BY <3>1
    <3> DEFINE R == S \ {p}
    <3>3. R \in SUBSET U /\ Cardinality(R) = n
      BY <2>1, <3>2, SmallerSet
    <3>4. Within(R)
      BY <1>2, <3>3
    <3>5. Total(f, S) = f[p] + Total(f, R) /\ Total(f, R) \in Nat /\ f[p] \in Nat
      <4>1. Total(f, R) \in Nat
        BY <1>0, <3>3
      <4> QED BY <1>0, <4>1
    <3>6. CASE p \in T
      <4>1. (S \cap T) \ {p} = R \cap T /\ S \cap T \in SUBSET U /\ p \in S \cap T /\ R \cap T \in SUBSET U
        BY <3>6
      <4>2. Total(f, S \cap T) = f[p] + Total(f, R \cap T) /\ Total(f, R \cap T) \in Nat
        BY <1>0, <4>1
      <4> HIDE DEF R
      <4> QED BY <3>4, <3>5, <4>2
    <3>7. CASE p \notin T
      <4>1. S \cap T = R \cap T /\ R \cap T \in SUBSET U
        BY <3>7
      <4>2. Total(f, R \cap T) \in Nat /\ Total(f, S \cap T) = Total(f, R \cap T)
        BY <1>0, <4>1
      <4> HIDE DEF R
      <4> QED BY <3>4, <3>5, <4>2
    <3> QED BY <3>6, <3>7
  <2> HIDE DEF Within
  <2> QED BY <2>1
<1> HIDE DEF Good
<1>3. Cardinality(U) \in Good
  <2>1. \A n \in Nat : n \in Good
    BY <1>1, <1>2, SetInduction
  <2> QED BY <2>1, FS_CardinalityType
<1>4. U \cap T = T
  OBVIOUS
<1> QED BY <1>3, <1>4 DEF Good

(* A sum grows with its function and with its set. *)
LEMMA TotalExceeds ==
  ASSUME NEW U, IsFiniteSet(U), NEW T \in SUBSET U, NEW f, NEW e,
         \A x \in T : f[x] \in Nat /\ f[x] <= e[x], \A x \in U : e[x] \in Nat
  PROVE  Total(f, T) <= Total(e, U)
<1>1. IsFiniteSet(T)
  BY SmallerSet
<1>2. Total(f, T) \in Nat /\ Total(e, T) \in Nat /\ Total(e, U) \in Nat
  <2>1. \A x \in T : e[x] \in Nat /\ f[x] \in Nat
    OBVIOUS
  <2> QED BY <1>1, <2>1, TotalSplits
<1>3. Total(f, T) <= Total(e, T)
  BY <1>1, TotalGrows
<1>4. Total(e, T) <= Total(e, U)
  BY TotalSubset
<1> QED BY <1>2, <1>3, <1>4

(* A finite set of numbers has a greatest one. *)
LEMMA GreatestOf ==
  ASSUME NEW U, IsFiniteSet(U), U # {}, \A x \in U : x \in Nat
  PROVE  \E m \in U : \A y \in U : m >= y
<1> DEFINE HasMax(S) == S # {} => \E m \in S : \A y \in S : m >= y
           Good == {n \in Nat : \A S \in SUBSET U : Cardinality(S) = n => HasMax(S)}
<1>1. 0 \in Good
  BY SmallerSet
<1>2. ASSUME NEW n \in Nat, n \in Good PROVE n + 1 \in Good
  <2>1. ASSUME NEW S \in SUBSET U, Cardinality(S) = n + 1 PROVE HasMax(S)
    <3>0. IsFiniteSet(S) /\ S # {}
      BY <2>1, SmallerSet
    <3>1. PICK x \in S : TRUE
      BY <3>0
    <3> DEFINE T == S \ {x}
    <3>2. T \in SUBSET U /\ Cardinality(T) = n
      BY <2>1, SmallerSet
    <3>3. HasMax(T)
      BY <1>2, <3>2
    <3>4. CASE T = {}
      BY <3>4
    <3>5. CASE T # {}
      <4>1. PICK m \in T : \A y \in T : m >= y
        BY <3>3, <3>5
      <4>2. x \in Nat /\ \A y \in S : y \in Nat
        OBVIOUS
      <4>3. CASE m >= x
        BY <4>1, <4>3
      <4>4. CASE ~(m >= x)
        BY <4>1, <4>2, <4>4
      <4> QED BY <4>3, <4>4
    <3> QED BY <3>4, <3>5
  <2> HIDE DEF HasMax
  <2> QED BY <2>1
<1> HIDE DEF Good
<1>3. Cardinality(U) \in Good
  <2>1. \A n \in Nat : n \in Good
    BY <1>1, <1>2, SetInduction
  <2> QED BY <2>1, FS_CardinalityType
<1> QED BY <1>3 DEF Good
=============================================================================
