-------------------------- MODULE FiniteInduction --------------------------
(***************************************************************************)
(* What the proofs need of induction over data: least numbers, smallest    *)
(* sets, and sums over finite sets as Functions defines them, a fold that  *)
(* takes the elements in an unspecified order. Its recursion is well       *)
(* defined and the order does not matter. An induction is an argument      *)
(* about a smallest counterexample.                                        *)
(***************************************************************************)
EXTENDS Functions, Integers, FiniteSetTheorems, WellFoundedInduction, TLAPS

-----------------------------------------------------------------------------
(* A nonempty set of naturals has a least element.                         *)
LEMMA LeastElement ==
  ASSUME NEW T \in SUBSET Nat, T # {}
  PROVE  \E m \in T : \A y \in T : m <= y
<1> DEFINE R == OpToRel(<, Nat)
<1>1. IsWellFoundedOn(R, Nat)
  BY NatLessThanWellFounded
<1>2. \A y, m \in Nat : <<y, m>> \in R <=> y < m
  BY DEF OpToRel
<1> HIDE DEF R
<1>3. PICK m \in T : \A y \in T : <<y, m>> \notin R
  BY <1>1, WFMin, Zenon
<1>4. \A y \in T : ~ (y < m)
  BY <1>2, <1>3
<1> QED
  BY <1>4

(* A nonempty set of subsets of a finite set has a smallest one.           *)
LEMMA SmallestSubset ==
  ASSUME NEW U, IsFiniteSet(U), NEW B \in SUBSET SUBSET U, B # {}
  PROVE  \E T \in B : \A R \in B : R \subseteq T => R = T
<1> DEFINE Order == StrictSubsetOrdering(U)
<1>1. IsWellFoundedOn(Order, SUBSET U)
  BY FS_StrictSubsetOrderingWellFounded, FS_FiniteSubsetsOfFinite
<1>2. \A R, T \in SUBSET U : <<R, T>> \in Order <=> R \subseteq T /\ R # T
  BY DEF StrictSubsetOrdering
<1> HIDE DEF Order
<1>3. PICK T \in B : \A R \in B : <<R, T>> \notin Order
  BY <1>1, WFMin, Zenon
<1> QED
  BY <1>2, <1>3

-----------------------------------------------------------------------------
(* The recursion of the fold.                                              *)
Some(s) == CHOOSE x \in s : TRUE
Rest(s) == s \ {Some(s)}

LEMMA SomeIsIn ==
  ASSUME NEW s, s # {}
  PROVE  Some(s) \in s
BY DEF Some

SumStep(sum, w, s) == IF s = {} THEN 0 ELSE w[Some(s)] + sum[Rest(s)]
AddsUp(sum, w, U) == sum = [s \in SUBSET U |-> SumStep(sum, w, s)]

LEMMA SumIsChosen ==
  ASSUME NEW U, NEW w
  PROVE SumFunctionOnSet(w, U) = (CHOOSE sum : AddsUp(sum, w, U))[U]
BY DEF SumFunctionOnSet, FoldFunctionOnSet, MapThenFoldSet, AddsUp, SumStep, Rest, Some

(* There is a function that satisfies the recursion: for the sets of at    *)
(* most k elements, by induction on k.                                     *)
LEMMA SumExists ==
  ASSUME NEW U, IsFiniteSet(U), NEW w
  PROVE  \E sum : AddsUp(sum, w, U)
<1> DEFINE Fits(g, k) == \A s \in SUBSET U : Cardinality(s) <= k => g[s] = SumStep(g, w, s)
           Total(g) == g = [s \in SUBSET U |-> g[s]]
           Bad == {k \in Nat : ~ \E g : Total(g) /\ Fits(g, k)}
<1>1. \A s \in SUBSET U : IsFiniteSet(s) /\ Cardinality(s) \in Nat /\ Cardinality(s) <= Cardinality(U)
  BY FS_Subset, FS_CardinalityType
<1>2. ASSUME NEW s \in SUBSET U, s # {}
      PROVE  Rest(s) \in SUBSET U /\ Cardinality(Rest(s)) = Cardinality(s) - 1
  BY <1>1, <1>2, SomeIsIn, FS_RemoveElement DEF Rest
<1>3. 0 \notin Bad
  <2> DEFINE g == [s \in SUBSET U |-> 0]
  <2>1. ASSUME NEW s \in SUBSET U, Cardinality(s) <= 0
        PROVE  g[s] = SumStep(g, w, s)
    <3>1. s = {}
      BY <1>1, <2>1, FS_EmptySet
    <3> QED
      BY <3>1 DEF SumStep
  <2>2. Total(g) /\ Fits(g, 0)
    BY <2>1
  <2> QED
    BY <2>2
<1>4. ASSUME NEW k \in Nat, k \notin Bad
      PROVE  k + 1 \notin Bad
  <2>1. PICK g : Total(g) /\ Fits(g, k)
    BY <1>4
  <2> DEFINE h == [s \in SUBSET U |-> SumStep(g, w, s)]
  <2>2. ASSUME NEW s \in SUBSET U, Cardinality(s) <= k + 1
        PROVE  h[s] = SumStep(h, w, s)
    <3>1. CASE s = {}
      BY <3>1 DEF SumStep
    <3>2. CASE s # {}
      <4>1. Rest(s) \in SUBSET U /\ Cardinality(Rest(s)) <= k
        BY <1>1, <1>2, <2>2, <3>2
      <4>2. h[Rest(s)] = g[Rest(s)]
        BY <2>1, <4>1
      <4> QED
        BY <3>2, <4>2 DEF SumStep
    <3> QED
      BY <3>1, <3>2
  <2>3. Total(h) /\ Fits(h, k + 1)
    BY <2>2
  <2> HIDE DEF h, Fits, Total
  <2> QED
    BY <2>3
<1>5. Bad = {}
  <2> HIDE DEF Bad
  <2> SUFFICES ASSUME Bad # {} PROVE FALSE
    OBVIOUS
  <2>1. Bad \in SUBSET Nat
    BY DEF Bad
  <2>2. PICK m \in Bad : \A y \in Bad : m <= y
    BY <2>1, LeastElement
  <2>3. m \in Nat /\ m # 0
    BY <1>3, <2>1
  <2>4. m - 1 \in Nat /\ m - 1 \notin Bad
    BY <2>1, <2>2, <2>3
  <2> QED
    BY <1>4, <2>3, <2>4
<1>6. PICK g : Total(g) /\ Fits(g, Cardinality(U))
  BY <1>1, <1>5
<1>7. \A s \in SUBSET U : g[s] = SumStep(g, w, s)
  BY <1>1, <1>6
<1>8. g = [s \in SUBSET U |-> SumStep(g, w, s)]
  BY <1>6, <1>7
<1> QED
  BY <1>8 DEF AddsUp

(* What satisfies the recursion on a set gives the sums of its subsets.    *)
LEMMA SumsAgree ==
  ASSUME NEW U, IsFiniteSet(U), NEW S \in SUBSET U, NEW w,
         NEW g, AddsUp(g, w, S), NEW h, AddsUp(h, w, U)
  PROVE  \A T \in SUBSET S : g[T] = h[T]
<1> DEFINE Bad == {T \in SUBSET S : g[T] # h[T]}
<1> SUFFICES ASSUME Bad # {} PROVE FALSE
  OBVIOUS
<1>1. IsFiniteSet(S)
  BY FS_Subset
<1>2. PICK T \in Bad : \A R \in Bad : R \subseteq T => R = T
  <2> HIDE DEF Bad
  <2>1. Bad \in SUBSET SUBSET S
    BY DEF Bad
  <2> QED
    BY <1>1, <2>1, SmallestSubset
<1>3. g[T] = SumStep(g, w, T) /\ h[T] = SumStep(h, w, T)
  BY DEF AddsUp
<1>4. T # {}
  BY <1>3 DEF SumStep
<1>5. Rest(T) \in SUBSET S /\ Rest(T) \subseteq T /\ Rest(T) # T
  BY <1>4, SomeIsIn DEF Rest
<1>6. g[Rest(T)] = h[Rest(T)]
  BY <1>2, <1>5
<1> QED
  BY <1>3, <1>4, <1>6 DEF SumStep

LEMMA SumIs ==
  ASSUME NEW U, IsFiniteSet(U), NEW S \in SUBSET U, NEW w, NEW h, AddsUp(h, w, U)
  PROVE  SumFunctionOnSet(w, S) = h[S]
<1>1. IsFiniteSet(S)
  BY FS_Subset
<1> DEFINE g == CHOOSE sum : AddsUp(sum, w, S)
<1>2. AddsUp(g, w, S)
  BY <1>1, SumExists
<1>3. SumFunctionOnSet(w, S) = g[S]
  BY SumIsChosen
<1> HIDE DEF g
<1> QED
  BY <1>2, <1>3, SumsAgree

LEMMA SumUnfolds ==
  ASSUME NEW S, IsFiniteSet(S), NEW w
  PROVE  /\ SumFunctionOnSet(w, {}) = 0
         /\ S # {} => SumFunctionOnSet(w, S) = w[Some(S)] + SumFunctionOnSet(w, Rest(S))
<1>1. PICK h : AddsUp(h, w, S)
  BY SumExists
<1>2. \A T \in SUBSET S : SumFunctionOnSet(w, T) = h[T]
  BY <1>1, SumIs
<1>3. \A T \in SUBSET S : h[T] = SumStep(h, w, T)
  BY <1>1 DEF AddsUp
<1>4. Rest(S) \in SUBSET S
  BY DEF Rest
<1> QED
  BY <1>2, <1>3, <1>4 DEF SumStep

-----------------------------------------------------------------------------
(* The facts about sums that proofs use.                                   *)
LEMMA SumIsNat ==
  ASSUME NEW S, IsFiniteSet(S), NEW w, \A x \in S : w[x] \in Nat
  PROVE  SumFunctionOnSet(w, S) \in Nat
<1> DEFINE Bad == {T \in SUBSET S : SumFunctionOnSet(w, T) \notin Nat}
<1> SUFFICES ASSUME Bad # {} PROVE FALSE
  OBVIOUS
<1>1. PICK T \in Bad : \A R \in Bad : R \subseteq T => R = T
  <2> HIDE DEF Bad
  <2>1. Bad \in SUBSET SUBSET S
    BY DEF Bad
  <2> QED
    BY <2>1, SmallestSubset
<1>2. IsFiniteSet(T)
  BY FS_Subset
<1>3. T # {}
  <2>1. SumFunctionOnSet(w, {}) = 0
    BY SumUnfolds
  <2> QED
    BY <2>1
<1>4. Some(T) \in T /\ Rest(T) \in SUBSET S /\ Rest(T) \subseteq T /\ Rest(T) # T
  BY <1>3, SomeIsIn DEF Rest
<1>5. SumFunctionOnSet(w, Rest(T)) \in Nat
  BY <1>1, <1>4
<1>6. SumFunctionOnSet(w, T) = w[Some(T)] + SumFunctionOnSet(w, Rest(T))
  BY <1>2, <1>3, SumUnfolds
<1> QED
  BY <1>4, <1>5, <1>6

LEMMA SumOfEqual ==
  ASSUME NEW S, IsFiniteSet(S), NEW w, NEW v, \A x \in S : w[x] = v[x]
  PROVE  SumFunctionOnSet(w, S) = SumFunctionOnSet(v, S)
<1> DEFINE Bad == {T \in SUBSET S : SumFunctionOnSet(w, T) # SumFunctionOnSet(v, T)}
<1> SUFFICES ASSUME Bad # {} PROVE FALSE
  OBVIOUS
<1>1. PICK T \in Bad : \A R \in Bad : R \subseteq T => R = T
  <2> HIDE DEF Bad
  <2>1. Bad \in SUBSET SUBSET S
    BY DEF Bad
  <2> QED
    BY <2>1, SmallestSubset
<1>2. IsFiniteSet(T)
  BY FS_Subset
<1>3. T # {}
  BY <1>2, SumUnfolds
<1>4. Some(T) \in T /\ Rest(T) \in SUBSET S /\ Rest(T) \subseteq T /\ Rest(T) # T
  BY <1>3, SomeIsIn DEF Rest
<1>5. SumFunctionOnSet(w, Rest(T)) = SumFunctionOnSet(v, Rest(T))
  BY <1>1, <1>4
<1>6. /\ SumFunctionOnSet(w, T) = w[Some(T)] + SumFunctionOnSet(w, Rest(T))
      /\ SumFunctionOnSet(v, T) = v[Some(T)] + SumFunctionOnSet(v, Rest(T))
  BY <1>2, <1>3, SumUnfolds
<1> QED
  BY <1>4, <1>5, <1>6

(* Any element may be taken out first.                                     *)
LEMMA SumWithout ==
  ASSUME NEW S, IsFiniteSet(S), NEW w, \A x \in S : w[x] \in Nat
  PROVE  \A x \in S : SumFunctionOnSet(w, S) = w[x] + SumFunctionOnSet(w, S \ {x})
<1> DEFINE Sum(T) == SumFunctionOnSet(w, T)
           Bad == {T \in SUBSET S : \E x \in T : Sum(T) # w[x] + Sum(T \ {x})}
<1> SUFFICES ASSUME Bad # {} PROVE FALSE
  OBVIOUS
<1>1. PICK T \in Bad : \A R \in Bad : R \subseteq T => R = T
  <2> HIDE DEF Bad
  <2>1. Bad \in SUBSET SUBSET S
    BY DEF Bad
  <2> QED
    BY <2>1, SmallestSubset
<1>2. PICK x \in T : Sum(T) # w[x] + Sum(T \ {x})
  OBVIOUS
<1> DEFINE c == Some(T)
           R == T \ {c}
<1>3. \A Q \in SUBSET S : IsFiniteSet(Q) /\ Sum(Q) \in Nat
  BY FS_Subset, SumIsNat
<1>4. c \in T /\ Sum(T) = w[c] + Sum(R)
  <2>1. T \in SUBSET S /\ T # {} /\ IsFiniteSet(T)
    BY <1>2, <1>3
  <2> QED
    BY <2>1, SumUnfolds, SomeIsIn DEF Rest
<1>5. x # c
  BY <1>2, <1>4
<1>6. Sum(R) = w[x] + Sum(R \ {x})
  <2>1. R \in SUBSET S /\ R \subseteq T /\ R # T /\ x \in R
    BY <1>2, <1>4, <1>5
  <2> QED
    BY <1>1, <2>1
<1>7. Sum(T \ {x}) = w[c] + Sum((T \ {x}) \ {c})
  <2>1. T \ {x} \in SUBSET S /\ T \ {x} \subseteq T /\ T \ {x} # T /\ c \in T \ {x}
    BY <1>2, <1>4, <1>5
  <2> QED
    BY <1>1, <2>1
<1>8. (T \ {x}) \ {c} = R \ {x}
  OBVIOUS
<1>9. w[c] \in Nat /\ w[x] \in Nat /\ Sum(R \ {x}) \in Nat
  BY <1>2, <1>3, <1>4
<1> HIDE DEF Sum, c, R
<1> QED
  BY <1>2, <1>4, <1>6, <1>7, <1>8, <1>9

LEMMA SumOfZeros ==
  ASSUME NEW S, IsFiniteSet(S), NEW w, \A x \in S : w[x] = 0
  PROVE  SumFunctionOnSet(w, S) = 0
<1> DEFINE Bad == {T \in SUBSET S : SumFunctionOnSet(w, T) # 0}
<1> SUFFICES ASSUME Bad # {} PROVE FALSE
  OBVIOUS
<1>1. PICK T \in Bad : \A R \in Bad : R \subseteq T => R = T
  <2> HIDE DEF Bad
  <2>1. Bad \in SUBSET SUBSET S
    BY DEF Bad
  <2> QED
    BY <2>1, SmallestSubset
<1>2. IsFiniteSet(T) /\ T # {}
  BY SumUnfolds, FS_Subset
<1>3. Some(T) \in T /\ Rest(T) \in SUBSET S /\ Rest(T) \subseteq T /\ Rest(T) # T
  BY <1>2, SomeIsIn DEF Rest
<1>4. SumFunctionOnSet(w, Rest(T)) = 0
  BY <1>1, <1>3
<1> QED
  BY <1>2, <1>3, <1>4, SumUnfolds

(* The sum changes by what one element changes.                            *)
LEMMA SumChanged ==
  ASSUME NEW S, IsFiniteSet(S), NEW x \in S,
         NEW w, \A y \in S : w[y] \in Nat,
         NEW v, v[x] \in Nat, \A y \in S \ {x} : v[y] = w[y]
  PROVE  SumFunctionOnSet(v, S) + w[x] = SumFunctionOnSet(w, S) + v[x]
<1>1. IsFiniteSet(S \ {x})
  BY FS_Subset
<1>2. SumFunctionOnSet(v, S \ {x}) = SumFunctionOnSet(w, S \ {x})
  BY <1>1, SumOfEqual
<1>3. SumFunctionOnSet(w, S \ {x}) \in Nat
  BY <1>1, SumIsNat
<1>4. SumFunctionOnSet(w, S) = w[x] + SumFunctionOnSet(w, S \ {x})
  BY SumWithout
<1>5. \A y \in S : v[y] \in Nat
  OBVIOUS
<1>6. SumFunctionOnSet(v, S) = v[x] + SumFunctionOnSet(v, S \ {x})
  BY <1>5, SumWithout
<1> QED
  BY <1>2, <1>3, <1>4, <1>6

(* One more element adds itself.                                           *)
LEMMA SumExtended ==
  ASSUME NEW S, IsFiniteSet(S), NEW x, x \notin S,
         NEW w, \A y \in S : w[y] \in Nat,
         NEW v, v[x] \in Nat, \A y \in S : v[y] = w[y]
  PROVE  SumFunctionOnSet(v, S \cup {x}) = SumFunctionOnSet(w, S) + v[x]
<1> DEFINE T == S \cup {x}
<1>1. IsFiniteSet(T) /\ T \ {x} = S /\ \A y \in T : v[y] \in Nat
  BY FS_AddElement
<1>2. SumFunctionOnSet(v, T) = v[x] + SumFunctionOnSet(v, S)
  <2> HIDE DEF T
  <2>1. x \in T
    BY DEF T
  <2>2. SumFunctionOnSet(v, T) = v[x] + SumFunctionOnSet(v, T \ {x})
    BY <1>1, <2>1, SumWithout
  <2> QED
    BY <1>1, <2>2
<1>3. SumFunctionOnSet(v, S) = SumFunctionOnSet(w, S)
  BY SumOfEqual
<1>4. SumFunctionOnSet(w, S) \in Nat
  BY SumIsNat
<1> QED
  BY <1>2, <1>3, <1>4
=============================================================================
