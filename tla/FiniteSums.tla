----------------------------- MODULE FiniteSums -----------------------------
(***************************************************************************)
(* Sums over finite sets: the books of the accounts, the rooms and the     *)
(* runs are sums, and a step changes one summand or adds one.              *)
(*                                                                         *)
(* SumFunctionOnSet is defined by a recursion on the set.  The proofs go   *)
(* by induction on its cardinality, which rests on the well-foundedness of *)
(* the natural numbers: a set of naturals that is not empty has a least    *)
(* element, so one that holds 0 and every successor of its members is Nat. *)
(***************************************************************************)
EXTENDS Integers, FiniteSets, FiniteSetsExt, FiniteSetTheorems, WellFoundedInduction, TLAPS

\* Well-ordering.
LEMMA LeastNatural ==
    ASSUME NEW T \in SUBSET Nat, T # {}
    PROVE  \E n \in T : \A k \in T : n <= k
<1>1. PICK n \in T : \A k \in T : <<k, n>> \notin OpToRel(<, Nat)
  BY WFMin, NatLessThanWellFounded
<1>2. \A k \in T : ~(k < n)
  BY <1>1 DEF OpToRel
<1> QED BY <1>2

\* Induction, for a set of naturals.
LEMMA InductionOnSet ==
    ASSUME NEW T \in SUBSET Nat, 0 \in T, \A n \in T : n + 1 \in T
    PROVE  T = Nat
<1> SUFFICES ASSUME Nat \ T # {} PROVE FALSE
  OBVIOUS
<1>1. PICK n \in Nat \ T : \A k \in Nat \ T : n <= k
  BY LeastNatural
<1>2. n # 0 /\ n - 1 \in T
  BY <1>1
<1> QED BY <1>1, <1>2

\* What one step of the sum does, as a function of the sums of smaller sets.
SumStep(f, g, s) ==
    IF s = {} THEN 0 ELSE LET x == CHOOSE e \in s : TRUE IN f[x] + g[s \ {x}]

IsSum(f, S, g) == g = [s \in SUBSET S |-> SumStep(f, g, s)]

\* What the induction needs of the subsets of a finite set.
LEMMA SubsetsOfFinite ==
    ASSUME NEW S, IsFiniteSet(S), NEW s \in SUBSET S
    PROVE  /\ IsFiniteSet(s) /\ Cardinality(s) \in Nat
           /\ \A x \in s : /\ s \ {x} \in SUBSET S
                           /\ Cardinality(s \ {x}) = Cardinality(s) - 1
           /\ Cardinality(s) = 0 <=> s = {}
  BY FS_Subset, FS_CardinalityType, FS_RemoveElement, FS_EmptySet

\* The recursion has a solution, so the CHOOSE that defines the sum is one.
LEMMA SumRecursion ==
    ASSUME NEW f, NEW S, IsFiniteSet(S)
    PROVE  \E g : IsSum(f, S, g) /\ SumFunctionOnSet(f, S) = g[S]
<1> DEFINE Upto(n, g) == /\ g = [s \in SUBSET S |-> g[s]]
                         /\ \A s \in SUBSET S : Cardinality(s) <= n => g[s] = SumStep(f, g, s)
           T == {n \in Nat : \E g : Upto(n, g)}
<1>1. 0 \in T
  <2>1. Upto(0, [s \in SUBSET S |-> 0])
    BY SubsetsOfFinite DEF SumStep
  <2> QED BY <2>1
<1>2. \A n \in T : n + 1 \in T
  <2> SUFFICES ASSUME NEW n \in Nat, NEW g, Upto(n, g)
               PROVE  n + 1 \in T
    OBVIOUS
  <2> DEFINE h == [s \in SUBSET S |-> SumStep(f, g, s)]
  <2>1. ASSUME NEW s \in SUBSET S, Cardinality(s) <= n + 1
        PROVE  h[s] = SumStep(f, h, s)
    <3>1. CASE s = {}
      BY <3>1 DEF SumStep
    <3>2. CASE s # {}
      <4> DEFINE x == CHOOSE e \in s : TRUE
      <4>1. x \in s
        BY <3>2
      <4>2. s \ {x} \in SUBSET S /\ Cardinality(s \ {x}) <= n
        BY <2>1, <4>1, SubsetsOfFinite
      <4>3. h[s \ {x}] = g[s \ {x}]
        BY <4>2
      <4> QED BY <3>2, <4>3 DEF SumStep
    <3> QED BY <3>1, <3>2
  <2>2. h = [s \in SUBSET S |-> h[s]]
    OBVIOUS
  <2> HIDE DEF h
  <2>3. Upto(n + 1, h)
    BY <2>1, <2>2
  <2> HIDE DEF Upto
  <2> QED BY <2>3
<1>3. Cardinality(S) \in T
  <2>1. T \in SUBSET Nat
    OBVIOUS
  <2> HIDE DEF T
  <2> QED BY <1>1, <1>2, <2>1, FS_CardinalityType, InductionOnSet
<1>4. PICK g : g = [s \in SUBSET S |-> g[s]] /\ \A s \in SUBSET S : g[s] = SumStep(f, g, s)
  BY <1>3, FS_Subset
<1> DEFINE iter == CHOOSE i : i = [s \in SUBSET S |-> SumStep(f, i, s)]
<1>5. iter = [s \in SUBSET S |-> SumStep(f, iter, s)]
  <2>1. g = [s \in SUBSET S |-> SumStep(f, g, s)]
    BY <1>4
  <2> QED BY <2>1
<1>6. SumFunctionOnSet(f, S) = iter[S]
  BY DEF SumFunctionOnSet, FoldFunctionOnSet, MapThenFoldSet, SumStep
<1> QED BY <1>5, <1>6 DEF IsSum

\* It has one solution only, whatever set the recursion is over.
LEMMA SumsAgree ==
    ASSUME NEW f, NEW S, IsFiniteSet(S), NEW R \in SUBSET S,
           NEW g, IsSum(f, S, g), NEW h, IsSum(f, R, h)
    PROVE  \A s \in SUBSET R : h[s] = g[s]
<1> DEFINE T == {n \in Nat : \A s \in SUBSET R : Cardinality(s) <= n => h[s] = g[s]}
<1>1. 0 \in T
  BY SubsetsOfFinite DEF IsSum, SumStep
<1>2. \A n \in T : n + 1 \in T
  <2> SUFFICES ASSUME NEW n \in T, NEW s \in SUBSET R, Cardinality(s) <= n + 1
               PROVE  h[s] = g[s]
    OBVIOUS
  <2>0. CASE s = {}
    BY <2>0 DEF IsSum, SumStep
  <2> SUFFICES ASSUME s # {} PROVE h[s] = g[s]
    BY <2>0
  <2> DEFINE x == CHOOSE e \in s : TRUE
  <2>1. x \in s
    OBVIOUS
  <2>2. h[s \ {x}] = g[s \ {x}]
    BY <2>1, SubsetsOfFinite
  <2>3. h[s] = f[x] + h[s \ {x}] /\ g[s] = f[x] + g[s \ {x}]
    BY DEF IsSum, SumStep
  <2> QED BY <2>2, <2>3
<1>3. T = Nat
  <2> HIDE DEF T
  <2> QED BY <1>1, <1>2, InductionOnSet DEF T
<1> QED BY <1>3, SubsetsOfFinite

\* The sum over the empty set.
LEMMA SumOfNone ==
    ASSUME NEW f
    PROVE  SumFunctionOnSet(f, {}) = 0
<1>1. PICK g : IsSum(f, {}, g) /\ SumFunctionOnSet(f, {}) = g[{}]
  BY SumRecursion, FS_EmptySet
<1> QED BY <1>1 DEF IsSum, SumStep

\* The recursion of the definition: the element taken out is the chosen one.
LEMMA SumOfChosen ==
    ASSUME NEW f, NEW S, IsFiniteSet(S), S # {}
    PROVE  \E x \in S : SumFunctionOnSet(f, S) = f[x] + SumFunctionOnSet(f, S \ {x})
<1>1. PICK g : IsSum(f, S, g) /\ SumFunctionOnSet(f, S) = g[S]
  BY SumRecursion
<1> DEFINE x == CHOOSE e \in S : TRUE
<1>2. x \in S /\ IsFiniteSet(S \ {x})
  BY FS_RemoveElement
<1>3. PICK h : IsSum(f, S \ {x}, h) /\ SumFunctionOnSet(f, S \ {x}) = h[S \ {x}]
  BY <1>2, SumRecursion
<1>4. h[S \ {x}] = g[S \ {x}]
  BY <1>1, <1>3, SumsAgree
<1>5. g[S] = f[x] + g[S \ {x}]
  BY <1>1 DEF IsSum, SumStep
<1> QED BY <1>1, <1>2, <1>3, <1>4, <1>5

\* A sum of integers is an integer.
LEMMA SumIsInteger ==
    ASSUME NEW f, NEW S, IsFiniteSet(S), \A x \in S : f[x] \in Int
    PROVE  SumFunctionOnSet(f, S) \in Int
<1> DEFINE T == {n \in Nat : \A s \in SUBSET S :
                     Cardinality(s) <= n => SumFunctionOnSet(f, s) \in Int}
<1>1. 0 \in T
  <2>1. \A s \in SUBSET S : Cardinality(s) <= 0 => s = {}
    BY SubsetsOfFinite
  <2> QED BY <2>1, SumOfNone
<1>2. \A n \in T : n + 1 \in T
  <2> SUFFICES ASSUME NEW n \in T, NEW s \in SUBSET S, Cardinality(s) <= n + 1, s # {}
               PROVE  SumFunctionOnSet(f, s) \in Int
    BY SumOfNone
  <2>1. PICK x \in s : SumFunctionOnSet(f, s) = f[x] + SumFunctionOnSet(f, s \ {x})
    BY SubsetsOfFinite, SumOfChosen
  <2>2. SumFunctionOnSet(f, s \ {x}) \in Int
    BY SubsetsOfFinite
  <2> QED BY <2>1, <2>2
<1>3. T = Nat
  <2> HIDE DEF T
  <2> QED BY <1>1, <1>2, InductionOnSet DEF T
<1> QED BY <1>3, SubsetsOfFinite

\* Any element may be taken out of a sum.
LEMMA SumWithout ==
    ASSUME NEW f, NEW S, IsFiniteSet(S), \A x \in S : f[x] \in Int
    PROVE  \A x \in S : SumFunctionOnSet(f, S) = f[x] + SumFunctionOnSet(f, S \ {x})
<1> DEFINE T == {n \in Nat : \A s \in SUBSET S : Cardinality(s) <= n =>
                     \A x \in s : SumFunctionOnSet(f, s) = f[x] + SumFunctionOnSet(f, s \ {x})}
<1>1. 0 \in T
  BY SubsetsOfFinite
<1>2. \A n \in T : n + 1 \in T
  <2> SUFFICES ASSUME NEW n \in T, NEW s \in SUBSET S, Cardinality(s) <= n + 1, NEW x \in s
               PROVE  SumFunctionOnSet(f, s) = f[x] + SumFunctionOnSet(f, s \ {x})
    OBVIOUS
  <2>1. PICK c \in s : SumFunctionOnSet(f, s) = f[c] + SumFunctionOnSet(f, s \ {c})
    BY SubsetsOfFinite, SumOfChosen
  <2>2. CASE c # x
    <3> DEFINE both == (s \ {c}) \ {x}
    <3>1. SumFunctionOnSet(f, s \ {c}) = f[x] + SumFunctionOnSet(f, both)
      BY <2>2, SubsetsOfFinite
    <3>2. SumFunctionOnSet(f, s \ {x}) = f[c] + SumFunctionOnSet(f, both)
      <4>1. (s \ {x}) \ {c} = both
        OBVIOUS
      <4>2. SumFunctionOnSet(f, s \ {x}) = f[c] + SumFunctionOnSet(f, (s \ {x}) \ {c})
        BY <2>2, SubsetsOfFinite
      <4> QED BY <4>1, <4>2
    <3>3. f[x] \in Int /\ f[c] \in Int /\ SumFunctionOnSet(f, both) \in Int
      <4>1. IsFiniteSet(both) /\ both \subseteq S
        BY FS_Subset
      <4> QED BY <4>1, SumIsInteger
    <3> HIDE DEF both
    <3> QED BY <2>1, <3>1, <3>2, <3>3
  <2> QED BY <2>1, <2>2
<1>3. T = Nat
  <2> HIDE DEF T
  <2> QED BY <1>1, <1>2, InductionOnSet DEF T
<1> QED BY <1>3, SubsetsOfFinite

\* Only the values on the set count.
LEMMA SumOfEquals ==
    ASSUME NEW f, NEW g, NEW S, IsFiniteSet(S), \A x \in S : f[x] \in Int /\ f[x] = g[x]
    PROVE  SumFunctionOnSet(f, S) = SumFunctionOnSet(g, S)
<1> DEFINE T == {n \in Nat : \A s \in SUBSET S :
                     Cardinality(s) <= n => SumFunctionOnSet(f, s) = SumFunctionOnSet(g, s)}
<1>1. 0 \in T
  <2>1. \A s \in SUBSET S : Cardinality(s) <= 0 => s = {}
    BY SubsetsOfFinite
  <2> QED BY <2>1, SumOfNone
<1>2. \A n \in T : n + 1 \in T
  <2> SUFFICES ASSUME NEW n \in T, NEW s \in SUBSET S, Cardinality(s) <= n + 1
               PROVE  SumFunctionOnSet(f, s) = SumFunctionOnSet(g, s)
    OBVIOUS
  <2>0. CASE s = {}
    BY <2>0, SumOfNone
  <2> SUFFICES ASSUME s # {}
               PROVE  SumFunctionOnSet(f, s) = SumFunctionOnSet(g, s)
    BY <2>0
  <2> PICK x \in s : TRUE
    OBVIOUS
  <2> \A y \in s : f[y] \in Int /\ g[y] \in Int
    OBVIOUS
  <2>4. /\ IsFiniteSet(s) /\ s \ {x} \in SUBSET S
        /\ Cardinality(s) \in Nat /\ Cardinality(s \ {x}) = Cardinality(s) - 1
    BY SubsetsOfFinite
  <2>1. SumFunctionOnSet(f, s) = f[x] + SumFunctionOnSet(f, s \ {x})
    BY <2>4, SumWithout
  <2>2. SumFunctionOnSet(g, s) = g[x] + SumFunctionOnSet(g, s \ {x})
    BY <2>4, SumWithout
  <2>3. SumFunctionOnSet(f, s \ {x}) = SumFunctionOnSet(g, s \ {x})
    <3>1. n \in Nat /\ Cardinality(s \ {x}) <= n
      BY <2>4
    <3> QED BY <2>4, <3>1
  <2> QED BY <2>1, <2>2, <2>3
<1>3. T = Nat
  <2> HIDE DEF T
  <2> QED BY <1>1, <1>2, InductionOnSet DEF T
<1> QED BY <1>3, SubsetsOfFinite

\* A sum of zeros.
LEMMA SumOfZeros ==
    ASSUME NEW S, IsFiniteSet(S)
    PROVE  SumFunctionOnSet([x \in S |-> 0], S) = 0
<1> DEFINE zeros == [x \in S |-> 0]
           T == {n \in Nat : \A s \in SUBSET S :
                     Cardinality(s) <= n => SumFunctionOnSet(zeros, s) = 0}
<1>1. 0 \in T
  <2> HIDE DEF zeros
  <2>1. \A s \in SUBSET S : Cardinality(s) <= 0 => s = {}
    BY SubsetsOfFinite
  <2> QED BY <2>1, SumOfNone
<1>2. \A n \in T : n + 1 \in T
  <2> SUFFICES ASSUME NEW n \in T, NEW s \in SUBSET S, Cardinality(s) <= n + 1
               PROVE  SumFunctionOnSet(zeros, s) = 0
    OBVIOUS
  <2>0. CASE s = {}
    BY <2>0, SumOfNone
  <2> SUFFICES ASSUME s # {} PROVE SumFunctionOnSet(zeros, s) = 0
    BY <2>0
  <2>1. PICK x \in s : SumFunctionOnSet(zeros, s) = zeros[x] + SumFunctionOnSet(zeros, s \ {x})
    BY SubsetsOfFinite, SumOfChosen
  <2>2. SumFunctionOnSet(zeros, s \ {x}) = 0
    BY SubsetsOfFinite
  <2> QED BY <2>1, <2>2
<1>3. T = Nat
  <2> HIDE DEF T
  <2> QED BY <1>1, <1>2, InductionOnSet DEF T
<1> QED BY <1>3, SubsetsOfFinite

-----------------------------------------------------------------------------
(* What the other modules cite.                                            *)

\* One summand changes, and the sum by as much: a row of a ledger is written, a
\* usage is charged.
THEOREM SumChanges ==
    ASSUME NEW f, NEW g, NEW S, IsFiniteSet(S), NEW x \in S,
           \A y \in S : f[y] \in Int /\ g[y] \in Int,
           \A y \in S \ {x} : f[y] = g[y]
    PROVE  SumFunctionOnSet(g, S) = SumFunctionOnSet(f, S) + g[x] - f[x]
<1>1. IsFiniteSet(S \ {x})
  BY FS_RemoveElement
<1>2. SumFunctionOnSet(f, S) = f[x] + SumFunctionOnSet(f, S \ {x})
  BY SumWithout
<1>3. SumFunctionOnSet(g, S) = g[x] + SumFunctionOnSet(g, S \ {x})
  BY SumWithout
<1>4. SumFunctionOnSet(g, S \ {x}) = SumFunctionOnSet(f, S \ {x})
  BY <1>1, SumOfEquals
<1>5. SumFunctionOnSet(f, S \ {x}) \in Int
  BY <1>1, SumIsInteger
<1> QED BY <1>2, <1>3, <1>4, <1>5

\* A summand is added, and the sum grows by it: a usage is added to its room.
THEOREM SumGrows ==
    ASSUME NEW f, NEW S, IsFiniteSet(S), NEW x, x \notin S,
           \A y \in S \union {x} : f[y] \in Int
    PROVE  SumFunctionOnSet(f, S \union {x}) = SumFunctionOnSet(f, S) + f[x]
<1>1. IsFiniteSet(S \union {x})
  BY FS_AddElement
<1>2. (S \union {x}) \ {x} = S
  OBVIOUS
<1>3. SumFunctionOnSet(f, S \union {x}) = f[x] + SumFunctionOnSet(f, (S \union {x}) \ {x})
  BY <1>1, SumWithout
<1>4. SumFunctionOnSet(f, S) \in Int
  BY SumIsInteger
<1>5. SumFunctionOnSet(f, S \union {x}) = f[x] + SumFunctionOnSet(f, S)
  BY <1>2, <1>3, Zenon
<1> QED BY <1>4, <1>5
=============================================================================
