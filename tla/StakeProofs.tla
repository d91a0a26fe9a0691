---------------------------- MODULE StakeProofs ----------------------------
(***************************************************************************)
(* Sums over finite sets, as the stake of a set of validators is one, and  *)
(* what they say about quorums: any two of them share more than a third of *)
(* the power.                                                              *)
(***************************************************************************)
EXTENDS Stake, FiniteSetTheorems, WellFoundedInduction, TLAPS

-----------------------------------------------------------------------------
(* Least counterexamples *)

\* Every non-empty set of naturals has a least element.
LEMMA LeastNatural ==
  ASSUME NEW T \in SUBSET Nat, T # {}
  PROVE  \E x \in T : \A y \in T : x <= y
<1> DEFINE R == {ss \in Nat \X Nat : ss[1] < ss[2]}
<1>1. IsWellFoundedOn(R, Nat)
  BY NatLessThanWellFounded DEF OpToRel
<1> HIDE DEF R
<1>2. PICK x \in T : \A y \in T : ~(<<y, x>> \in R)
  BY <1>1, WFMin, Zenon
<1>3. ASSUME NEW y \in T PROVE x <= y
  <2>1. <<y, x>> \notin R /\ <<y, x>> \in Nat \X Nat
    BY <1>2
  <2>2. ~(y < x)
    BY <2>1 DEF R
  <2> QED BY <2>2
<1> QED BY <1>3

\* A non-empty collection of subsets of a finite set has a minimal member.
LEMMA MinimalSubset ==
  ASSUME NEW S, IsFiniteSet(S), NEW T \in SUBSET SUBSET S, T # {}
  PROVE  \E s \in T : \A u \in T : u \subseteq s => u = s
<1>1. IsWellFoundedOn(StrictSubsetOrdering(S), SUBSET S)
  BY FS_StrictSubsetOrderingWellFounded, FS_FiniteSubsetsOfFinite
<1>2. PICK s \in T : \A u \in T : ~(<<u, s>> \in StrictSubsetOrdering(S))
  BY <1>1, WFMin
<1> QED BY <1>2 DEF StrictSubsetOrdering

\* A non-empty finite set of numbers has a largest one.
LEMMA LargestExists ==
  ASSUME NEW S, \A x \in S : x \in Nat, IsFiniteSet(S), S # {}
  PROVE  \E h \in S : \A g \in S : g <= h
<1> DEFINE Bad == {T \in SUBSET S : T # {} /\ ~\E h \in T : \A g \in T : g <= h}
<1>1. SUFFICES ASSUME Bad # {} PROVE FALSE
  OBVIOUS
<1>2. PICK T \in Bad : \A U \in Bad : U \subseteq T => U = T
  <2>1. Bad \in SUBSET SUBSET S
    OBVIOUS
  <2> HIDE DEF Bad
  <2> QED BY <1>1, <2>1, MinimalSubset
<1>3. PICK x \in T : x \in Nat
  OBVIOUS
<1>4. T \ {x} \notin Bad
  BY <1>2, <1>3
<1>5. CASE T \ {x} = {}
  <2>1. \A g \in T : g = x
    BY <1>5
  <2>2. \A g \in T : g <= x
    BY <1>3, <2>1
  <2> QED BY <1>3, <2>2
<1>6. CASE T \ {x} # {}
  <2>1. PICK h \in T \ {x} : \A g \in T \ {x} : g <= h
    BY <1>4, <1>6
  <2>2. h \in Nat
    OBVIOUS
  <2>3. CASE x <= h
    BY <2>1, <2>3
  <2>4. CASE ~(x <= h)
    <3>1. \A g \in T : g <= x
      BY <1>3, <2>1, <2>2, <2>4
    <3> QED BY <3>1
  <2> QED BY <2>3, <2>4
<1> QED BY <1>5, <1>6

-----------------------------------------------------------------------------
(* The sum as a recursive function on the subsets of the set *)

Picked(s) == CHOOSE x \in s : TRUE
SumStep(f, g, s) == IF s = {} THEN 0 ELSE f[Picked(s)] + g[s \ {Picked(s)}]
IsSumOf(f, S, g) == g = [s \in SUBSET S |-> SumStep(f, g, s)]

\* What SumFunctionOnSet, a fold of the library, unfolds to.
LEMMA SumUnfolds ==
  ASSUME NEW f, NEW S
  PROVE  SumFunctionOnSet(f, S) = (CHOOSE g : IsSumOf(f, S, g))[S]
BY DEF SumFunctionOnSet, FoldFunctionOnSet, MapThenFoldSet, IsSumOf, SumStep, Picked

\* The recursion on the subsets of a finite set has a solution.
LEMMA SumExists ==
  ASSUME NEW f, NEW S, IsFiniteSet(S)
  PROVE  \E g : IsSumOf(f, S, g)
<1> DEFINE Small(n) == {s \in SUBSET S : Cardinality(s) <= n}
           Solves(n, g) == g = [s \in Small(n) |-> SumStep(f, g, s)]
           Bad == {n \in Nat : ~\E g : Solves(n, g)}
<1>1. Bad = {}
  <2>1. SUFFICES ASSUME Bad # {} PROVE FALSE
    OBVIOUS
  <2>2. PICK n \in Bad : \A m \in Bad : ~(<<m, n>> \in OpToRel(<, Nat))
    BY <2>1, NatLessThanWellFounded, WFMin
  <2>3. \A m \in Nat : m < n => \E g : Solves(m, g)
    BY <2>2 DEF OpToRel
  <2>4. CASE n = 0
    <3> DEFINE g == [s \in Small(0) |-> 0]
    <3>1. \A s \in Small(0) : s = {}
      BY FS_Subset, FS_EmptySet, FS_CardinalityType
    <3>2. Solves(0, g)
      BY <3>1 DEF SumStep
    <3> QED BY <2>4, <3>2
  <2>5. CASE n # 0
    <3>1. n - 1 \in Nat /\ n - 1 < n
      BY <2>5
    <3>2. PICK h : Solves(n - 1, h)
      BY <3>1, <2>3
    <3> DEFINE g == [s \in Small(n) |-> SumStep(f, h, s)]
    <3>3. \A s \in Small(n - 1) : g[s] = h[s]
      <4>1. \A s \in Small(n - 1) : s \in Small(n)
        BY <3>1, FS_Subset, FS_CardinalityType
      <4>2. \A s \in Small(n - 1) : h[s] = SumStep(f, h, s)
        BY <3>2
      <4> QED BY <4>1, <4>2
    <3>4. ASSUME NEW s \in Small(n), s # {}
          PROVE  s \ {Picked(s)} \in Small(n - 1)
      <4>1. Picked(s) \in s
        BY <3>4 DEF Picked
      <4>2. IsFiniteSet(s) /\ Cardinality(s) \in Nat
        BY FS_Subset, FS_CardinalityType
      <4>3. Cardinality(s \ {Picked(s)}) = Cardinality(s) - 1
        BY <4>1, <4>2, FS_RemoveElement
      <4> QED BY <4>2, <4>3
    <3>5. ASSUME NEW s \in Small(n) PROVE SumStep(f, h, s) = SumStep(f, g, s)
      BY <3>3, <3>4 DEF SumStep
    <3>6. Solves(n, g)
      <4> HIDE DEF Small
      <4> QED BY <3>5
    <3> QED BY <3>6
  <2> QED BY <2>4, <2>5
<1>2. Cardinality(S) \in Nat
  BY FS_CardinalityType
<1>3. Small(Cardinality(S)) = SUBSET S
  BY FS_Subset
<1>4. PICK g : Solves(Cardinality(S), g)
  BY <1>1, <1>2
<1> QED BY <1>3, <1>4 DEF IsSumOf

\* The solution satisfies the recursion at every subset.
LEMMA SumSolution ==
  ASSUME NEW f, NEW S, IsFiniteSet(S)
  PROVE  \E g : IsSumOf(f, S, g) /\ SumFunctionOnSet(f, S) = g[S]
BY SumUnfolds, SumExists

\* The solutions for a set and for a subset of it agree.
LEMMA SumAgrees ==
  ASSUME NEW f, NEW S, IsFiniteSet(S), NEW T \in SUBSET S,
         NEW g, IsSumOf(f, S, g), NEW h, IsSumOf(f, T, h)
  PROVE  \A s \in SUBSET T : g[s] = h[s]
<1> DEFINE Bad == {s \in SUBSET T : g[s] # h[s]}
<1>1. SUFFICES ASSUME Bad # {} PROVE FALSE
  OBVIOUS
<1>2. PICK s \in Bad : \A u \in Bad : u \subseteq s => u = s
  <2> Bad \in SUBSET SUBSET S
    OBVIOUS
  <2> HIDE DEF Bad
  <2> QED BY <1>1, MinimalSubset
<1>3. g[s] = SumStep(f, g, s) /\ h[s] = SumStep(f, h, s)
  BY DEF IsSumOf
<1>4. s # {} => Picked(s) \in s
  BY DEF Picked
<1>5. s # {} => g[s \ {Picked(s)}] = h[s \ {Picked(s)}]
  BY <1>2, <1>4
<1> QED BY <1>3, <1>5 DEF SumStep

\* A sum of integers is an integer, and any element can be taken out first:
\* the order in which the fold picks them does not matter.
LEMMA SumTakesOut ==
  ASSUME NEW f, NEW S, IsFiniteSet(S), \A x \in S : f[x] \in Int,
         NEW g, IsSumOf(f, S, g)
  PROVE  \A s \in SUBSET S : g[s] \in Int /\ \A x \in s : g[s] = f[x] + g[s \ {x}]
<1> DEFINE Good(s) == g[s] \in Int /\ \A x \in s : g[s] = f[x] + g[s \ {x}]
           Bad == {s \in SUBSET S : ~Good(s)}
<1>1. SUFFICES ASSUME Bad # {} PROVE FALSE
  OBVIOUS
<1>2. PICK s \in Bad : \A u \in Bad : u \subseteq s => u = s
  <2> Bad \in SUBSET SUBSET S
    OBVIOUS
  <2> HIDE DEF Bad
  <2> QED BY <1>1, MinimalSubset
<1>3. g[s] = SumStep(f, g, s)
  BY DEF IsSumOf
<1>4. \A u \in SUBSET s : u # s => Good(u)
  BY <1>2
<1>5. CASE s = {}
  BY <1>3, <1>5 DEF SumStep
<1>6. CASE s # {}
  <2> DEFINE c == Picked(s)
  <2>1. c \in s
    BY <1>6 DEF Picked
  <2>2. g[s] = f[c] + g[s \ {c}]
    BY <1>3, <1>6 DEF SumStep
  <2> HIDE DEF c
  <2>3. g[s \ {c}] \in Int /\ f[c] \in Int
    BY <1>4, <2>1
  <2>4. ASSUME NEW x \in s PROVE g[s] = f[x] + g[s \ {x}]
    <3>1. CASE x = c
      BY <3>1, <2>2
    <3>2. CASE x # c
      <4>1. g[s \ {c}] = f[x] + g[(s \ {c}) \ {x}]
        BY <1>4, <2>1, <3>2
      <4>2. g[s \ {x}] = f[c] + g[(s \ {x}) \ {c}]
        BY <1>4, <2>1, <3>2
      <4>3. (s \ {c}) \ {x} = (s \ {x}) \ {c}
        OBVIOUS
      <4>4. g[(s \ {c}) \ {x}] \in Int /\ f[x] \in Int
        BY <1>4, <2>1
      <4>5. g[s] = f[c] + (f[x] + g[(s \ {x}) \ {c}])
        BY <4>1, <4>3, <2>2
      <4> DEFINE rest == g[(s \ {x}) \ {c}]
      <4>6. rest \in Int
        BY <4>3, <4>4
      <4> HIDE DEF rest
      <4>7. f[c] + (f[x] + rest) = f[x] + (f[c] + rest)
        BY <4>4, <4>6, <2>3
      <4> QED BY <4>2, <4>5, <4>7 DEF rest
    <3> QED BY <3>1, <3>2
  <2>5. g[s] \in Int
    BY <2>2, <2>3
  <2>6. Good(s)
    BY <2>4, <2>5
  <2> QED BY <2>6
<1> QED BY <1>5, <1>6

-----------------------------------------------------------------------------
(* What is needed of sums *)

LEMMA SumEmpty == ASSUME NEW f PROVE SumFunctionOnSet(f, {}) = 0
<1>1. PICK g : IsSumOf(f, {}, g) /\ SumFunctionOnSet(f, {}) = g[{}]
  BY SumSolution, FS_EmptySet
<1> QED BY <1>1 DEF IsSumOf, SumStep

\* Taking one element out of a sum.
LEMMA SumRemove ==
  ASSUME NEW f, NEW S, IsFiniteSet(S), \A x \in S : f[x] \in Int
  PROVE  /\ SumFunctionOnSet(f, S) \in Int
         /\ \A x \in S : SumFunctionOnSet(f, S) = f[x] + SumFunctionOnSet(f, S \ {x})
<1>1. PICK g : IsSumOf(f, S, g) /\ SumFunctionOnSet(f, S) = g[S]
  BY SumSolution
<1>2. g[S] \in Int /\ \A x \in S : g[S] = f[x] + g[S \ {x}]
  BY <1>1, SumTakesOut
<1>3. ASSUME NEW x \in S PROVE SumFunctionOnSet(f, S \ {x}) = g[S \ {x}]
  <2> DEFINE T == S \ {x}
  <2>1. IsFiniteSet(T) /\ T \in SUBSET S
    BY FS_RemoveElement
  <2> HIDE DEF T
  <2>2. PICK h : IsSumOf(f, T, h) /\ SumFunctionOnSet(f, T) = h[T]
    BY <2>1, SumSolution
  <2>3. \A s \in SUBSET T : g[s] = h[s]
    BY <1>1, <2>1, <2>2, SumAgrees
  <2>4. SumFunctionOnSet(f, T) = g[T]
    BY <2>2, <2>3
  <2> QED BY <2>4 DEF T
<1> QED BY <1>1, <1>2, <1>3

\* Putting one in.
LEMMA SumAdd ==
  ASSUME NEW f, NEW S, IsFiniteSet(S), NEW x, x \notin S, \A y \in S \cup {x} : f[y] \in Int
  PROVE  SumFunctionOnSet(f, S \cup {x}) = f[x] + SumFunctionOnSet(f, S)
<1>1. IsFiniteSet(S \cup {x}) /\ (S \cup {x}) \ {x} = S
  BY FS_AddElement
<1> HIDE DEF SumFunctionOnSet
<1> QED BY <1>1, SumRemove

\* Sums of naturals are naturals, and grow with their terms.
LEMMA SumMonotone ==
  ASSUME NEW S, IsFiniteSet(S), NEW f, NEW g,
         \A x \in S : f[x] \in Nat /\ g[x] \in Nat /\ f[x] <= g[x]
  PROVE  /\ SumFunctionOnSet(f, S) \in Nat
         /\ SumFunctionOnSet(f, S) <= SumFunctionOnSet(g, S)
<1> DEFINE Good(s) == /\ SumFunctionOnSet(f, s) \in Nat
                      /\ SumFunctionOnSet(f, s) <= SumFunctionOnSet(g, s)
           Bad == {s \in SUBSET S : ~Good(s)}
<1>1. SUFFICES ASSUME Bad # {} PROVE FALSE
  OBVIOUS
<1>2. PICK s \in Bad : \A u \in Bad : u \subseteq s => u = s
  <2> Bad \in SUBSET SUBSET S
    OBVIOUS
  <2> HIDE DEF Bad
  <2> QED BY <1>1, MinimalSubset
<1>3. CASE s = {}
  BY <1>3, SumEmpty
<1>4. CASE s # {}
  <2>1. PICK x \in s : TRUE
    BY <1>4
  <2>2. IsFiniteSet(s)
    BY FS_Subset
  <2>3. Good(s \ {x})
    BY <1>2
  <2>4. /\ SumFunctionOnSet(f, s) = f[x] + SumFunctionOnSet(f, s \ {x})
        /\ SumFunctionOnSet(g, s) = g[x] + SumFunctionOnSet(g, s \ {x})
    BY <2>2, SumRemove
  <2>5. SumFunctionOnSet(g, s \ {x}) \in Int
    BY <2>2, FS_RemoveElement, SumRemove
  <2> QED BY <2>3, <2>4, <2>5
<1> QED BY <1>3, <1>4

\* Sums of integers add up term by term.
LEMMA SumPlus ==
  ASSUME NEW S, IsFiniteSet(S), NEW f, NEW g, NEW h,
         \A x \in S : f[x] \in Int /\ g[x] \in Int /\ h[x] = f[x] + g[x]
  PROVE  SumFunctionOnSet(h, S) = SumFunctionOnSet(f, S) + SumFunctionOnSet(g, S)
<1> DEFINE Good(s) == SumFunctionOnSet(h, s) = SumFunctionOnSet(f, s) + SumFunctionOnSet(g, s)
           Bad == {s \in SUBSET S : ~Good(s)}
<1>1. SUFFICES ASSUME Bad # {} PROVE FALSE
  OBVIOUS
<1>2. PICK s \in Bad : \A u \in Bad : u \subseteq s => u = s
  <2> Bad \in SUBSET SUBSET S
    OBVIOUS
  <2> HIDE DEF Bad
  <2> QED BY <1>1, MinimalSubset
<1>3. CASE s = {}
  BY <1>3, SumEmpty
<1>4. CASE s # {}
  <2>1. PICK x \in s : TRUE
    BY <1>4
  <2>2. IsFiniteSet(s) /\ IsFiniteSet(s \ {x})
    BY FS_Subset, FS_RemoveElement
  <2>3. Good(s \ {x})
    BY <1>2
  <2>4. /\ SumFunctionOnSet(f, s) = f[x] + SumFunctionOnSet(f, s \ {x})
        /\ SumFunctionOnSet(g, s) = g[x] + SumFunctionOnSet(g, s \ {x})
        /\ SumFunctionOnSet(h, s) = h[x] + SumFunctionOnSet(h, s \ {x})
    BY <2>2, SumRemove
  <2>5. /\ SumFunctionOnSet(f, s \ {x}) \in Int /\ SumFunctionOnSet(g, s \ {x}) \in Int
    BY <2>2, SumRemove
  <2> QED BY <2>3, <2>4, <2>5
<1> QED BY <1>3, <1>4

\* A sum depends on the terms only.
LEMMA SumEqual ==
  ASSUME NEW S, IsFiniteSet(S), NEW f, NEW g,
         \A x \in S : f[x] \in Int /\ f[x] = g[x]
  PROVE  SumFunctionOnSet(f, S) = SumFunctionOnSet(g, S)
<1> DEFINE Good(s) == SumFunctionOnSet(f, s) = SumFunctionOnSet(g, s)
           Bad == {s \in SUBSET S : ~Good(s)}
<1>1. SUFFICES ASSUME Bad # {} PROVE FALSE
  OBVIOUS
<1>2. PICK s \in Bad : \A u \in Bad : u \subseteq s => u = s
  <2> Bad \in SUBSET SUBSET S
    OBVIOUS
  <2> HIDE DEF Bad
  <2> QED BY <1>1, MinimalSubset
<1>3. CASE s = {}
  BY <1>3, SumEmpty
<1>4. CASE s # {}
  <2>1. PICK x \in s : TRUE
    BY <1>4
  <2>2. IsFiniteSet(s)
    BY FS_Subset
  <2>3. Good(s \ {x})
    BY <1>2
  <2>4. /\ SumFunctionOnSet(f, s) = f[x] + SumFunctionOnSet(f, s \ {x})
        /\ SumFunctionOnSet(g, s) = g[x] + SumFunctionOnSet(g, s \ {x})
    BY <2>2, SumRemove
  <2> QED BY <2>3, <2>4
<1> QED BY <1>3, <1>4

\* The sum over a set is the sum over a subset and the sum over the rest.
LEMMA SumSplit ==
  ASSUME NEW S, IsFiniteSet(S), NEW f, \A x \in S : f[x] \in Int, NEW A \in SUBSET S
  PROVE  SumFunctionOnSet(f, S) = SumFunctionOnSet(f, A) + SumFunctionOnSet(f, S \ A)
<1> DEFINE Good(s) == SumFunctionOnSet(f, S) = SumFunctionOnSet(f, s) + SumFunctionOnSet(f, S \ s)
           Bad == {s \in SUBSET S : ~Good(s)}
<1>1. SUFFICES ASSUME Bad # {} PROVE FALSE
  OBVIOUS
<1>2. PICK s \in Bad : \A u \in Bad : u \subseteq s => u = s
  <2> Bad \in SUBSET SUBSET S
    OBVIOUS
  <2> HIDE DEF Bad
  <2> QED BY <1>1, MinimalSubset
<1>3. CASE s = {}
  <2>1. S \ s = S
    BY <1>3
  <2>2. SumFunctionOnSet(f, S) \in Int
    BY SumRemove
  <2> QED BY <1>3, <2>1, <2>2, SumEmpty
<1>4. CASE s # {}
  <2>1. PICK x \in s : TRUE
    BY <1>4
  <2>2. IsFiniteSet(s) /\ IsFiniteSet(s \ {x}) /\ IsFiniteSet(S \ s) /\ IsFiniteSet(S \ (s \ {x}))
    BY FS_Subset
  <2>3. Good(s \ {x})
    BY <1>2
  <2>4. SumFunctionOnSet(f, s) = f[x] + SumFunctionOnSet(f, s \ {x})
    BY <2>2, SumRemove
  <2>5. SumFunctionOnSet(f, S \ (s \ {x})) = f[x] + SumFunctionOnSet(f, S \ s)
    <3>1. x \in S \ (s \ {x}) /\ (S \ (s \ {x})) \ {x} = S \ s
      OBVIOUS
    <3> QED BY <3>1, <2>2, SumRemove
  <2>6. SumFunctionOnSet(f, s \ {x}) \in Int /\ SumFunctionOnSet(f, S \ s) \in Int /\ f[x] \in Int
    BY <2>2, SumRemove
  <2> QED BY <2>3, <2>4, <2>5, <2>6
<1> QED BY <1>3, <1>4

\* A sum in which one term changed.
LEMMA SumChange ==
  ASSUME NEW S, IsFiniteSet(S), NEW f, NEW g, NEW x \in S,
         \A y \in S : f[y] \in Int /\ g[y] \in Int,
         \A y \in S \ {x} : f[y] = g[y]
  PROVE  SumFunctionOnSet(g, S) = SumFunctionOnSet(f, S) - f[x] + g[x]
<1>1. IsFiniteSet(S \ {x})
  BY FS_RemoveElement
<1>2. SumFunctionOnSet(f, S \ {x}) = SumFunctionOnSet(g, S \ {x})
  BY <1>1, SumEqual
<1>3. /\ SumFunctionOnSet(f, S) = f[x] + SumFunctionOnSet(f, S \ {x})
      /\ SumFunctionOnSet(g, S) = g[x] + SumFunctionOnSet(g, S \ {x})
  BY SumRemove
<1>4. SumFunctionOnSet(f, S \ {x}) \in Int
  BY <1>1, SumRemove
<1> QED BY <1>2, <1>3, <1>4

\* A sum in which the terms of a subset were cut.
LEMMA SumCut ==
  ASSUME NEW S, IsFiniteSet(S), NEW f, NEW g, NEW B \in SUBSET S, NEW b,
         \A x \in S : f[x] \in Int,
         \A x \in B : b[x] \in Int /\ g[x] = f[x] - b[x],
         \A x \in S \ B : g[x] = f[x]
  PROVE  SumFunctionOnSet(g, S) = SumFunctionOnSet(f, S) - SumFunctionOnSet(b, B)
<1>1. IsFiniteSet(B) /\ IsFiniteSet(S \ B)
  BY FS_Subset
<1>2. \A x \in S : g[x] \in Int
  OBVIOUS
<1>3. SumFunctionOnSet(f, S) = SumFunctionOnSet(f, B) + SumFunctionOnSet(f, S \ B)
  BY SumSplit
<1>4. SumFunctionOnSet(g, S) = SumFunctionOnSet(g, B) + SumFunctionOnSet(g, S \ B)
  BY <1>2, SumSplit
<1>5. SumFunctionOnSet(f, B) = SumFunctionOnSet(g, B) + SumFunctionOnSet(b, B)
  <2>1. \A x \in B : g[x] \in Int /\ b[x] \in Int /\ f[x] = g[x] + b[x]
    OBVIOUS
  <2> QED BY <1>1, <2>1, SumPlus
<1>6. SumFunctionOnSet(f, S \ B) = SumFunctionOnSet(g, S \ B)
  BY <1>1, SumEqual
<1>7. /\ SumFunctionOnSet(g, B) \in Int /\ SumFunctionOnSet(b, B) \in Int
      /\ SumFunctionOnSet(g, S \ B) \in Int
  BY <1>1, <1>2, SumRemove
<1> QED BY <1>3, <1>4, <1>5, <1>6, <1>7

\* Scaling a sum.
LEMMA SumScale ==
  ASSUME NEW S, IsFiniteSet(S), NEW f, NEW g, NEW c \in Int,
         \A x \in S : f[x] \in Int /\ g[x] = c * f[x]
  PROVE  SumFunctionOnSet(g, S) = c * SumFunctionOnSet(f, S)
<1> DEFINE Good(s) == SumFunctionOnSet(g, s) = c * SumFunctionOnSet(f, s)
           Bad == {s \in SUBSET S : ~Good(s)}
<1>1. SUFFICES ASSUME Bad # {} PROVE FALSE
  OBVIOUS
<1>2. PICK s \in Bad : \A u \in Bad : u \subseteq s => u = s
  <2> Bad \in SUBSET SUBSET S
    OBVIOUS
  <2> HIDE DEF Bad
  <2> QED BY <1>1, MinimalSubset
<1>3. CASE s = {}
  BY <1>3, SumEmpty
<1>4. CASE s # {}
  <2>1. PICK x \in s : TRUE
    BY <1>4
  <2>2. IsFiniteSet(s) /\ IsFiniteSet(s \ {x})
    BY FS_Subset, FS_RemoveElement
  <2>3. Good(s \ {x})
    BY <1>2
  <2>4. /\ SumFunctionOnSet(f, s) = f[x] + SumFunctionOnSet(f, s \ {x})
        /\ SumFunctionOnSet(g, s) = c * f[x] + SumFunctionOnSet(g, s \ {x})
    <3>1. \A y \in s : f[y] \in Int /\ g[y] \in Int
      OBVIOUS
    <3> QED BY <2>2, <3>1, SumRemove
  <2>5. SumFunctionOnSet(f, s \ {x}) \in Int /\ f[x] \in Int
    BY <2>2, SumRemove
  <2>6. \A m, n \in Int : c * m + c * n = c * (m + n)
    OBVIOUS
  <2>7. Good(s)
    BY <2>3, <2>4, <2>5, <2>6
  <2> QED BY <2>7
<1> QED BY <1>3, <1>4

-----------------------------------------------------------------------------
(* Quorums *)

\* The power of a set of authors is a natural number, at most that of a larger set.
LEMMA AccumulatedMonotone ==
  ASSUME NEW vset, IsValidatorSet(vset), NEW A, NEW B, A \cap DOMAIN vset \subseteq B
  PROVE  /\ Accumulated(vset, A) \in Nat
         /\ Accumulated(vset, A) <= Accumulated(vset, B)
<1> DEFINE a == A \cap DOMAIN vset  b == B \cap DOMAIN vset
<1>1. a \subseteq b /\ IsFiniteSet(a) /\ IsFiniteSet(b) /\ IsFiniteSet(b \ a)
  BY FS_Subset DEF IsValidatorSet
<1>2. \A v \in b : vset[v] \in Nat /\ vset[v] \in Int
  BY DEF IsValidatorSet
<1>3. Accumulated(vset, A) = SumFunctionOnSet(vset, a) /\ Accumulated(vset, B) = SumFunctionOnSet(vset, b)
  BY DEF Accumulated
<1> HIDE DEF a, b
<1>4. SumFunctionOnSet(vset, b) = SumFunctionOnSet(vset, a) + SumFunctionOnSet(vset, b \ a)
  BY <1>1, <1>2, SumSplit
<1>5. SumFunctionOnSet(vset, a) \in Nat
  BY <1>1, <1>2, SumMonotone
<1>6. SumFunctionOnSet(vset, b \ a) \in Nat
  BY <1>1, <1>2, SumMonotone
<1> QED BY <1>3, <1>4, <1>5, <1>6

\* The power of two sets of authors, of their union and of their intersection.
LEMMA AccumulatedUnion ==
  ASSUME NEW vset, IsValidatorSet(vset), NEW A, NEW B
  PROVE  Accumulated(vset, A \cup B) + Accumulated(vset, A \cap B)
           = Accumulated(vset, A) + Accumulated(vset, B)
<1> DEFINE a == A \cap DOMAIN vset  b == B \cap DOMAIN vset
<1>1. /\ (A \cup B) \cap DOMAIN vset = a \cup b
      /\ (A \cap B) \cap DOMAIN vset = a \cap b
  OBVIOUS
<1>2. IsFiniteSet(a \cup b) /\ IsFiniteSet(a) /\ IsFiniteSet(b) /\ IsFiniteSet(b \ a) /\ IsFiniteSet(a \cap b)
  BY FS_Subset DEF IsValidatorSet
<1>3. \A v \in a \cup b : vset[v] \in Int
  BY DEF IsValidatorSet
<1>4. /\ Accumulated(vset, A) = SumFunctionOnSet(vset, a)
      /\ Accumulated(vset, B) = SumFunctionOnSet(vset, b)
      /\ Accumulated(vset, A \cup B) = SumFunctionOnSet(vset, a \cup b)
      /\ Accumulated(vset, A \cap B) = SumFunctionOnSet(vset, a \cap b)
  BY <1>1 DEF Accumulated
<1> HIDE DEF a, b
<1>5. SumFunctionOnSet(vset, a \cup b) = SumFunctionOnSet(vset, a) + SumFunctionOnSet(vset, b \ a)
  <2>1. a \in SUBSET (a \cup b) /\ (a \cup b) \ a = b \ a
    OBVIOUS
  <2> QED BY <1>2, <1>3, <2>1, SumSplit
<1>6. SumFunctionOnSet(vset, b) = SumFunctionOnSet(vset, a \cap b) + SumFunctionOnSet(vset, b \ a)
  <2>1. a \cap b \in SUBSET b /\ b \ (a \cap b) = b \ a
    OBVIOUS
  <2> QED BY <1>2, <1>3, <2>1, SumSplit
<1>7. /\ SumFunctionOnSet(vset, a) \in Int /\ SumFunctionOnSet(vset, a \cap b) \in Int
      /\ SumFunctionOnSet(vset, b \ a) \in Int
  BY <1>2, <1>3, SumRemove
<1> QED BY <1>4, <1>5, <1>6, <1>7

\* A quorum stays one when more members are counted.
LEMMA QuorumGrows ==
  ASSUME NEW vset, IsValidatorSet(vset), NEW A, NEW B, A \subseteq B, Quorum(vset, A)
  PROVE  Quorum(vset, B)
<1>1. /\ Accumulated(vset, A) \in Nat /\ Accumulated(vset, A) <= Accumulated(vset, B)
      /\ Accumulated(vset, B) \in Nat /\ TotalPower(vset) \in Nat
  BY AccumulatedMonotone DEF TotalPower
<1> QED BY <1>1 DEF Quorum

\* The heart of every agreement argument of the consensus crate: two sets that
\* QuorumThreshold accepts share more than a third of the voting power, whatever
\* the powers are.  So they share a member, and when faulty members hold at most
\* a third of the power, an honest one.
THEOREM QuorumsIntersect ==
  ASSUME NEW vset, IsValidatorSet(vset), NEW A, NEW B, Quorum(vset, A), Quorum(vset, B)
  PROVE  /\ 3 * Accumulated(vset, A \cap B) > TotalPower(vset)
         /\ A \cap B \cap DOMAIN vset # {}
<1>1. /\ Accumulated(vset, A) \in Nat /\ Accumulated(vset, B) \in Nat
      /\ Accumulated(vset, A \cup B) \in Nat /\ Accumulated(vset, A \cap B) \in Nat
      /\ TotalPower(vset) \in Nat
  BY AccumulatedMonotone DEF TotalPower
<1>2. Accumulated(vset, A \cup B) <= TotalPower(vset)
  BY AccumulatedMonotone DEF TotalPower
<1>3. Accumulated(vset, A \cup B) + Accumulated(vset, A \cap B)
        = Accumulated(vset, A) + Accumulated(vset, B)
  BY AccumulatedUnion
<1>4. 3 * Accumulated(vset, A \cap B) > TotalPower(vset)
  BY <1>1, <1>2, <1>3 DEF Quorum
<1>5. A \cap B \cap DOMAIN vset = {} => Accumulated(vset, A \cap B) = 0
  BY SumEmpty DEF Accumulated
<1> QED BY <1>1, <1>4, <1>5

-----------------------------------------------------------------------------
(* Ranking a finite set *)

\* A strict total order on C.
TotalOrder(R, C) ==
    /\ \A a \in C : <<a, a>> \notin R
    /\ \A a, b, c \in C : <<a, b>> \in R /\ <<b, c>> \in R => <<a, c>> \in R
    /\ \A a, b \in C : a = b \/ <<a, b>> \in R \/ <<b, a>> \in R

Below(R, C, a) == {b \in C : <<b, a>> \in R}

\* The members of a finite set have the ranks 0 to n - 1, in their order.
LEMMA RanksFill ==
  ASSUME NEW C, IsFiniteSet(C), NEW R, TotalOrder(R, C)
  PROVE  /\ Cardinality(C) \in Nat
         /\ \A a \in C : Cardinality(Below(R, C, a)) \in 0..(Cardinality(C) - 1)
         /\ \A a, b \in C : <<a, b>> \in R => Cardinality(Below(R, C, a)) < Cardinality(Below(R, C, b))
         /\ \A a, b \in C : Cardinality(Below(R, C, a)) = Cardinality(Below(R, C, b)) => a = b
         /\ \A k \in 0..(Cardinality(C) - 1) : \E a \in C : Cardinality(Below(R, C, a)) = k
<1> DEFINE n == Cardinality(C)
           f == [a \in C |-> Cardinality(Below(R, C, a))]
<1>1. n \in Nat
  BY FS_CardinalityType
<1>2. ASSUME NEW a \in C
      PROVE  /\ Below(R, C, a) \in SUBSET C /\ IsFiniteSet(Below(R, C, a))
             /\ Cardinality(Below(R, C, a)) \in 0..(n - 1)
  <2>1. Below(R, C, a) \in SUBSET C /\ a \notin Below(R, C, a)
    BY DEF Below, TotalOrder
  <2>2. IsFiniteSet(Below(R, C, a)) /\ Cardinality(Below(R, C, a)) <= n
        /\ (n = Cardinality(Below(R, C, a)) => C = Below(R, C, a))
    BY <2>1, FS_Subset
  <2>3. Cardinality(Below(R, C, a)) \in Nat
    BY <2>2, FS_CardinalityType
  <2>4. Cardinality(Below(R, C, a)) # n
    BY <2>1, <2>2
  <2> HIDE DEF n
  <2> QED BY <1>1, <2>1, <2>2, <2>3, <2>4
<1>3. ASSUME NEW a \in C, NEW b \in C, <<a, b>> \in R
      PROVE  Cardinality(Below(R, C, a)) < Cardinality(Below(R, C, b))
  <2>1. /\ Below(R, C, a) \in SUBSET Below(R, C, b)
        /\ a \in Below(R, C, b) /\ a \notin Below(R, C, a)
    BY <1>3 DEF Below, TotalOrder
  <2>2. /\ Cardinality(Below(R, C, a)) <= Cardinality(Below(R, C, b))
        /\ (Cardinality(Below(R, C, b)) = Cardinality(Below(R, C, a)) => Below(R, C, b) = Below(R, C, a))
    BY <1>2, <2>1, FS_Subset
  <2>3. Cardinality(Below(R, C, b)) # Cardinality(Below(R, C, a))
    BY <2>1, <2>2
  <2>4. Cardinality(Below(R, C, a)) \in Nat /\ Cardinality(Below(R, C, b)) \in Nat
    BY <1>1, <1>2
  <2> QED BY <2>2, <2>3, <2>4
<1>4. ASSUME NEW a \in C, NEW b \in C, Cardinality(Below(R, C, a)) = Cardinality(Below(R, C, b))
      PROVE  a = b
  <2>1. Cardinality(Below(R, C, a)) \in Nat
    BY <1>1, <1>2
  <2>2. ~(<<a, b>> \in R) /\ ~(<<b, a>> \in R)
    BY <1>3, <1>4, <2>1
  <2> QED BY <2>2 DEF TotalOrder
<1> DEFINE image == {f[a] : a \in C}
           range == 0..(n - 1)
<1>5. IsFiniteSet(image) /\ Cardinality(image) = n /\ image \in SUBSET range
  <2>1. f \in [C -> image] /\ image \in SUBSET range
    BY <1>2
  <2>2. \A a, b \in C : f[a] = f[b] => a = b
    BY <1>4
  <2>3. \A y \in image : \E a \in C : f[a] = y
    OBVIOUS
  <2> HIDE DEF f, n, image
  <2>4. f \in Injection(C, image) /\ f \in Surjection(C, image)
    BY <2>1, <2>2, <2>3 DEF Injection, IsInjective, Surjection
  <2> QED BY <2>1, <2>4, FS_Surjection DEF n
<1>6. IsFiniteSet(0..(n - 1)) /\ Cardinality(0..(n - 1)) = n
  <2>1. 0 \in Int /\ n - 1 \in Int
    BY <1>1
  <2>2. /\ IsFiniteSet(0..(n - 1))
        /\ Cardinality(0..(n - 1)) = IF 0 > n - 1 THEN 0 ELSE (n - 1) - 0 + 1
    BY <2>1, FS_Interval
  <2> HIDE DEF n
  <2> QED BY <1>1, <2>2
<1>7. image = range
  <2> HIDE DEF image, f
  <2> QED BY <1>5, <1>6, FS_Subset
<1>8. ASSUME NEW k \in 0..(n - 1) PROVE \E a \in C : Cardinality(Below(R, C, a)) = k
  <2>1. k \in image
    BY <1>7
  <2> QED BY <2>1
<1> QED BY <1>1, <1>2, <1>3, <1>4, <1>8

\* The sequence that lists them.
LEMMA ListedInOrder ==
  ASSUME NEW C, IsFiniteSet(C), NEW R, TotalOrder(R, C), NEW order,
         \A i \in 1..Cardinality(C) : (\E a \in C : Cardinality(Below(R, C, a)) = i - 1)
             => order[i] \in C /\ Cardinality(Below(R, C, order[i])) = i - 1
  PROVE  LET n == Cardinality(C)
         IN  /\ n \in Nat /\ \A i \in 1..n : order[i] \in C
             /\ \A i, j \in 1..n : order[i] = order[j] => i = j
             /\ \A a \in C : \E i \in 1..n : order[i] = a
             /\ \A i, j \in 1..n : i < j => <<order[i], order[j]>> \in R
<1> DEFINE n == Cardinality(C)
           Rank(a) == Cardinality(Below(R, C, a))
<1>1. /\ n \in Nat
      /\ \A a \in C : Rank(a) \in 0..(n - 1)
      /\ \A a, b \in C : <<a, b>> \in R => Rank(a) < Rank(b)
      /\ \A a, b \in C : Rank(a) = Rank(b) => a = b
      /\ \A k \in 0..(n - 1) : \E a \in C : Rank(a) = k
  BY RanksFill
<1>2. \A i \in 1..n : (\E a \in C : Rank(a) = i - 1) => order[i] \in C /\ Rank(order[i]) = i - 1
  OBVIOUS
<1> HIDE DEF n, Rank
<1>3. ASSUME NEW i \in 1..n PROVE order[i] \in C /\ Rank(order[i]) = i - 1
  <2>1. i - 1 \in 0..(n - 1)
    BY <1>1
  <2>2. \E a \in C : Rank(a) = i - 1
    BY <1>1, <2>1
  <2> QED BY <1>2, <2>2
<1>4. \A i \in 1..n : order[i] \in C
  BY <1>3
<1>5. \A i, j \in 1..n : order[i] = order[j] => i = j
  <2> SUFFICES ASSUME NEW i \in 1..n, NEW j \in 1..n, order[i] = order[j] PROVE i = j
    OBVIOUS
  <2>1. i - 1 = j - 1
    BY <1>3
  <2> QED BY <1>1, <2>1
<1>6. ASSUME NEW a \in C PROVE \E i \in 1..n : order[i] = a
  <2>1. Rank(a) + 1 \in 1..n /\ Rank(a) \in Nat
    BY <1>1
  <2> DEFINE k == Rank(a)
  <2>2. k + 1 \in 1..n /\ k \in Nat
    BY <2>1
  <2> HIDE DEF k
  <2>3. order[k + 1] \in C /\ Rank(order[k + 1]) = k
    BY <1>3, <2>2
  <2> QED BY <1>1, <2>2, <2>3 DEF k
<1>7. ASSUME NEW i \in 1..n, NEW j \in 1..n, i < j PROVE <<order[i], order[j]>> \in R
  <2>1. order[i] \in C /\ order[j] \in C /\ Rank(order[i]) = i - 1 /\ Rank(order[j]) = j - 1
    BY <1>3
  <2>2. i \in Nat /\ j \in Nat
    BY <1>1
  <2>3. <<order[j], order[i]>> \in R => Rank(order[j]) < Rank(order[i])
    BY <1>1, <2>1
  <2>4. ~(<<order[j], order[i]>> \in R) /\ order[i] # order[j]
    BY <1>7, <2>1, <2>2, <2>3
  <2> QED BY <2>1, <2>4 DEF TotalOrder
<1> QED BY <1>1, <1>4, <1>5, <1>6, <1>7 DEF n
=============================================================================
