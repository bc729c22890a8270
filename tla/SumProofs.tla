----------------------------- MODULE SumProofs -----------------------------
(***************************************************************************)
(* Sums of a function over a finite set (SumFunctionOnSet), in which the   *)
(* models keep what a book, a stage or a queue holds altogether.           *)
(*                                                                         *)
(* The sum is a fold, defined by recursion over the subsets of the set.    *)
(* Induction is done with a smallest counterexample: a set of naturals, or *)
(* of subsets of a finite set, has a minimal element.                      *)
(***************************************************************************)
EXTENDS Integers, FiniteSets, Functions, FiniteSetTheorems, TLAPS

-----------------------------------------------------------------------------
(* Induction by a smallest counterexample.                                 *)

\* A set of naturals has a least element.
LEMMA LeastNatural ==
  ASSUME NEW T, T \subseteq Nat, T # {}
  PROVE  \E n \in T : \A m \in T : n <= m
<1>1. PICK n \in T : \A m \in T : ~(<<m, n>> \in OpToRel(<, Nat))
  BY NatLessThanWellFounded, WFMin
<1>2. \A m \in T : ~(m < n)
  BY <1>1 DEF OpToRel
<1> QED BY <1>2

\* A set of subsets of a finite set has a minimal element.
LEMMA SmallestSubset ==
  ASSUME NEW S, IsFiniteSet(S), NEW T, T \subseteq SUBSET S, T # {}
  PROVE  \E U \in T : \A V \in T : V \subseteq U => V = U
<1>1. IsWellFoundedOn(StrictSubsetOrdering(S), SUBSET S)
  BY FS_StrictSubsetOrderingWellFounded, FS_FiniteSubsetsOfFinite
<1>2. PICK U \in T : \A V \in T : ~(<<V, U>> \in StrictSubsetOrdering(S))
  BY <1>1, WFMin
<1>3. \A V \in T : ~(V \subseteq U /\ V # U)
  BY <1>2 DEF StrictSubsetOrdering
<1> QED BY <1>3

-----------------------------------------------------------------------------
(* The fold has a solution, and only one.                                  *)

\* The element the fold takes from a set.
Pick(s) == CHOOSE x \in s : TRUE

\* The equation of the fold behind SumFunctionOnSet.
SumEquation(g, f, S) ==
  g = [s \in SUBSET S |-> IF s = {} THEN 0 ELSE f[Pick(s)] + g[s \ {Pick(s)}]]

\* A sum is the value at the whole set of a solution of the equation.
LEMMA SumByEquation ==
  ASSUME NEW f, NEW S
  PROVE  SumFunctionOnSet(f, S) = (CHOOSE g : SumEquation(g, f, S))[S]
BY DEF SumFunctionOnSet, FoldFunctionOnSet, MapThenFoldSet, SumEquation, Pick

\* A finite set has a function that satisfies the equation.
LEMMA EquationSolvable ==
  ASSUME NEW f, NEW S, IsFiniteSet(S)
  PROVE  \E g : SumEquation(g, f, S)
<1> DEFINE rec(g, s) == IF s = {} THEN 0 ELSE f[Pick(s)] + g[s \ {Pick(s)}]
           solved(g, n) == /\ g = [s \in SUBSET S |-> g[s]]
                           /\ \A s \in SUBSET S : Cardinality(s) <= n => g[s] = rec(g, s)
           Bad == {n \in Nat : ~ \E g : solved(g, n)}
<1>1. \A s \in SUBSET S : IsFiniteSet(s) /\ Cardinality(s) \in Nat /\ Cardinality(s) <= Cardinality(S)
  BY FS_Subset, FS_CardinalityType
<1>2. \A s \in SUBSET S : s # {} =>
        /\ Pick(s) \in s
        /\ s \ {Pick(s)} \in SUBSET S
        /\ Cardinality(s \ {Pick(s)}) = Cardinality(s) - 1
  BY <1>1, FS_RemoveElement DEF Pick
<1>3. 0 \notin Bad
  <2> DEFINE g == [s \in SUBSET S |-> 0]
  <2>1. \A s \in SUBSET S : Cardinality(s) <= 0 => s = {}
    BY <1>1, FS_EmptySet
  <2>2. solved(g, 0)
    BY <2>1
  <2> QED BY <2>2
<1>4. ASSUME NEW n \in Nat, n \notin Bad
      PROVE  n + 1 \notin Bad
  <2>1. PICK g : solved(g, n)
    BY <1>4
  <2> DEFINE h == [s \in SUBSET S |-> rec(g, s)]
  <2>2. \A s \in SUBSET S : Cardinality(s) <= n => h[s] = g[s]
    BY <2>1
  <2>3. ASSUME NEW s \in SUBSET S, Cardinality(s) <= n + 1
        PROVE  h[s] = rec(h, s)
    <3>1. CASE s = {}
      BY <3>1
    <3>2. CASE s # {}
      <4>1. s \ {Pick(s)} \in SUBSET S /\ Cardinality(s \ {Pick(s)}) <= n
        BY <1>1, <1>2, <2>3, <3>2
      <4>2. h[s \ {Pick(s)}] = g[s \ {Pick(s)}]
        BY <4>1, <2>2
      <4> QED BY <3>2, <4>2
    <3> QED BY <3>1, <3>2
  <2>4. solved(h, n + 1)
    BY <2>3
  <2> QED BY <2>4
<1> HIDE DEF Bad
<1>5. Bad = {}
  <2> SUFFICES ASSUME Bad # {} PROVE FALSE
    OBVIOUS
  <2>1. PICK n \in Bad : \A m \in Bad : n <= m
    BY LeastNatural DEF Bad
  <2>2. n \in Nat /\ n # 0
    BY <1>3, <2>1 DEF Bad
  <2>3. n - 1 \in Nat /\ n - 1 \notin Bad
    BY <2>1, <2>2
  <2>4. (n - 1) + 1 \notin Bad
    BY <2>3, <1>4
  <2> QED BY <2>1, <2>2, <2>4
<1>6. PICK g : solved(g, Cardinality(S))
  BY <1>5, FS_CardinalityType DEF Bad
<1>7. g = [s \in SUBSET S |-> rec(g, s)]
  BY <1>6, <1>1
<1> QED BY <1>7 DEF SumEquation

\* The partial sums the fold goes through.
PartialSums(f, S) == CHOOSE g : SumEquation(g, f, S)

\* The partial sums satisfy the equation.
LEMMA PartialSumsEquation ==
  ASSUME NEW f, NEW S, IsFiniteSet(S)
  PROVE  SumEquation(PartialSums(f, S), f, S)
BY EquationSolvable DEF PartialSums

\* Two solutions agree wherever both are defined and their functions agree.
LEMMA SolutionsAgree ==
  ASSUME NEW f, NEW e, NEW S, NEW T, IsFiniteSet(S), NEW g, NEW h,
         SumEquation(g, f, S), SumEquation(h, e, T),
         NEW U, U \subseteq S, U \subseteq T, \A x \in U : f[x] = e[x]
  PROVE  g[U] = h[U]
<1> DEFINE Bad == {s \in SUBSET U : g[s] # h[s]}
<1>1. IsFiniteSet(U)
  BY FS_Subset
<1>2. ASSUME Bad # {} PROVE FALSE
  <2>1. PICK s \in Bad : \A t \in Bad : t \subseteq s => t = s
    <3>1. Bad \subseteq SUBSET U
      OBVIOUS
    <3> HIDE DEF Bad
    <3> QED BY <1>1, <1>2, <3>1, SmallestSubset
  <2>2. s \in SUBSET S /\ s \in SUBSET T
    BY <2>1
  <2>3. s # {}
    <3>1. g[{}] = 0 /\ h[{}] = 0
      BY DEF SumEquation
    <3> QED BY <2>1, <3>1
  <2>4. Pick(s) \in s
    BY <2>3 DEF Pick
  <2>5. g[s] = f[Pick(s)] + g[s \ {Pick(s)}] /\ h[s] = e[Pick(s)] + h[s \ {Pick(s)}]
    BY <2>2, <2>3 DEF SumEquation
  <2>6. f[Pick(s)] = e[Pick(s)]
    BY <2>1, <2>4
  <2>7. g[s \ {Pick(s)}] = h[s \ {Pick(s)}]
    BY <2>1, <2>4
  <2> QED BY <2>1, <2>5, <2>6, <2>7
<1> QED BY <1>2

-----------------------------------------------------------------------------
(* Laws of sums.                                                           *)

\* The sum of a function over the empty set.
LEMMA SumEmpty ==
  ASSUME NEW f
  PROVE  SumFunctionOnSet(f, {}) = 0
<1>1. SumEquation(PartialSums(f, {}), f, {})
  BY PartialSumsEquation, FS_EmptySet
<1>2. PartialSums(f, {})[{}] = 0
  BY <1>1 DEF SumEquation
<1> QED BY <1>2, SumByEquation DEF PartialSums

\* Functions that agree on a set have the same sum over it.
LEMMA SumEqual ==
  ASSUME NEW f, NEW e, NEW S, IsFiniteSet(S), \A x \in S : f[x] = e[x]
  PROVE  SumFunctionOnSet(f, S) = SumFunctionOnSet(e, S)
<1>1. SumEquation(PartialSums(f, S), f, S) /\ SumEquation(PartialSums(e, S), e, S)
  BY PartialSumsEquation
<1>2. PartialSums(f, S)[S] = PartialSums(e, S)[S]
  <2>1. PICK g, h : /\ g = PartialSums(f, S) /\ SumEquation(g, f, S)
                    /\ h = PartialSums(e, S) /\ SumEquation(h, e, S)
    BY <1>1
  <2>2. \A U : U \subseteq S /\ (\A x \in U : f[x] = e[x]) => g[U] = h[U]
    BY <2>1, SolutionsAgree
  <2>3. g[S] = h[S]
    BY <2>2
  <2> QED BY <2>1, <2>3
<1> QED BY <1>2, SumByEquation DEF PartialSums

\* The fold takes the element Pick chooses first.
LEMMA SumPick ==
  ASSUME NEW f, NEW S, IsFiniteSet(S), S # {}
  PROVE  SumFunctionOnSet(f, S) = f[Pick(S)] + SumFunctionOnSet(f, S \ {Pick(S)})
<1> DEFINE T == S \ {Pick(S)}
<1>1. IsFiniteSet(T) /\ T \subseteq S /\ T \in SUBSET S
  BY FS_RemoveElement
<1>2. SumEquation(PartialSums(f, S), f, S) /\ SumEquation(PartialSums(f, T), f, T)
  BY <1>1, PartialSumsEquation
<1>3. PartialSums(f, S)[S] = f[Pick(S)] + PartialSums(f, S)[T]
  BY <1>2 DEF SumEquation
<1> HIDE DEF T
<1>4. PartialSums(f, S)[T] = PartialSums(f, T)[T]
  BY <1>1, <1>2, SolutionsAgree
<1>5. SumFunctionOnSet(f, T) = PartialSums(f, T)[T] /\ SumFunctionOnSet(f, S) = PartialSums(f, S)[S]
  BY SumByEquation DEF PartialSums
<1> QED BY <1>3, <1>4, <1>5 DEF T

\* Whatever element is taken first, the sum is the same integer.
LEMMA SumRemove ==
  ASSUME NEW f, NEW S, IsFiniteSet(S), \A x \in S : f[x] \in Int
  PROVE  /\ SumFunctionOnSet(f, S) \in Int
         /\ \A x \in S : SumFunctionOnSet(f, S) = f[x] + SumFunctionOnSet(f, S \ {x})
<1> DEFINE sum(s) == SumFunctionOnSet(f, s)
           good(s) == sum(s) \in Int /\ \A x \in s : sum(s) = f[x] + sum(s \ {x})
           Bad == {s \in SUBSET S : ~good(s)}
<1> HIDE DEF sum
<1>1. ASSUME Bad # {} PROVE FALSE
  <2>1. PICK s \in Bad : \A t \in Bad : t \subseteq s => t = s
    <3>1. Bad \subseteq SUBSET S
      OBVIOUS
    <3> HIDE DEF Bad
    <3> QED BY <1>1, <3>1, SmallestSubset
  <2>2. \A t \in SUBSET s : t # s => good(t)
    BY <2>1
  <2>3. s # {}
    <3>1. {} \notin Bad
      BY SumEmpty DEF sum
    <3> QED BY <2>1, <3>1, Zenon
  <2>4. PICK p : p = Pick(s)
    OBVIOUS
  <2>5. p \in s /\ sum(s) = f[p] + sum(s \ {p})
    BY <2>1, <2>3, <2>4, FS_Subset, SumPick, ZenonT(30) DEF Pick, sum
  <2>6. s \ {p} \in SUBSET s /\ s \ {p} # s /\ f[p] \in Int
    BY <2>1, <2>5
  <2>7. good(s \ {p})
    BY <2>2, <2>6
  <2>8. ASSUME NEW x \in s
        PROVE  sum(s) = f[x] + sum(s \ {x})
    <3>1. CASE x = p
      BY <3>1, <2>5
    <3>2. CASE x # p
      <4>1. s \ {x} \in SUBSET s /\ s \ {x} # s /\ p \in s \ {x} /\ x \in s \ {p}
        BY <3>2, <2>5, <2>8
      <4>2. sum(s \ {x}) \in Int /\ sum(s \ {x}) = f[p] + sum((s \ {x}) \ {p})
        BY <4>1, <2>2
      <4>3. sum(s \ {p}) \in Int /\ sum(s \ {p}) = f[x] + sum((s \ {p}) \ {x})
        BY <4>1, <2>7
      <4>4. sum((s \ {x}) \ {p}) = sum((s \ {p}) \ {x})
        <5>1. (s \ {x}) \ {p} = (s \ {p}) \ {x}
          OBVIOUS
        <5> QED BY <5>1, Zenon
      <4>5. sum((s \ {x}) \ {p}) \in Int
        BY <4>1, <2>2
      <4>6. f[x] \in Int
        BY <2>1
      <4> QED BY <4>2, <4>3, <4>4, <4>5, <4>6, <2>5, <2>6
    <3> QED BY <3>1, <3>2
  <2>9. sum(s) \in Int
    BY <2>5, <2>6, <2>7
  <2> QED BY <2>1, <2>8, <2>9
<1>2. good(S)
  BY <1>1
<1> QED BY <1>2 DEF sum

\* A sum of naturals is a natural, and at least each of them.
LEMMA SumNat ==
  ASSUME NEW f, NEW S, IsFiniteSet(S), \A x \in S : f[x] \in Nat
  PROVE  /\ SumFunctionOnSet(f, S) \in Nat
         /\ \A x \in S : f[x] <= SumFunctionOnSet(f, S)
<1> DEFINE sum(s) == SumFunctionOnSet(f, s)
           Bad == {s \in SUBSET S : sum(s) \notin Nat}
<1> HIDE DEF sum
<1>1. ASSUME NEW s \in SUBSET S
      PROVE  \A x \in s : sum(s) = f[x] + sum(s \ {x})
  <2>1. IsFiniteSet(s)
    BY FS_Subset
  <2>2. \A x \in s : f[x] \in Int
    OBVIOUS
  <2> QED BY <2>1, <2>2, SumRemove DEF sum
<1>2. ASSUME Bad # {} PROVE FALSE
  <2>1. PICK s \in Bad : \A t \in Bad : t \subseteq s => t = s
    <3>1. Bad \subseteq SUBSET S
      OBVIOUS
    <3> HIDE DEF Bad
    <3> QED BY <1>2, <3>1, SmallestSubset
  <2>2. s # {}
    <3>1. {} \notin Bad
      BY SumEmpty DEF sum
    <3> QED BY <2>1, <3>1, Zenon
  <2>3. PICK x \in s : TRUE
    BY <2>2
  <2>4. sum(s \ {x}) \in Nat
    BY <2>1, <2>3
  <2>5. sum(s) = f[x] + sum(s \ {x}) /\ f[x] \in Nat
    BY <1>1, <2>1, <2>3
  <2> QED BY <2>1, <2>4, <2>5
<1>3. \A s \in SUBSET S : sum(s) \in Nat
  BY <1>2
<1>4. ASSUME NEW x \in S
      PROVE  f[x] <= sum(S)
  <2>1. sum(S) = f[x] + sum(S \ {x}) /\ sum(S \ {x}) \in Nat /\ f[x] \in Nat
    BY <1>1, <1>3
  <2> QED BY <2>1
<1> QED BY <1>3, <1>4 DEF sum

\* The sum over a set with one element more.
LEMMA SumAdd ==
  ASSUME NEW f, NEW S, IsFiniteSet(S), NEW x, x \notin S,
         \A y \in S \cup {x} : f[y] \in Int
  PROVE  SumFunctionOnSet(f, S \cup {x}) = SumFunctionOnSet(f, S) + f[x]
<1>1. IsFiniteSet(S \cup {x}) /\ (S \cup {x}) \ {x} = S
  BY FS_AddElement
<1>2. SumFunctionOnSet(f, S \cup {x}) = f[x] + SumFunctionOnSet(f, S)
  BY <1>1, SumRemove
<1>3. SumFunctionOnSet(f, S) \in Int
  BY SumRemove
<1> QED BY <1>2, <1>3

\* Changing a function at one point changes its sum by the difference.
LEMMA SumUpdate ==
  ASSUME NEW f, NEW e, NEW S, IsFiniteSet(S), NEW x \in S,
         \A y \in S : f[y] \in Int /\ e[y] \in Int,
         \A y \in S : y # x => e[y] = f[y]
  PROVE  SumFunctionOnSet(e, S) = SumFunctionOnSet(f, S) - f[x] + e[x]
<1> DEFINE T == S \ {x}
<1>1. IsFiniteSet(T)
  BY FS_RemoveElement
<1>2. SumFunctionOnSet(f, T) = SumFunctionOnSet(e, T)
  BY <1>1, SumEqual
<1>3. SumFunctionOnSet(f, T) \in Int
  BY <1>1, SumRemove
<1>4. /\ SumFunctionOnSet(f, S) = f[x] + SumFunctionOnSet(f, T)
      /\ SumFunctionOnSet(e, S) = e[x] + SumFunctionOnSet(e, T)
  BY SumRemove
<1> HIDE DEF T
<1> QED BY <1>2, <1>3, <1>4

\* The sum over a set is the sum over a part and over the rest.
LEMMA SumSplit ==
  ASSUME NEW f, NEW S, IsFiniteSet(S), \A x \in S : f[x] \in Int, NEW T \in SUBSET S
  PROVE  SumFunctionOnSet(f, S) = SumFunctionOnSet(f, T) + SumFunctionOnSet(f, S \ T)
<1> DEFINE sum(s) == SumFunctionOnSet(f, s)
           Bad == {s \in SUBSET S : sum(S) # sum(s) + sum(S \ s)}
<1> HIDE DEF sum
<1>1. \A s \in SUBSET S : sum(s) \in Int /\ \A x \in s : sum(s) = f[x] + sum(s \ {x})
  BY FS_Subset, SumRemove DEF sum
<1>2. ASSUME Bad # {} PROVE FALSE
  <2>1. PICK s \in Bad : \A t \in Bad : t \subseteq s => t = s
    <3>1. Bad \subseteq SUBSET S
      OBVIOUS
    <3> HIDE DEF Bad
    <3> QED BY <1>2, <3>1, SmallestSubset
  <2>2. s # {}
    <3>1. S \ {} = S
      OBVIOUS
    <3>2. sum({}) = 0 /\ sum(S) \in Int
      BY <1>1, SumEmpty DEF sum
    <3>3. sum(S \ {}) = sum(S)
      BY <3>1, Zenon
    <3>4. sum(S) = sum({}) + sum(S \ {})
      BY <3>2, <3>3
    <3>5. {} \notin Bad
      BY <3>4
    <3> QED BY <2>1, <3>5, Zenon
  <2>3. PICK x \in s : TRUE
    BY <2>2
  <2>4. PICK t : t = s \ {x}
    OBVIOUS
  <2>5. sum(S) = sum(t) + sum(S \ t)
    BY <2>1, <2>3, <2>4
  <2>6. sum(s) = f[x] + sum(t)
    BY <1>1, <2>1, <2>3, <2>4
  <2>7. sum(S \ t) = f[x] + sum(S \ s)
    <3>1. S \ t \in SUBSET S /\ x \in S \ t /\ (S \ t) \ {x} = S \ s
      BY <2>1, <2>3, <2>4
    <3>2. sum(S \ t) = f[x] + sum((S \ t) \ {x})
      BY <1>1, <3>1
    <3> QED BY <3>1, <3>2
  <2>8. sum(t) \in Int /\ sum(S \ s) \in Int /\ f[x] \in Int
    BY <1>1, <2>1, <2>3, <2>4
  <2> QED BY <2>1, <2>5, <2>6, <2>7, <2>8
<1>3. sum(S) = sum(T) + sum(S \ T)
  BY <1>2
<1> QED BY <1>3 DEF sum

\* The sum of a sum of functions.
LEMMA SumPlus ==
  ASSUME NEW f, NEW e, NEW h, NEW S, IsFiniteSet(S),
         \A x \in S : f[x] \in Int /\ e[x] \in Int /\ h[x] = f[x] + e[x]
  PROVE  SumFunctionOnSet(h, S) = SumFunctionOnSet(f, S) + SumFunctionOnSet(e, S)
<1> DEFINE sum(g, s) == SumFunctionOnSet(g, s)
           Bad == {s \in SUBSET S : sum(h, s) # sum(f, s) + sum(e, s)}
<1> HIDE DEF sum
<1>1. ASSUME NEW s \in SUBSET S
      PROVE  /\ sum(f, s) \in Int /\ \A x \in s : sum(f, s) = f[x] + sum(f, s \ {x})
             /\ sum(e, s) \in Int /\ \A x \in s : sum(e, s) = e[x] + sum(e, s \ {x})
             /\ sum(h, s) \in Int /\ \A x \in s : sum(h, s) = h[x] + sum(h, s \ {x})
  <2>1. IsFiniteSet(s)
    BY FS_Subset
  <2>2. \A x \in s : f[x] \in Int /\ e[x] \in Int /\ h[x] \in Int
    OBVIOUS
  <2> QED BY <2>1, <2>2, SumRemove DEF sum
<1>2. ASSUME Bad # {} PROVE FALSE
  <2>1. PICK s \in Bad : \A t \in Bad : t \subseteq s => t = s
    <3>1. Bad \subseteq SUBSET S
      OBVIOUS
    <3> HIDE DEF Bad
    <3> QED BY <1>2, <3>1, SmallestSubset
  <2>2. s # {}
    <3>1. {} \notin Bad
      BY SumEmpty DEF sum
    <3> QED BY <2>1, <3>1, Zenon
  <2>3. PICK x \in s : TRUE
    BY <2>2
  <2>4. PICK t \in SUBSET S : t = s \ {x}
    BY <2>1
  <2>5. sum(h, t) = sum(f, t) + sum(e, t)
    BY <2>1, <2>3, <2>4
  <2>6. /\ sum(f, s) = f[x] + sum(f, t)
        /\ sum(e, s) = e[x] + sum(e, t)
        /\ sum(h, s) = h[x] + sum(h, t)
    BY <1>1, <2>1, <2>3, <2>4
  <2>7. /\ sum(f, t) \in Int /\ sum(e, t) \in Int /\ sum(h, t) \in Int
        /\ f[x] \in Int /\ e[x] \in Int /\ h[x] = f[x] + e[x]
    BY <1>1, <2>1, <2>3, <2>4
  <2> QED BY <2>1, <2>5, <2>6, <2>7
<1>3. sum(h, S) = sum(f, S) + sum(e, S)
  BY <1>2
<1> QED BY <1>3 DEF sum

\* A function that is zero everywhere has sum zero.
LEMMA SumZero ==
  ASSUME NEW f, NEW S, IsFiniteSet(S), \A x \in S : f[x] = 0
  PROVE  SumFunctionOnSet(f, S) = 0
<1> DEFINE n == SumFunctionOnSet(f, S)
<1>1. n = n + n
  BY SumPlus
<1>2. n \in Int
  BY SumRemove
<1> HIDE DEF n
<1>3. n = 0
  BY <1>1, <1>2
<1> QED BY <1>3 DEF n
-----------------------------------------------------------------------------
(* Iterations, written as functions on 0..n.                               *)

\* What holds of the first value of an iteration, and with each value of the
\* next one, holds of all.
LEMMA IterationStays ==
  ASSUME NEW n \in Nat, NEW G, NEW c, c[0] \in G,
         \A i \in 1..n : c[i-1] \in G => c[i] \in G
  PROVE  \A i \in 0..n : c[i] \in G
<1> DEFINE Bad == {i \in 0..n : c[i] \notin G}
<1>1. ASSUME Bad # {} PROVE FALSE
  <2>1. Bad \subseteq Nat
    OBVIOUS
  <2>2. PICK i \in Bad : \A j \in Bad : i <= j
    <3> HIDE DEF Bad
    <3> QED BY <1>1, <2>1, LeastNatural
  <2>3. i \in 1..n
    BY <2>2
  <2>4. i - 1 \in 0..n /\ i - 1 \notin Bad
    BY <2>2, <2>3
  <2> QED BY <2>2, <2>3, <2>4
<1> QED BY <1>1

\* The values of an iteration: g begins with s and applies F n times.
Repeats(g, n, s, F) == g = [i \in 0..n |-> IF i = 0 THEN s ELSE F[<<g[i-1], i>>]]

\* The iteration of a function has a solution.
LEMMA IterationSolved ==
  ASSUME NEW n \in Nat, NEW s, NEW F
  PROVE  \E g : Repeats(g, n, s, F)
<1> DEFINE step(g, i) == IF i = 0 THEN s ELSE F[<<g[i-1], i>>]
           solved(g, m) == /\ g = [i \in 0..n |-> g[i]]
                           /\ \A i \in 0..n : i <= m => g[i] = step(g, i)
           Bad == {m \in Nat : ~ \E g : solved(g, m)}
<1>1. 0 \notin Bad
  <2> DEFINE g == [i \in 0..n |-> s]
  <2>1. solved(g, 0)
    OBVIOUS
  <2> QED BY <2>1
<1>2. ASSUME NEW m \in Nat, m \notin Bad
      PROVE  m + 1 \notin Bad
  <2>1. PICK g : solved(g, m)
    BY <1>2
  <2> DEFINE h == [i \in 0..n |-> step(g, i)]
  <2>2. h = [i \in 0..n |-> h[i]]
    OBVIOUS
  <2>3. ASSUME NEW i \in 0..n, i <= m + 1
        PROVE  h[i] = step(h, i)
    <3>1. CASE i = 0
      BY <3>1
    <3>2. CASE i # 0
      <4>1. i - 1 \in 0..n /\ i - 1 <= m
        BY <2>3, <3>2
      <4>2. h[i-1] = g[i-1]
        BY <4>1, <2>1
      <4> QED BY <3>2, <4>2
    <3> QED BY <3>1, <3>2
  <2>4. solved(h, m + 1)
    BY <2>2, <2>3
  <2> HIDE DEF h
  <2> QED BY <2>4
<1> HIDE DEF Bad
<1>3. Bad = {}
  <2> SUFFICES ASSUME Bad # {} PROVE FALSE
    OBVIOUS
  <2>1. PICK m \in Bad : \A j \in Bad : m <= j
    BY LeastNatural DEF Bad
  <2>2. m \in Nat /\ m # 0
    BY <1>1, <2>1 DEF Bad
  <2>3. m - 1 \in Nat /\ m - 1 \notin Bad
    BY <2>1, <2>2
  <2>4. (m - 1) + 1 \notin Bad
    BY <2>3, <1>2
  <2> QED BY <2>1, <2>2, <2>4
<1>4. PICK g : solved(g, n)
  BY <1>3 DEF Bad
<1>5. ASSUME NEW i \in 0..n
      PROVE  g[i] = step(g, i)
  <2>1. i <= n
    OBVIOUS
  <2> QED BY <1>4, <2>1
<1>6. g = [i \in 0..n |-> step(g, i)]
  BY <1>4, <1>5
<1> QED BY <1>6 DEF Repeats

\* What holds of the first value with its index, and is kept by every step, holds
\* of all: G is a set of pairs of an index and a value.
LEMMA IterationKeeps ==
  ASSUME NEW n \in Nat, NEW g, NEW G, <<0, g[0]>> \in G,
         \A i \in 1..n : <<i-1, g[i-1]>> \in G => <<i, g[i]>> \in G
  PROVE  \A i \in 0..n : <<i, g[i]>> \in G
<1> DEFINE c == [i \in 0..n |-> <<i, g[i]>>]
<1>1. \A i \in 0..n : c[i] = <<i, g[i]>>
  OBVIOUS
<1>2. c[0] \in G
  <2>1. 0 \in 0..n
    OBVIOUS
  <2>2. c[0] = <<0, g[0]>>
    BY <1>1, <2>1
  <2> HIDE DEF c
  <2> QED BY <2>2
<1>3. ASSUME NEW i \in 1..n, c[i-1] \in G PROVE c[i] \in G
  <2>1. i \in 0..n /\ i - 1 \in 0..n
    OBVIOUS
  <2>2. c[i-1] = <<i-1, g[i-1]>> /\ c[i] = <<i, g[i]>>
    BY <1>1, <2>1
  <2> HIDE DEF c
  <2> QED BY <1>3, <2>2
<1> HIDE DEF c
<1>4. \A i \in 0..n : c[i] \in G
  BY <1>2, <1>3, IterationStays
<1> QED BY <1>1, <1>4
-----------------------------------------------------------------------------
(* A sum over other names.                                                 *)

\* h gives every element of S a name of its own, and these are the set T.
Renames(h, S, T) ==
  /\ \A x, y \in S : h[x] = h[y] => x = y
  /\ \A y : y \in T <=> \E x \in S : y = h[x]

\* A sum does not change when its terms are renamed.
LEMMA SumReindex ==
  ASSUME NEW S, IsFiniteSet(S), NEW f, NEW e, NEW h,
         \A x \in S : f[x] \in Int /\ e[h[x]] = f[x],
         NEW T, Renames(h, S, T)
  PROVE  SumFunctionOnSet(f, S) = SumFunctionOnSet(e, T)
<1> DEFINE img(s) == {h[x] : x \in s}
           sum(g, s) == SumFunctionOnSet(g, s)
           Bad == {s \in SUBSET S : sum(f, s) # sum(e, img(s))}
<1>1. ASSUME NEW s \in SUBSET S, NEW x \in s
      PROVE  /\ IsFiniteSet(s) /\ IsFiniteSet(img(s))
             /\ img(s \ {x}) = img(s) \ {h[x]} /\ h[x] \in img(s)
             /\ sum(f, s) = f[x] + sum(f, s \ {x})
             /\ sum(e, img(s)) = e[h[x]] + sum(e, img(s) \ {h[x]})
  <2>1. IsFiniteSet(s)
    BY FS_Subset
  <2>2. IsFiniteSet(img(s))
    <3> DEFINE k == [y \in s |-> h[y]]
    <3>1. k \in Surjection(s, img(s))
      BY DEF Surjection
    <3> HIDE DEF k, img
    <3> QED BY <2>1, <3>1, FS_Surjection
  <2>3. h[x] \in img(s) /\ \A y \in img(s) : e[y] \in Int
    OBVIOUS
  <2>4. \A y \in s : f[y] \in Int
    OBVIOUS
  <2>5. img(s \ {x}) = img(s) \ {h[x]}
    BY DEF Renames
  <2> HIDE DEF img
  <2>6. sum(f, s) = f[x] + sum(f, s \ {x})
    BY <2>1, <2>4, SumRemove
  <2>7. sum(e, img(s)) = e[h[x]] + sum(e, img(s) \ {h[x]})
    BY <2>2, <2>3, SumRemove
  <2> QED BY <2>1, <2>2, <2>3, <2>5, <2>6, <2>7
<1>2. img({}) = {}
  OBVIOUS
<1>3. ASSUME Bad # {} PROVE FALSE
  <2>1. PICK s \in Bad : \A t \in Bad : t \subseteq s => t = s
    <3>1. Bad \subseteq SUBSET S
      OBVIOUS
    <3> HIDE DEF Bad
    <3> QED BY <1>3, <3>1, SmallestSubset
  <2>2. s # {}
    BY <1>2, <2>1, SumEmpty
  <2>3. PICK x \in s : TRUE
    BY <2>2
  <2>4. s \ {x} \in SUBSET S /\ s \ {x} \notin Bad
    BY <2>1, <2>3
  <2>5. sum(f, s \ {x}) = sum(e, img(s \ {x})) /\ s \in SUBSET S
    BY <2>1, <2>4
  <2>6. e[h[x]] = f[x]
    BY <2>3, <2>5
  <2>7. sum(f, s) # sum(e, img(s))
    BY <2>1
  <2> HIDE DEF sum, img, Bad
  <2>8. /\ img(s \ {x}) = img(s) \ {h[x]}
        /\ sum(f, s) = f[x] + sum(f, s \ {x})
        /\ sum(e, img(s)) = e[h[x]] + sum(e, img(s) \ {h[x]})
    BY <1>1, <2>3, <2>5
  <2> QED BY <2>5, <2>6, <2>7, <2>8
<1>4. S \notin Bad
  BY <1>3
<1>5. img(S) = T
  BY DEF Renames
<1> HIDE DEF Bad, img
<1> QED BY <1>4, <1>5 DEF Bad
=============================================================================
