-------------------------------- MODULE Sums --------------------------------
(***************************************************************************)
(* What SumFunctionOnSet and SumFunction of the community modules add up   *)
(* to, for functions from finite sets to integers: sums of chips, of cards *)
(* and of points in the modules of the games.                              *)
(***************************************************************************)
EXTENDS Integers, Functions, FiniteSetTheorems, WellFoundedInduction, TLAPS

Any(s) == CHOOSE x \in s : TRUE

\* The equation the sums over the subsets of T are defined by.
SumEquation(g, f, T) ==
  g = [s \in SUBSET T |-> IF s = {} THEN 0 ELSE f[Any(s)] + g[s \ {Any(s)}]]

\* A nonempty set of naturals has a least element.
LEMMA LeastNatural ==
  ASSUME NEW T \in SUBSET Nat, T # {}
  PROVE  \E m \in T : \A n \in T : m <= n
<1>1. PICK m \in T : \A n \in T : <<n, m>> \notin OpToRel(<, Nat)
  BY WFMin, NatLessThanWellFounded, Zenon
<1>2. \A n \in T : ~(n < m)
  BY <1>1, Zenon DEF OpToRel
<1>3. QED
  BY <1>2, SMT

\* A family of subsets of a finite set that has every set all of whose proper subsets it
\* has, has the set itself.
LEMMA SubsetInduction ==
  ASSUME NEW T, IsFiniteSet(T), NEW G,
         \A U \in SUBSET T : (\A V \in SUBSET U : V # U => V \in G) => U \in G
  PROVE  \A U \in SUBSET T : U \in G
<1> DEFINE Bad == {U \in SUBSET T : U \notin G}
<1>1. Bad \subseteq FiniteSubsetsOf(T)
  BY FS_Subset DEF FiniteSubsetsOf
<1>2. SUFFICES ASSUME Bad # {} PROVE FALSE
  OBVIOUS
<1>3. PICK U \in Bad : \A V \in Bad : <<V, U>> \notin StrictSubsetOrdering(T)
  <2>1. IsWellFoundedOn(StrictSubsetOrdering(T), FiniteSubsetsOf(T))
    BY FS_StrictSubsetOrderingWellFounded
  <2>0. Bad \subseteq FiniteSubsetsOf(T) /\ Bad # {}
    BY <1>1, <1>2
  <2> HIDE DEF Bad
  <2>2. QED
    BY <2>0, <2>1, WFMin
<1>4. \A V \in SUBSET U : V # U => V \in G
  BY <1>3 DEF StrictSubsetOrdering
<1>5. QED
  BY <1>3, <1>4

\* A family that has the empty set, and a set whenever it has it without one element.
LEMMA SetInduction ==
  ASSUME NEW T, IsFiniteSet(T), NEW G, {} \in G,
         \A U \in SUBSET T : \A x \in U : U \ {x} \in G => U \in G
  PROVE  T \in G
<1>1. \A U \in SUBSET T : (\A V \in SUBSET U : V # U => V \in G) => U \in G
  <2> SUFFICES ASSUME NEW U \in SUBSET T, \A V \in SUBSET U : V # U => V \in G PROVE U \in G
    OBVIOUS
  <2>1. CASE U = {}
    BY <2>1
  <2>2. CASE U # {}
    <3>1. PICK x \in U : TRUE
      BY <2>2
    <3>2. U \ {x} \in G
      BY <3>1
    <3>3. QED
      BY <3>1, <3>2
  <2>3. QED
    BY <2>1, <2>2
<1>2. QED
  BY <1>1, SubsetInduction, Zenon

-----------------------------------------------------------------------------
\* A sum is the value, at the whole set, of a function chosen to satisfy the equation.
LEMMA SumIsChosen ==
  \A f, T : SumFunctionOnSet(f, T) = (CHOOSE g : SumEquation(g, f, T))[T]
BY Zenon DEF SumFunctionOnSet, FoldFunctionOnSet, MapThenFoldSet, SumEquation, Any

\* The sums over all subsets of a finite set satisfy their equation.
LEMMA SumsSatisfyEquation ==
  ASSUME NEW f, NEW T, IsFiniteSet(T)
  PROVE  \A U \in SUBSET T : SumEquation([s \in SUBSET U |-> SumFunctionOnSet(f, s)], f, U)
<1> DEFINE sums(U) == [s \in SUBSET U |-> SumFunctionOnSet(f, s)]
           G == {U \in SUBSET T : SumEquation(sums(U), f, U)}
<1>1. \A U \in SUBSET T : (\A V \in SUBSET U : V # U => V \in G) => U \in G
  <2> SUFFICES ASSUME NEW U \in SUBSET T, \A V \in SUBSET U : V # U => V \in G
               PROVE  SumEquation(sums(U), f, U)
    OBVIOUS
  <2> DEFINE whole == IF U = {} THEN 0 ELSE f[Any(U)] + SumFunctionOnSet(f, U \ {Any(U)})
             k == [s \in SUBSET U |-> IF s = U THEN whole ELSE SumFunctionOnSet(f, s)]
             c == CHOOSE g : SumEquation(g, f, U)
  <2>1. \A s \in SUBSET U : s # {} => Any(s) \in s /\ s \ {Any(s)} \in SUBSET U
                                     /\ s \ {Any(s)} # U /\ s \ {Any(s)} # s
    BY DEF Any
  <2>2. \A s \in SUBSET U : s # U =>
          SumFunctionOnSet(f, s) = IF s = {} THEN 0
                                   ELSE f[Any(s)] + SumFunctionOnSet(f, s \ {Any(s)})
    <3> SUFFICES ASSUME NEW s \in SUBSET U, s # U
                 PROVE  SumFunctionOnSet(f, s) = IF s = {} THEN 0
                                   ELSE f[Any(s)] + SumFunctionOnSet(f, s \ {Any(s)})
      OBVIOUS
    <3>1. SumEquation(sums(s), f, s)
      OBVIOUS
    <3>2. sums(s)[s] = IF s = {} THEN 0 ELSE f[Any(s)] + sums(s)[s \ {Any(s)}]
      BY <3>1, Zenon DEF SumEquation
    <3>3. s \ {Any(s)} \in SUBSET s
      OBVIOUS
    <3>4. QED
      BY <3>2, <3>3
  <2>3. SumEquation(k, f, U)
    <3>1. \A s \in SUBSET U : k[s] = IF s = {} THEN 0 ELSE f[Any(s)] + k[s \ {Any(s)}]
      <4> SUFFICES ASSUME NEW s \in SUBSET U
                   PROVE  k[s] = IF s = {} THEN 0 ELSE f[Any(s)] + k[s \ {Any(s)}]
        OBVIOUS
      <4>1. CASE s = {}
        BY <4>1, <2>2
      <4>2. CASE s # {}
        <5>1. k[s \ {Any(s)}] = SumFunctionOnSet(f, s \ {Any(s)})
          BY <2>1, <4>2
        <5>2. QED
          BY <4>2, <5>1, <2>2
      <4>3. QED
        BY <4>1, <4>2
    <3> HIDE DEF whole
    <3>2. k = [s \in SUBSET U |-> k[s]]
      OBVIOUS
    <3> HIDE DEF k
    <3>3. QED
      BY <3>1, <3>2, Zenon DEF SumEquation
  <2>4. SumEquation(c, f, U)
    BY <2>3, Zenon
  <2> HIDE DEF c
  <2>5. \A s \in SUBSET U : c[s] = IF s = {} THEN 0 ELSE f[Any(s)] + c[s \ {Any(s)}]
    BY <2>4, Zenon DEF SumEquation
  <2>6. \A s \in SUBSET U : s # U => c[s] = SumFunctionOnSet(f, s)
    <3> DEFINE H == {s \in SUBSET U : s # U => c[s] = SumFunctionOnSet(f, s)}
    <3>1. \A s \in SUBSET U : (\A v \in SUBSET s : v # s => v \in H) => s \in H
      <4> SUFFICES ASSUME NEW s \in SUBSET U, \A v \in SUBSET s : v # s => v \in H, s # U
                   PROVE  c[s] = SumFunctionOnSet(f, s)
        OBVIOUS
      <4>1. CASE s = {}
        BY <4>1, <2>2, <2>5
      <4>2. CASE s # {}
        <5>1. s \ {Any(s)} \in H /\ s \ {Any(s)} # U
          BY <4>2, <2>1
        <5>2. c[s \ {Any(s)}] = SumFunctionOnSet(f, s \ {Any(s)})
          BY <5>1
        <5>3. QED
          BY <4>2, <5>2, <2>2, <2>5
      <4>3. QED
        BY <4>1, <4>2
    <3>2. IsFiniteSet(U)
      BY FS_Subset
    <3> HIDE DEF H
    <3>3. \A s \in SUBSET U : s \in H
      BY <3>1, <3>2, SubsetInduction, Zenon
    <3>4. QED
      BY <3>3 DEF H
  <2>7. c[U] = SumFunctionOnSet(f, U)
    BY SumIsChosen, Zenon DEF c
  <2>8. \A s \in SUBSET U : c[s] = SumFunctionOnSet(f, s)
    BY <2>6, <2>7
  <2>9. c = [s \in SUBSET U |-> c[s]]
    BY <2>4, Zenon DEF SumEquation
  <2>10. c = sums(U)
    BY <2>8, <2>9
  <2>11. QED
    BY <2>4, <2>10
<1> HIDE DEF G
<1>2. \A U \in SUBSET T : U \in G
  BY <1>1, SubsetInduction, Zenon
<1>3. QED
  BY <1>2 DEF G

-----------------------------------------------------------------------------
\* The sum over no element at all.
LEMMA SumOfNone == \A f : SumFunctionOnSet(f, {}) = 0
<1> SUFFICES ASSUME NEW f PROVE SumFunctionOnSet(f, {}) = 0
  OBVIOUS
<1> DEFINE sums == [s \in SUBSET {} |-> SumFunctionOnSet(f, s)]
<1>1. SumEquation(sums, f, {})
  BY SumsSatisfyEquation, FS_EmptySet, Zenon
<1>2. sums[{}] = 0
  BY <1>1 DEF SumEquation
<1>3. QED
  BY <1>2

\* The element the sum takes first.
LEMMA SumTakesAny ==
  ASSUME NEW f, NEW T, IsFiniteSet(T), T # {}
  PROVE  /\ Any(T) \in T
         /\ SumFunctionOnSet(f, T) = f[Any(T)] + SumFunctionOnSet(f, T \ {Any(T)})
<1> DEFINE sums == [s \in SUBSET T |-> SumFunctionOnSet(f, s)]
<1>1. SumEquation(sums, f, T)
  BY SumsSatisfyEquation, Zenon
<1>2. sums[T] = f[Any(T)] + sums[T \ {Any(T)}]
  <2>1. T \in SUBSET T
    OBVIOUS
  <2> HIDE DEF sums
  <2>2. QED
    BY <1>1, <2>1, Zenon DEF SumEquation
<1>3. QED
  BY <1>2 DEF Any

\* Sums of integers are integers.
LEMMA SumIsInteger ==
  ASSUME NEW T, IsFiniteSet(T), NEW f, \A x \in T : f[x] \in Int
  PROVE  SumFunctionOnSet(f, T) \in Int
<1> DEFINE G == {U \in SUBSET T : SumFunctionOnSet(f, U) \in Int}
<1>1. \A U \in SUBSET T : (\A V \in SUBSET U : V # U => V \in G) => U \in G
  <2> SUFFICES ASSUME NEW U \in SUBSET T, \A V \in SUBSET U : V # U => V \in G
               PROVE  SumFunctionOnSet(f, U) \in Int
    OBVIOUS
  <2>1. CASE U = {}
    BY <2>1, SumOfNone
  <2>2. CASE U # {}
    <3>1. IsFiniteSet(U)
      BY FS_Subset
    <3>2. /\ Any(U) \in U
          /\ SumFunctionOnSet(f, U) = f[Any(U)] + SumFunctionOnSet(f, U \ {Any(U)})
      BY <2>2, <3>1, SumTakesAny
    <3>3. U \ {Any(U)} \in G
      BY <3>2
    <3>4. QED
      BY <3>2, <3>3
  <2>3. QED
    BY <2>1, <2>2
<1> HIDE DEF G
<1>2. \A U \in SUBSET T : U \in G
  BY <1>1, SubsetInduction, Zenon
<1>3. QED
  BY <1>2 DEF G

\* Any element may be taken out of a sum.
LEMMA SumWithout ==
  ASSUME NEW T, IsFiniteSet(T), NEW f, \A x \in T : f[x] \in Int, NEW y \in T
  PROVE  SumFunctionOnSet(f, T) = f[y] + SumFunctionOnSet(f, T \ {y})
<1> DEFINE G == {U \in SUBSET T : \A x \in U :
                   SumFunctionOnSet(f, U) = f[x] + SumFunctionOnSet(f, U \ {x})}
<1>1. \A U \in SUBSET T : (\A V \in SUBSET U : V # U => V \in G) => U \in G
  <2> SUFFICES ASSUME NEW U \in SUBSET T, \A V \in SUBSET U : V # U => V \in G, NEW x \in U
               PROVE  SumFunctionOnSet(f, U) = f[x] + SumFunctionOnSet(f, U \ {x})
    OBVIOUS
  <2> DEFINE a == Any(U)
             rest == U \ {a, x}
  <2>1. IsFiniteSet(U)
    BY FS_Subset
  <2>2. a \in U /\ SumFunctionOnSet(f, U) = f[a] + SumFunctionOnSet(f, U \ {a})
    BY <2>1, SumTakesAny
  <2> HIDE DEF a
  <2>3. CASE x = a
    BY <2>2, <2>3
  <2>4. CASE x # a
    <3>1. U \ {a} \in G /\ x \in U \ {a} /\ U \ {x} \in G /\ a \in U \ {x}
      BY <2>2, <2>4
    <3>2. (U \ {a}) \ {x} = rest /\ (U \ {x}) \ {a} = rest
      OBVIOUS
    <3>3. /\ SumFunctionOnSet(f, U \ {a}) = f[x] + SumFunctionOnSet(f, rest)
          /\ SumFunctionOnSet(f, U \ {x}) = f[a] + SumFunctionOnSet(f, rest)
      BY <3>1, <3>2
    <3>4. SumFunctionOnSet(f, rest) \in Int
      <4>1. IsFiniteSet(rest) /\ \A z \in rest : f[z] \in Int
        BY FS_Subset
      <4>2. QED
        BY <4>1, SumIsInteger, Zenon
    <3>5. f[a] \in Int /\ f[x] \in Int
      BY <2>2
    <3>6. QED
      BY <2>2, <3>3, <3>4, <3>5
  <2>5. QED
    BY <2>3, <2>4
<1> HIDE DEF G
<1>2. T \in G
  BY <1>1, SubsetInduction, Zenon
<1>3. QED
  BY <1>2 DEF G

\* The sum over one element.
LEMMA SumOfOne ==
  ASSUME NEW f, NEW x, f[x] \in Int
  PROVE  SumFunctionOnSet(f, {x}) = f[x]
<1>1. SumFunctionOnSet(f, {x}) = f[x] + SumFunctionOnSet(f, {x} \ {x})
  <2>1. IsFiniteSet({x}) /\ \A z \in {x} : f[z] \in Int
    BY FS_Singleton
  <2>2. QED
    BY <2>1, SumWithout
<1>2. SumFunctionOnSet(f, {x} \ {x}) = 0
  <2>1. {x} \ {x} = {}
    OBVIOUS
  <2>2. QED
    BY <2>1, SumOfNone
<1>3. QED
  BY <1>1, <1>2

\* Functions that agree on a set have the same sum over it.
LEMMA SumOfEqual ==
  ASSUME NEW T, IsFiniteSet(T), NEW f, NEW g,
         \A x \in T : f[x] \in Int /\ f[x] = g[x]
  PROVE  SumFunctionOnSet(f, T) = SumFunctionOnSet(g, T)
<1> DEFINE G == {U \in SUBSET T : SumFunctionOnSet(f, U) = SumFunctionOnSet(g, U)}
<1>1. {} \in G
  BY SumOfNone
<1>2. \A U \in SUBSET T : \A x \in U : U \ {x} \in G => U \in G
  <2> SUFFICES ASSUME NEW U \in SUBSET T, NEW x \in U, U \ {x} \in G PROVE U \in G
    OBVIOUS
  <2>1. IsFiniteSet(U) /\ \A z \in U : f[z] \in Int /\ g[z] \in Int
    BY FS_Subset
  <2>2. /\ SumFunctionOnSet(f, U) = f[x] + SumFunctionOnSet(f, U \ {x})
        /\ SumFunctionOnSet(g, U) = g[x] + SumFunctionOnSet(g, U \ {x})
    BY <2>1, SumWithout
  <2>3. QED
    BY <2>2
<1> HIDE DEF G
<1>3. T \in G
  BY <1>1, <1>2, SetInduction, Zenon
<1>4. QED
  BY <1>3 DEF G

\* A function that is the sum of two others.
LEMMA SumOfSum ==
  ASSUME NEW T, IsFiniteSet(T), NEW f, NEW g, NEW h,
         \A x \in T : f[x] \in Int /\ g[x] \in Int /\ h[x] = f[x] + g[x]
  PROVE  SumFunctionOnSet(h, T) = SumFunctionOnSet(f, T) + SumFunctionOnSet(g, T)
<1> DEFINE G == {U \in SUBSET T :
                   SumFunctionOnSet(h, U) = SumFunctionOnSet(f, U) + SumFunctionOnSet(g, U)}
<1>1. {} \in G
  BY SumOfNone
<1>2. \A U \in SUBSET T : \A x \in U : U \ {x} \in G => U \in G
  <2> SUFFICES ASSUME NEW U \in SUBSET T, NEW x \in U, U \ {x} \in G PROVE U \in G
    OBVIOUS
  <2>1. IsFiniteSet(U) /\ IsFiniteSet(U \ {x})
    BY FS_Subset
  <2>2. \A z \in U : f[z] \in Int /\ g[z] \in Int /\ h[z] \in Int
    OBVIOUS
  <2>3. /\ SumFunctionOnSet(f, U) = f[x] + SumFunctionOnSet(f, U \ {x})
        /\ SumFunctionOnSet(g, U) = g[x] + SumFunctionOnSet(g, U \ {x})
        /\ SumFunctionOnSet(h, U) = h[x] + SumFunctionOnSet(h, U \ {x})
    BY <2>1, <2>2, SumWithout
  <2>4. /\ SumFunctionOnSet(f, U \ {x}) \in Int
        /\ SumFunctionOnSet(g, U \ {x}) \in Int
    BY <2>1, <2>2, SumIsInteger
  <2>5. QED
    BY <2>2, <2>3, <2>4
<1> HIDE DEF G
<1>3. T \in G
  BY <1>1, <1>2, SetInduction, Zenon
<1>4. QED
  BY <1>3 DEF G

\* The sum of a constant.
LEMMA SumOfConstant ==
  ASSUME NEW T, IsFiniteSet(T), NEW c \in Int, NEW f, \A x \in T : f[x] = c
  PROVE  SumFunctionOnSet(f, T) = c * Cardinality(T)
<1> DEFINE G == {U \in SUBSET T : SumFunctionOnSet(f, U) = c * Cardinality(U)}
<1>1. {} \in G
  BY SumOfNone, FS_EmptySet
<1>2. \A U \in SUBSET T : \A x \in U : U \ {x} \in G => U \in G
  <2> SUFFICES ASSUME NEW U \in SUBSET T, NEW x \in U, U \ {x} \in G PROVE U \in G
    OBVIOUS
  <2>1. IsFiniteSet(U) /\ \A z \in U : f[z] \in Int
    BY FS_Subset
  <2>2. SumFunctionOnSet(f, U) = c + c * Cardinality(U \ {x})
    BY <2>1, SumWithout
  <2>3. Cardinality(U) \in Nat /\ Cardinality(U \ {x}) = Cardinality(U) - 1
    BY <2>1, FS_RemoveElement, FS_CardinalityType
  <2>4. c + c * (Cardinality(U) - 1) = c * Cardinality(U)
    BY <2>3
  <2>5. QED
    BY <2>2, <2>3, <2>4
<1> HIDE DEF G
<1>3. T \in G
  BY <1>1, <1>2, SetInduction, Zenon
<1>4. QED
  BY <1>3 DEF G

\* Larger terms, a larger sum.
LEMMA SumIsMonotonic ==
  ASSUME NEW T, IsFiniteSet(T), NEW f, NEW g,
         \A x \in T : f[x] \in Int /\ g[x] \in Int /\ f[x] <= g[x]
  PROVE  SumFunctionOnSet(f, T) <= SumFunctionOnSet(g, T)
<1> DEFINE G == {U \in SUBSET T : SumFunctionOnSet(f, U) <= SumFunctionOnSet(g, U)}
<1>1. {} \in G
  BY SumOfNone
<1>2. \A U \in SUBSET T : \A x \in U : U \ {x} \in G => U \in G
  <2> SUFFICES ASSUME NEW U \in SUBSET T, NEW x \in U, U \ {x} \in G PROVE U \in G
    OBVIOUS
  <2>1. IsFiniteSet(U) /\ IsFiniteSet(U \ {x}) /\ \A z \in U : f[z] \in Int /\ g[z] \in Int
    BY FS_Subset
  <2>2. /\ SumFunctionOnSet(f, U) = f[x] + SumFunctionOnSet(f, U \ {x})
        /\ SumFunctionOnSet(g, U) = g[x] + SumFunctionOnSet(g, U \ {x})
    BY <2>1, SumWithout
  <2>3. /\ SumFunctionOnSet(f, U \ {x}) \in Int
        /\ SumFunctionOnSet(g, U \ {x}) \in Int
    BY <2>1, SumIsInteger
  <2>4. f[x] \in Int /\ g[x] \in Int /\ f[x] <= g[x]
    OBVIOUS
  <2>5. QED
    BY <2>2, <2>3, <2>4
<1> HIDE DEF G
<1>3. T \in G
  BY <1>1, <1>2, SetInduction, Zenon
<1>4. QED
  BY <1>3 DEF G

\* Sums of natural numbers are natural numbers, no smaller than any of their terms.
LEMMA SumCoversTerms ==
  ASSUME NEW T, IsFiniteSet(T), NEW f, \A x \in T : f[x] \in Nat
  PROVE  /\ SumFunctionOnSet(f, T) \in Nat
         /\ \A x \in T : f[x] <= SumFunctionOnSet(f, T)
<1>1. ASSUME NEW U \in SUBSET T PROVE SumFunctionOnSet(f, U) \in Nat
  <2> DEFINE zero == [x \in U |-> 0]
  <2>1. IsFiniteSet(U)
    BY FS_Subset
  <2>2. Cardinality(U) \in Nat
    BY <2>1, FS_CardinalityType
  <2>3. SumFunctionOnSet(zero, U) = 0 * Cardinality(U)
    <3>1. \A x \in U : zero[x] = 0
      OBVIOUS
    <3> HIDE DEF zero
    <3>2. QED
      BY <2>1, <3>1, SumOfConstant
  <2>4. SumFunctionOnSet(zero, U) = 0
    BY <2>2, <2>3
  <2>5. \A x \in U : zero[x] \in Int /\ f[x] \in Int /\ zero[x] <= f[x]
    OBVIOUS
  <2> HIDE DEF zero
  <2>6. SumFunctionOnSet(zero, U) <= SumFunctionOnSet(f, U)
    BY <2>1, <2>5, SumIsMonotonic
  <2>7. SumFunctionOnSet(f, U) \in Int
    BY <2>1, <2>5, SumIsInteger
  <2>8. QED
    BY <2>4, <2>6, <2>7
<1>2. ASSUME NEW x \in T PROVE f[x] <= SumFunctionOnSet(f, T)
  <2>1. \A y \in T : f[y] \in Int
    OBVIOUS
  <2>2. SumFunctionOnSet(f, T) = f[x] + SumFunctionOnSet(f, T \ {x})
    BY <2>1, SumWithout
  <2>3. SumFunctionOnSet(f, T \ {x}) \in Nat /\ f[x] \in Nat
    BY <1>1
  <2>4. QED
    BY <2>2, <2>3
<1>3. QED
  BY <1>1, <1>2

\* A finite nonempty set of naturals has a greatest element.
LEMMA GreatestNatural ==
  ASSUME NEW S, IsFiniteSet(S), S \subseteq Nat, S # {}
  PROVE  \E x \in S : \A y \in S : y <= x
<1> DEFINE HasLargest(U) == U # {} => \E x \in U : \A y \in U : x >= y
           G == {U \in SUBSET S : HasLargest(U)}
<1>1. {} \in G
  OBVIOUS
<1>2. \A U \in SUBSET S : \A x \in U : U \ {x} \in G => U \in G
  <2> SUFFICES ASSUME NEW U \in SUBSET S, NEW x \in U, HasLargest(U \ {x}) PROVE HasLargest(U)
    OBVIOUS
  <2>1. CASE U \ {x} = {}
    <3>1. U = {x} /\ x \in Nat
      BY <2>1
    <3>2. QED
      BY <3>1
  <2>2. CASE U \ {x} # {}
    <3>1. PICK m \in U \ {x} : \A y \in U \ {x} : m >= y
      BY <2>2
    <3>2. \A y \in U : y \in Nat
      OBVIOUS
    <3>3. CASE m >= x
      BY <3>1, <3>2, <3>3
    <3>4. CASE ~(m >= x)
      <4>1. \A y \in U : x >= y
        BY <3>1, <3>2, <3>4
      <4>2. QED
        BY <4>1
    <3>5. QED
      BY <3>3, <3>4
  <2>3. QED
    BY <2>1, <2>2
<1> HIDE DEF G
<1>3. S \in G
  BY <1>1, <1>2, SetInduction, Zenon
<1>4. QED
  BY <1>3 DEF G

\* A common factor may be taken out.
LEMMA SumOfMultiples ==
  ASSUME NEW T, IsFiniteSet(T), NEW c \in Int, NEW f, NEW g,
         \A x \in T : f[x] \in Int /\ g[x] = c * f[x]
  PROVE  SumFunctionOnSet(g, T) = c * SumFunctionOnSet(f, T)
<1> DEFINE G == {U \in SUBSET T : SumFunctionOnSet(g, U) = c * SumFunctionOnSet(f, U)}
<1>1. {} \in G
  BY SumOfNone
<1>2. \A U \in SUBSET T : \A x \in U : U \ {x} \in G => U \in G
  <2> SUFFICES ASSUME NEW U \in SUBSET T, NEW x \in U, U \ {x} \in G PROVE U \in G
    OBVIOUS
  <2>1. IsFiniteSet(U) /\ IsFiniteSet(U \ {x}) /\ \A z \in U : f[z] \in Int /\ g[z] \in Int
    BY FS_Subset
  <2>2. /\ SumFunctionOnSet(f, U) = f[x] + SumFunctionOnSet(f, U \ {x})
        /\ SumFunctionOnSet(g, U) = g[x] + SumFunctionOnSet(g, U \ {x})
    BY <2>1, SumWithout
  <2>3. /\ SumFunctionOnSet(f, U \ {x}) \in Int
        /\ f[x] \in Int /\ g[x] = c * f[x]
        /\ SumFunctionOnSet(g, U \ {x}) = c * SumFunctionOnSet(f, U \ {x})
    BY <2>1, SumIsInteger
  <2>4. SumFunctionOnSet(g, U) = c * SumFunctionOnSet(f, U)
    BY <2>2, <2>3
  <2>5. QED
    BY <2>4
<1> HIDE DEF G
<1>3. T \in G
  BY <1>1, <1>2, SetInduction, Zenon
<1>4. QED
  BY <1>3 DEF G

\* Terms that are zero need not be summed.
LEMMA SumOverPart ==
  ASSUME NEW T, IsFiniteSet(T), NEW A \in SUBSET T, NEW f, \A x \in T : f[x] \in Int,
         \A x \in T \ A : f[x] = 0
  PROVE  SumFunctionOnSet(f, T) = SumFunctionOnSet(f, A)
<1> DEFINE G == {U \in SUBSET (T \ A) : SumFunctionOnSet(f, A \cup U) = SumFunctionOnSet(f, A)}
<1>1. {} \in G
  BY Zenon
<1>2. \A U \in SUBSET (T \ A) : \A x \in U : U \ {x} \in G => U \in G
  <2> SUFFICES ASSUME NEW U \in SUBSET (T \ A), NEW x \in U, U \ {x} \in G PROVE U \in G
    OBVIOUS
  <2> DEFINE W == A \cup U
  <2>1. W \subseteq T /\ x \in W /\ W \ {x} = A \cup (U \ {x}) /\ f[x] = 0
    OBVIOUS
  <2>2. IsFiniteSet(W) /\ IsFiniteSet(A) /\ (\A z \in W : f[z] \in Int) /\ \A z \in A : f[z] \in Int
    BY <2>1, FS_Subset
  <2> HIDE DEF W
  <2>3. SumFunctionOnSet(f, W) = f[x] + SumFunctionOnSet(f, W \ {x})
    BY <2>1, <2>2, SumWithout
  <2>4. SumFunctionOnSet(f, W \ {x}) = SumFunctionOnSet(f, A)
    BY <2>1
  <2>5. SumFunctionOnSet(f, A) \in Int
    BY <2>2, SumIsInteger
  <2>6. SumFunctionOnSet(f, W) = SumFunctionOnSet(f, A)
    BY <2>1, <2>3, <2>4, <2>5
  <2>7. QED
    BY <2>6 DEF W
<1>3. IsFiniteSet(T \ A)
  BY FS_Subset
<1> HIDE DEF G
<1>4. T \ A \in G
  BY <1>1, <1>2, <1>3, SetInduction, Zenon
<1>5. SumFunctionOnSet(f, A \cup (T \ A)) = SumFunctionOnSet(f, A)
  BY <1>4 DEF G
<1>6. A \cup (T \ A) = T
  OBVIOUS
<1>7. QED
  BY <1>5, <1>6, Zenon

\* The sum of the rows of a table is the sum of its columns.
LEMMA SumOfRows ==
  ASSUME NEW S, IsFiniteSet(S), NEW T, IsFiniteSet(T), NEW f,
         \A x \in S, y \in T : f[x][y] \in Int
  PROVE  SumFunctionOnSet([x \in S |-> SumFunctionOnSet(f[x], T)], S)
           = SumFunctionOnSet([y \in T |-> SumFunctionOnSet([x \in S |-> f[x][y]], S)], T)
<1> DEFINE row == [x \in S |-> SumFunctionOnSet(f[x], T)]
           column(U) == [y \in T |-> SumFunctionOnSet([x \in S |-> f[x][y]], U)]
           G == {U \in SUBSET S : SumFunctionOnSet(row, U) = SumFunctionOnSet(column(U), T)}
<1>1. {} \in G
  <2>1. \A y \in T : column({})[y] = 0
    BY SumOfNone, Zenon
  <2> HIDE DEF column
  <2>2. SumFunctionOnSet(column({}), T) = 0 * Cardinality(T)
    BY <2>1, SumOfConstant
  <2>3. Cardinality(T) \in Nat
    BY FS_CardinalityType
  <2>4. SumFunctionOnSet(column({}), T) = SumFunctionOnSet(row, {})
    BY <2>2, <2>3, SumOfNone
  <2>5. QED
    BY <2>4
<1>2. \A U \in SUBSET S : \A x \in U : U \ {x} \in G => U \in G
  <2> SUFFICES ASSUME NEW U \in SUBSET S, NEW x \in U, U \ {x} \in G PROVE U \in G
    OBVIOUS
  <2>1. IsFiniteSet(U) /\ IsFiniteSet(U \ {x})
    BY FS_Subset
  <2>2. \A z \in S : row[z] \in Int
    BY SumIsInteger
  <2>3. SumFunctionOnSet(row, U) = row[x] + SumFunctionOnSet(row, U \ {x})
    <3>1. \A z \in U : row[z] \in Int
      BY <2>2
    <3> HIDE DEF row
    <3>2. QED
      BY <2>1, <3>1, SumWithout
  <2>4. \A y \in T : /\ f[x][y] \in Int /\ column(U \ {x})[y] \in Int
                     /\ column(U)[y] = f[x][y] + column(U \ {x})[y]
    <3> SUFFICES ASSUME NEW y \in T
                 PROVE  /\ f[x][y] \in Int /\ column(U \ {x})[y] \in Int
                        /\ column(U)[y] = f[x][y] + column(U \ {x})[y]
      OBVIOUS
    <3> DEFINE c == [z \in S |-> f[z][y]]
    <3>1. /\ column(U)[y] = SumFunctionOnSet(c, U)
          /\ column(U \ {x})[y] = SumFunctionOnSet(c, U \ {x})
      BY Zenon
    <3>2. (\A z \in U : c[z] \in Int) /\ (\A z \in U \ {x} : c[z] \in Int) /\ c[x] = f[x][y]
      OBVIOUS
    <3> HIDE DEF c, column
    <3>3. SumFunctionOnSet(c, U) = c[x] + SumFunctionOnSet(c, U \ {x})
      BY <2>1, <3>2, SumWithout
    <3>4. SumFunctionOnSet(c, U \ {x}) \in Int
      BY <2>1, <3>2, SumIsInteger
    <3>5. QED
      BY <3>1, <3>2, <3>3, <3>4
  <2>5. row[x] = SumFunctionOnSet(f[x], T)
    BY Zenon
  <2> HIDE DEF row, column
  <2>6. SumFunctionOnSet(column(U), T)
          = SumFunctionOnSet(f[x], T) + SumFunctionOnSet(column(U \ {x}), T)
    BY <2>4, SumOfSum
  <2>7. QED
    BY <2>3, <2>5, <2>6
<1> HIDE DEF G
<1>3. S \in G
  BY <1>1, <1>2, SetInduction, Zenon
<1>4. QED
  BY <1>3, Zenon DEF G

\* The elements of S with fewer than k others below them.
LowestOf(S, k) == {w \in S : Cardinality({v \in S : v < w}) < k}

\* Of a finite set of naturals, k elements have fewer than k others below them.
LEMMA LowestAreAsMany ==
  ASSUME NEW S \in SUBSET Nat, IsFiniteSet(S), NEW k \in 0 .. Cardinality(S)
  PROVE  Cardinality(LowestOf(S, k)) = k
<1> DEFINE G == {U \in SUBSET S : \A i \in 0 .. Cardinality(U) : Cardinality(LowestOf(U, i)) = i}
<1>1. \A U \in SUBSET S : (\A V \in SUBSET U : V # U => V \in G) => U \in G
  <2> SUFFICES ASSUME NEW U \in SUBSET S, \A V \in SUBSET U : V # U => V \in G,
                      NEW i \in 0 .. Cardinality(U)
               PROVE  Cardinality(LowestOf(U, i)) = i
    OBVIOUS
  <2>1. IsFiniteSet(U) /\ Cardinality(U) \in Nat
    BY FS_Subset, FS_CardinalityType
  <2>2. CASE i = Cardinality(U)
    <3>1. \A w \in U : Cardinality({v \in U : v < w}) < i
      <4> SUFFICES ASSUME NEW w \in U PROVE Cardinality({v \in U : v < w}) < i
        OBVIOUS
      <4> DEFINE B == {v \in U : v < w}
      <4>1. B \subseteq U \ {w}
        OBVIOUS
      <4>2. IsFiniteSet(U \ {w}) /\ Cardinality(U \ {w}) = Cardinality(U) - 1
        BY <2>1, FS_RemoveElement
      <4>3. IsFiniteSet(B) /\ Cardinality(B) <= Cardinality(U \ {w}) /\ Cardinality(B) \in Nat
        BY <4>1, <4>2, FS_Subset, FS_CardinalityType
      <4> HIDE DEF B
      <4>4. Cardinality(B) < i
        BY <2>1, <2>2, <4>2, <4>3
      <4>5. QED
        BY <4>4, Zenon DEF B
    <3>2. LowestOf(U, i) = U
      <4>1. LowestOf(U, i) = {w \in U : Cardinality({v \in U : v < w}) < i}
        BY Zenon DEF LowestOf
      <4>2. \A w \in U : w \in LowestOf(U, i)
        BY <3>1, <4>1, Zenon
      <4>3. LowestOf(U, i) \subseteq U
        BY <4>1, Zenon
      <4>4. QED
        BY <4>2, <4>3, Zenon
    <3>3. QED
      BY <2>2, <3>2
  <2>3. CASE i # Cardinality(U)
    <3>1. U # {}
      BY <2>1, <2>3, FS_EmptySet
    <3>2. PICK m \in U : \A n \in U : n <= m
      BY <2>1, <3>1, GreatestNatural
    <3> DEFINE V == U \ {m}
    <3>3. V \in G /\ V # U
      OBVIOUS
    <3>4. IsFiniteSet(V) /\ Cardinality(V) = Cardinality(U) - 1
      BY <2>1, FS_RemoveElement
    <3>5. Cardinality(LowestOf(V, i)) = i
      <4>1. i \in 0 .. Cardinality(V)
        BY <2>1, <2>3, <3>4
      <4>2. QED
        BY <3>3, <4>1
    <3>6. \A w \in V : {v \in V : v < w} = {v \in U : v < w}
      BY <3>2
    <3>7. {v \in U : v < m} = V
      <4>1. \A v \in U : v \in Nat
        OBVIOUS
      <4>2. \A v \in U : v < m <=> v # m
        BY <3>2, <4>1
      <4>3. QED
        BY <4>2
    <3>8. ~(Cardinality(V) < i)
      BY <2>1, <2>3, <3>4
    <3>9. U = V \cup {m}
      OBVIOUS
    <3> HIDE DEF V
    <3>10. LowestOf(U, i) = LowestOf(V, i)
      <4>1. \A w \in V : w \in LowestOf(U, i) <=> w \in LowestOf(V, i)
        BY <3>6, <3>9 DEF LowestOf
      <4>2. m \notin LowestOf(U, i)
        BY <3>7, <3>8 DEF LowestOf
      <4>3. LowestOf(U, i) \subseteq U /\ LowestOf(V, i) \subseteq V
        BY DEF LowestOf
      <4>4. QED
        BY <3>9, <4>1, <4>2, <4>3, ZenonT(60)
    <3>11. QED
      BY <3>5, <3>10
  <2>4. QED
    BY <2>2, <2>3
<1>2. \A U \in SUBSET S : U \in G
  <2> HIDE DEF G
  <2>1. QED
    BY <1>1, SubsetInduction
<1>3. S \in G
  BY <1>2
<1>4. QED
  BY <1>3

\* A change of one term changes the sum by as much.
LEMMA SumAfterChange ==
  ASSUME NEW T, IsFiniteSet(T), NEW f, \A x \in T : f[x] \in Int,
         NEW y \in T, NEW d \in Int, NEW g, g[y] = f[y] + d, \A x \in T \ {y} : g[x] = f[x]
  PROVE  SumFunctionOnSet(g, T) = SumFunctionOnSet(f, T) + d
<1>1. \A x \in T : g[x] \in Int
  OBVIOUS
<1>2. /\ SumFunctionOnSet(f, T) = f[y] + SumFunctionOnSet(f, T \ {y})
      /\ SumFunctionOnSet(g, T) = g[y] + SumFunctionOnSet(g, T \ {y})
  BY <1>1, SumWithout
<1>3. IsFiniteSet(T \ {y})
  BY FS_Subset
<1>4. SumFunctionOnSet(g, T \ {y}) = SumFunctionOnSet(f, T \ {y})
  BY <1>1, <1>3, SumOfEqual
<1>5. SumFunctionOnSet(f, T \ {y}) \in Int
  BY <1>3, SumIsInteger
<1>6. QED
  BY <1>2, <1>4, <1>5

\* Nothing is made or lost when everybody pays one the same.
LEMMA PaymentsToOneCancel ==
  ASSUME NEW T, IsFiniteSet(T), NEW f, \A x \in T : f[x] \in Int,
         NEW p \in T, NEW amount \in Int, NEW g,
         g[p] = f[p] + amount * (Cardinality(T) - 1),
         \A x \in T \ {p} : g[x] = f[x] - amount
  PROVE  SumFunctionOnSet(g, T) = SumFunctionOnSet(f, T)
<1> DEFINE n == Cardinality(T)
           less == [x \in T |-> -amount]
           h == [x \in T |-> f[x] - amount]
<1>1. n \in Nat /\ amount * (n - 1) \in Int /\ amount * n \in Int
  BY FS_CardinalityType
<1>2. /\ \A x \in T : less[x] = -amount
      /\ \A x \in T : f[x] \in Int /\ less[x] \in Int /\ h[x] = f[x] + less[x]
      /\ \A x \in T : h[x] \in Int /\ h[x] = f[x] - amount
  OBVIOUS
<1> HIDE DEF less, h
<1>3. SumFunctionOnSet(less, T) = (-amount) * n
  BY <1>2, SumOfConstant
<1>4. SumFunctionOnSet(h, T) = SumFunctionOnSet(f, T) + SumFunctionOnSet(less, T)
  BY <1>2, SumOfSum
<1> HIDE DEF n
<1>5. g[p] = h[p] + amount * n
  <2>1. g[p] = f[p] + amount * (n - 1)
    BY DEF n
  <2>2. amount * (n - 1) = amount * n - amount
    BY <1>1
  <2>3. QED
    BY <1>1, <1>2, <2>1, <2>2
<1>6. SumFunctionOnSet(g, T) = SumFunctionOnSet(h, T) + amount * n
  BY <1>1, <1>2, <1>5, SumAfterChange
<1>7. SumFunctionOnSet(f, T) \in Int
  BY SumIsInteger
<1>8. (-amount) * n = -(amount * n)
  BY <1>1
<1>9. QED
  BY <1>1, <1>3, <1>4, <1>6, <1>7, <1>8

\* The elements of a finite set and what they are named by are as many.
LEMMA NamesAreAsMany ==
  ASSUME NEW T, IsFiniteSet(T), NEW U, NEW h, \A x, y \in T : h[x] = h[y] => x = y,
         \A x \in T : h[x] \in U, \A u \in U : \E x \in T : h[x] = u
  PROVE  IsFiniteSet(U) /\ Cardinality(U) = Cardinality(T)
<1> DEFINE k == [x \in T |-> h[x]]
<1>1. k \in Bijection(T, U)
  <2>1. k \in [T -> U]
    OBVIOUS
  <2>2. IsInjective(k)
    <3> SUFFICES ASSUME NEW x \in T, NEW y \in T, k[x] = k[y]
                 PROVE  x = y
      BY DEF IsInjective
    <3>1. h[x] = h[y]
      OBVIOUS
    <3>2. QED
      BY <3>1, Zenon
  <2>3. \A u \in U : \E x \in T : k[x] = u
    OBVIOUS
  <2>4. QED
    BY <2>1, <2>2, <2>3, Zenon DEF Bijection, Injection, Surjection
<1>2. ExistsBijection(T, U)
  BY <1>1, Zenon DEF ExistsBijection
<1>3. QED
  BY <1>2, FS_Bijection, Zenon

\* A sum over the names of things is the sum over the things.
LEMMA SumOverNames ==
  ASSUME NEW T, IsFiniteSet(T), NEW U, NEW h, \A x, y \in T : h[x] = h[y] => x = y,
         \A x \in T : h[x] \in U, \A u \in U : \E x \in T : h[x] = u,
         NEW f, NEW g, \A x \in T : g[x] \in Int /\ f[h[x]] = g[x]
  PROVE  SumFunctionOnSet(f, U) = SumFunctionOnSet(g, T)
<1> DEFINE Names(V) == {h[x] : x \in V}
           G == {V \in SUBSET T : SumFunctionOnSet(f, Names(V)) = SumFunctionOnSet(g, V)}
<1>1. {} \in G
  <2>1. Names({}) = {}
    OBVIOUS
  <2>2. QED
    BY <2>1, SumOfNone
<1>2. \A V \in SUBSET T : \A p \in V : V \ {p} \in G => V \in G
  <2> SUFFICES ASSUME NEW V \in SUBSET T, NEW p \in V, V \ {p} \in G
               PROVE  SumFunctionOnSet(f, Names(V)) = SumFunctionOnSet(g, V)
    BY Zenon
  <2>1. IsFiniteSet(V) /\ IsFiniteSet(Names(V))
    <3>1. IsFiniteSet(V)
      BY FS_Subset
    <3>2. /\ \A x, y \in V : h[x] = h[y] => x = y
          /\ \A x \in V : h[x] \in Names(V)
          /\ \A u \in Names(V) : \E x \in V : h[x] = u
      OBVIOUS
    <3>3. IsFiniteSet(Names(V))
      BY <3>1, <3>2, NamesAreAsMany, Zenon
    <3>4. QED
      BY <3>1, <3>3
  <2>2. Names(V \ {p}) = Names(V) \ {h[p]} /\ h[p] \in Names(V)
    OBVIOUS
  <2>3. \A n \in Names(V) : f[n] \in Int
    OBVIOUS
  <2>4. SumFunctionOnSet(f, Names(V)) = f[h[p]] + SumFunctionOnSet(f, Names(V) \ {h[p]})
    <3> DEFINE N == Names(V)
    <3>1. IsFiniteSet(N) /\ h[p] \in N /\ \A n \in N : f[n] \in Int
      BY <2>1, <2>2, <2>3
    <3> HIDE DEF N
    <3>2. SumFunctionOnSet(f, N) = f[h[p]] + SumFunctionOnSet(f, N \ {h[p]})
      BY <3>1, SumWithout
    <3>3. QED
      BY <3>2 DEF N
  <2>5. SumFunctionOnSet(g, V) = g[p] + SumFunctionOnSet(g, V \ {p})
    BY <2>1, SumWithout
  <2>6. SumFunctionOnSet(f, Names(V) \ {h[p]}) = SumFunctionOnSet(g, V \ {p})
    BY <2>2
  <2>7. QED
    BY <2>4, <2>5, <2>6
<1>3. T \in G
  <2> HIDE DEF G
  <2>1. QED
    BY <1>1, <1>2, SetInduction, Zenon
<1>4. Names(T) = U
  OBVIOUS
<1>5. QED
  BY <1>3, <1>4

\* Of ranked things, k are those with fewer than k of lower rank.
LEMMA FirstAreAsMany ==
  ASSUME NEW T, IsFiniteSet(T), NEW rank, \A x \in T : rank[x] \in Nat,
         \A x, y \in T : rank[x] = rank[y] => x = y, NEW k \in 0 .. Cardinality(T)
  PROVE  Cardinality({x \in T : Cardinality({y \in T : rank[y] < rank[x]}) < k}) = k
<1> DEFINE S == {rank[x] : x \in T}
           first == {x \in T : Cardinality({y \in T : rank[y] < rank[x]}) < k}
<1>1. IsFiniteSet(S) /\ Cardinality(S) = Cardinality(T) /\ S \in SUBSET Nat
  <2>1. /\ \A x \in T : rank[x] \in S
        /\ \A u \in S : \E x \in T : rank[x] = u
        /\ S \in SUBSET Nat
    OBVIOUS
  <2> HIDE DEF S
  <2>2. QED
    BY <2>1, NamesAreAsMany, Zenon
<1>2. Cardinality(LowestOf(S, k)) = k
  BY <1>1, LowestAreAsMany
<1>3. \A x \in T : Cardinality({v \in S : v < rank[x]}) = Cardinality({y \in T : rank[y] < rank[x]})
  <2> SUFFICES ASSUME NEW x \in T
               PROVE  Cardinality({v \in S : v < rank[x]}) = Cardinality({y \in T : rank[y] < rank[x]})
    OBVIOUS
  <2> DEFINE B == {y \in T : rank[y] < rank[x]}
             L == {v \in S : v < rank[x]}
  <2>1. IsFiniteSet(B)
    BY FS_Subset
  <2>2. /\ \A y, z \in B : rank[y] = rank[z] => y = z
        /\ \A y \in B : rank[y] \in L
        /\ \A u \in L : \E y \in B : rank[y] = u
    OBVIOUS
  <2> HIDE DEF B, L
  <2>3. Cardinality(L) = Cardinality(B)
    BY <2>1, <2>2, NamesAreAsMany, Zenon
  <2>4. QED
    BY <2>3 DEF B, L
<1>4. /\ \A x \in first : rank[x] \in LowestOf(S, k)
      /\ \A u \in LowestOf(S, k) : \E x \in first : rank[x] = u
  BY <1>3 DEF LowestOf
<1>5. IsFiniteSet(first) /\ \A x, y \in first : rank[x] = rank[y] => x = y
  BY FS_Subset
<1> HIDE DEF first
<1>6. Cardinality(LowestOf(S, k)) = Cardinality(first)
  BY <1>4, <1>5, NamesAreAsMany, Zenon
<1>7. QED
  BY <1>2, <1>6 DEF first
=============================================================================
