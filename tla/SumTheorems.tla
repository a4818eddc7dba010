---------------------------- MODULE SumTheorems ----------------------------
(***************************************************************************)
(* Induction over the natural numbers and over finite sets, in a form that *)
(* needs no operator as a parameter: a statement P(n) is the set of the n  *)
(* that satisfy it.  From it, what SumFunctionOnSet of Functions computes, *)
(* whichever order its fold takes the elements in.                         *)
(***************************************************************************)
EXTENDS Functions, FiniteSets, Integers, FiniteSetTheorems, WellFoundedInduction, TLAPS

\* Every set of natural numbers that has an element has a least one.
LEMMA LeastNat ==
    ASSUME NEW S \in SUBSET Nat, S # {}
    PROVE  \E n \in S : \A m \in S : n <= m
<1> DEFINE R == OpToRel(<, Nat)
<1>1. IsWellFoundedOn(R, Nat)
  BY NatLessThanWellFounded, Zenon
<1> HIDE DEF R
<1>2. PICK x \in S : \A y \in S : ~(<<y, x>> \in R)
  BY <1>1, WFMin
<1>3. \A y \in S : ~(y < x)
  BY <1>2 DEF R, OpToRel
<1> QED BY <1>3

\* Induction: a set with 0 that is closed under successor is all of Nat.
LEMMA NatSetInduction ==
    ASSUME NEW S \in SUBSET Nat, 0 \in S, \A n \in S : n + 1 \in S
    PROVE  S = Nat
<1>1. SUFFICES ASSUME Nat \ S # {} PROVE FALSE
  OBVIOUS
<1>2. PICK n \in Nat \ S : \A m \in Nat \ S : n <= m
  BY <1>1, LeastNat
<1>3. n # 0 /\ n - 1 \in Nat /\ n - 1 \notin Nat \ S
  BY <1>2
<1> QED BY <1>2, <1>3

\* The same over finite sets: when some member of a collection C of finite
\* sets exists, one of them has the fewest elements.
LEMMA SmallestSet ==
    ASSUME NEW C, C # {}, \A S \in C : IsFiniteSet(S)
    PROVE  \E S \in C : \A T \in C : Cardinality(S) <= Cardinality(T)
<1> DEFINE N == {Cardinality(S) : S \in C}
<1>1. N \in SUBSET Nat /\ N # {}
  BY FS_CardinalityType
<1>2. PICK n \in N : \A m \in N : n <= m
  BY <1>1, LeastNat
<1> QED BY <1>2

-----------------------------------------------------------------------------
(* The recursive function under SumFunctionOnSet                           *)

Pick(s) == CHOOSE x \in s : TRUE
IsSum(g, f, S) ==
    g = [s \in SUBSET S |-> IF s = {} THEN 0 ELSE f[Pick(s)] + g[s \ {Pick(s)}]]

GivesSums(g, f, S) == \A T \in SUBSET S : SumFunctionOnSet(f, T) = g[T]

\* CHOOSE finds an element.
LEMMA PickIn == ASSUME NEW s, s # {} PROVE Pick(s) \in s
  BY DEF Pick

\* The sum is what the recursive function in the fold gives.
LEMMA SumUnfolds ==
    ASSUME NEW f, NEW S
    PROVE  SumFunctionOnSet(f, S) = (CHOOSE g : IsSum(g, f, S))[S]
  BY DEF SumFunctionOnSet, FoldFunctionOnSet, MapThenFoldSet, IsSum, Pick

\* Such a function exists, by induction over the size of the sets.
LEMMA SumExists ==
    ASSUME NEW S, IsFiniteSet(S), NEW f, \A x \in S : f[x] \in Int
    PROVE  \E g \in [SUBSET S -> Int] : IsSum(g, f, S)
<1> DEFINE Def(g, s) == IF s = {} THEN 0 ELSE f[Pick(s)] + g[s \ {Pick(s)}]
           Good(n, g) == \A s \in SUBSET S : Cardinality(s) <= n => g[s] = Def(g, s)
           P == {n \in Nat : \E g \in [SUBSET S -> Int] : Good(n, g)}
<1>0. \A s \in SUBSET S : Cardinality(s) \in Nat /\ (Cardinality(s) = 0 <=> s = {})
  BY FS_Subset, FS_CardinalityType, FS_EmptySet
<1>1. \A s \in SUBSET S : /\ IsFiniteSet(s) /\ Cardinality(s) \in Nat
                          /\ s # {} => /\ Pick(s) \in s /\ Pick(s) \in S
                                       /\ s \ {Pick(s)} \in SUBSET S
                                       /\ Cardinality(s \ {Pick(s)}) = Cardinality(s) - 1
                          /\ Cardinality(s) <= Cardinality(S)
  BY PickIn, FS_Subset, FS_RemoveElement, FS_CardinalityType
<1>2. 0 \in P
  <2> DEFINE g == [s \in SUBSET S |-> 0]
  <2>1. g \in [SUBSET S -> Int]
    OBVIOUS
  <2>2. \A s \in SUBSET S : Cardinality(s) <= 0 => s = {}
    BY <1>0
  <2>3. Good(0, g)
    BY <2>2
  <2> QED BY <2>1, <2>3
<1>3. ASSUME NEW n \in P PROVE n + 1 \in P
  <2>1. PICK g \in [SUBSET S -> Int] : Good(n, g)
    BY <1>3
  <2> DEFINE h == [s \in SUBSET S |-> Def(g, s)]
  <2>2. h \in [SUBSET S -> Int]
    <3>1. \A s \in SUBSET S : s # {} => f[Pick(s)] \in Int /\ g[s \ {Pick(s)}] \in Int
      BY <1>1
    <3>2. \A s \in SUBSET S : Def(g, s) \in Int
      BY <3>1
    <3> HIDE DEF Def
    <3> QED BY <3>2
  <2>3. ASSUME NEW s \in SUBSET S, Cardinality(s) <= n + 1
        PROVE  h[s] = Def(h, s)
    <3>1. CASE s = {}
      BY <3>1
    <3>2. CASE s # {}
      <4> DEFINE r == s \ {Pick(s)}
      <4>1. r \in SUBSET S /\ Cardinality(r) <= n
        BY <1>1, <2>3, <3>2
      <4>2. h[r] = Def(g, r) /\ g[r] = Def(g, r)
        BY <4>1, <2>1
      <4> QED BY <4>2, <3>2
    <3> QED BY <3>1, <3>2
  <2>4. n + 1 \in Nat
    BY <1>3
  <2> HIDE DEF h, Def
  <2> QED BY <2>2, <2>3, <2>4
<1> HIDE DEF P
<1>4. P = Nat
  <2>1. P \in SUBSET Nat
    BY DEF P
  <2> QED BY <2>1, <1>2, <1>3, NatSetInduction
<1>5. Cardinality(S) \in P
  BY <1>4, FS_CardinalityType
<1>6. PICK g \in [SUBSET S -> Int] : Good(Cardinality(S), g)
  BY <1>5 DEF P
<1>7. \A s \in SUBSET S : g[s] = Def(g, s)
  BY <1>6, <1>1
<1>8. g = [s \in SUBSET S |-> Def(g, s)]
  BY <1>7
<1> QED BY <1>8 DEF IsSum

\* Two such functions agree where both are defined.
LEMMA SumUnique ==
    ASSUME NEW S, IsFiniteSet(S), NEW f, NEW T \in SUBSET S, NEW g, NEW h,
           IsSum(g, f, S), IsSum(h, f, T)
    PROVE  \A s \in SUBSET T : g[s] = h[s]
<1> DEFINE C == {s \in SUBSET T : g[s] # h[s]}
<1>1. SUFFICES ASSUME C # {} PROVE FALSE
  OBVIOUS
<1>2. \A s \in SUBSET T : IsFiniteSet(s)
  BY FS_Subset
<1>3. PICK s \in C : \A t \in C : Cardinality(s) <= Cardinality(t)
  <2> HIDE DEF C
  <2>1. \A t \in C : IsFiniteSet(t)
    BY <1>2 DEF C
  <2> QED BY <1>1, <2>1, SmallestSet
<1>4. s # {}
  BY <1>3 DEF IsSum
<1> DEFINE r == s \ {Pick(s)}
<1>5. r \in SUBSET T /\ Cardinality(r) = Cardinality(s) - 1 /\ Cardinality(s) \in Nat
  BY <1>2, <1>3, <1>4, PickIn, FS_RemoveElement, FS_CardinalityType
<1>6. g[r] = h[r]
  <2> HIDE DEF r
  <2> QED BY <1>3, <1>5
<1>7. g[s] = f[Pick(s)] + g[r] /\ h[s] = f[Pick(s)] + h[r]
  BY <1>3, <1>4 DEF IsSum
<1> QED BY <1>3, <1>6, <1>7

\* One function gives the sums of all subsets.
LEMMA SumFunction_All ==
    ASSUME NEW S, IsFiniteSet(S), NEW f, \A x \in S : f[x] \in Int
    PROVE  \E g \in [SUBSET S -> Int] :
              /\ IsSum(g, f, S)
              /\ GivesSums(g, f, S)
<1>1. PICK g \in [SUBSET S -> Int] : IsSum(g, f, S)
  BY SumExists
<1>2. ASSUME NEW T \in SUBSET S PROVE SumFunctionOnSet(f, T) = g[T]
  <2> DEFINE h == CHOOSE h : IsSum(h, f, T)
  <2>1. IsFiniteSet(T) /\ \A x \in T : f[x] \in Int
    BY FS_Subset
  <2>2. \E k : IsSum(k, f, T)
    BY <2>1, SumExists
  <2>3. IsSum(h, f, T)
    BY <2>2, Zenon
  <2>4. SumFunctionOnSet(f, T) = h[T]
    BY SumUnfolds
  <2> HIDE DEF h
  <2>5. g[T] = h[T]
    BY <1>1, <2>3, SumUnique
  <2> QED BY <2>4, <2>5
<1> QED BY <1>1, <1>2 DEF GivesSums

-----------------------------------------------------------------------------
(* Sums                                                                    *)

\* Sums of integers are integers.
LEMMA SumType ==
    ASSUME NEW S, IsFiniteSet(S), NEW f, \A x \in S : f[x] \in Int
    PROVE  SumFunctionOnSet(f, S) \in Int
<1>1. PICK g \in [SUBSET S -> Int] : IsSum(g, f, S) /\ GivesSums(g, f, S)
  BY SumFunction_All
<1> QED BY <1>1 DEF GivesSums

\* The sum of nothing.
LEMMA SumEmpty == ASSUME NEW f PROVE SumFunctionOnSet(f, {}) = 0
<1>1. PICK g \in [SUBSET {} -> Int] : IsSum(g, f, {}) /\ GivesSums(g, f, {})
  BY SumFunction_All, FS_EmptySet
<1> QED BY <1>1 DEF IsSum, GivesSums

\* Any element can be taken out first.
LEMMA SumRemove ==
    ASSUME NEW S, IsFiniteSet(S), NEW f, \A x \in S : f[x] \in Int, NEW x \in S
    PROVE  SumFunctionOnSet(f, S) = f[x] + SumFunctionOnSet(f, S \ {x})
<1>1. PICK g \in [SUBSET S -> Int] : IsSum(g, f, S) /\ GivesSums(g, f, S)
  BY SumFunction_All
<1> DEFINE Bad(s) == \E y \in s : g[s] # f[y] + g[s \ {y}]
           C == {s \in SUBSET S : Bad(s)}
<1>2. SUFFICES ASSUME C # {} PROVE FALSE
  <2>1. C = {} => ~Bad(S)
    OBVIOUS
  <2>2. S \ {x} \in SUBSET S
    OBVIOUS
  <2> QED BY <1>1, <2>1, <2>2 DEF GivesSums
<1>3. \A s \in SUBSET S : IsFiniteSet(s)
  BY FS_Subset
<1>4. PICK s \in C : \A t \in C : Cardinality(s) <= Cardinality(t)
  <2> HIDE DEF C
  <2>1. \A t \in C : IsFiniteSet(t)
    BY <1>3 DEF C
  <2> QED BY <1>2, <2>1, SmallestSet
<1>5. PICK y \in s : g[s] # f[y] + g[s \ {y}]
  BY <1>4
<1> DEFINE z == Pick(s)
<1>6. z \in s /\ s \in SUBSET S
  BY <1>4, <1>5, PickIn
<1>7. g[s] = f[z] + g[s \ {z}]
  BY <1>5, <1>6, <1>1 DEF IsSum
<1> HIDE DEF z
<1>8. y # z
  BY <1>5, <1>7
<1>9. Cardinality(s \ {z}) < Cardinality(s) /\ Cardinality(s \ {y}) < Cardinality(s)
  <2>1. /\ Cardinality(s \ {z}) = Cardinality(s) - 1 /\ Cardinality(s) \in Nat
        /\ Cardinality(s \ {y}) = Cardinality(s) - 1
    BY <1>3, <1>5, <1>6, FS_RemoveElement, FS_CardinalityType
  <2> QED BY <2>1
<1>10. ~Bad(s \ {z}) /\ ~Bad(s \ {y})
  <2>1. s \ {z} \notin C /\ s \ {y} \notin C
    <3> HIDE DEF C
    <3>1. /\ Cardinality(s \ {z}) \in Nat /\ Cardinality(s \ {y}) \in Nat
          /\ Cardinality(s) \in Nat
      BY <1>3, <1>6, FS_CardinalityType
    <3> QED BY <1>4, <1>9, <3>1
  <2>2. s \ {z} \in SUBSET S /\ s \ {y} \in SUBSET S
    BY <1>6
  <2> QED BY <2>1, <2>2
<1> DEFINE r == s \ {y, z}
<1>11. (s \ {z}) \ {y} = r /\ (s \ {y}) \ {z} = r
  OBVIOUS
<1>12. g[s \ {z}] = f[y] + g[r] /\ g[s \ {y}] = f[z] + g[r]
  BY <1>5, <1>6, <1>8, <1>10, <1>11
<1>13. f[y] \in Int /\ f[z] \in Int /\ g[r] \in Int
  BY <1>1, <1>5, <1>6
<1> QED BY <1>5, <1>7, <1>12, <1>13

\* One element more.
LEMMA SumAdd ==
    ASSUME NEW S, IsFiniteSet(S), NEW f, NEW x, x \notin S,
           \A y \in S \union {x} : f[y] \in Int
    PROVE  SumFunctionOnSet(f, S \union {x}) = f[x] + SumFunctionOnSet(f, S)
<1>1. IsFiniteSet(S \union {x}) /\ (S \union {x}) \ {x} = S
  BY FS_AddElement
<1> QED BY <1>1, SumRemove

\* A sum grows with its terms.
LEMMA SumMonotone ==
    ASSUME NEW S, IsFiniteSet(S), NEW f, NEW g,
           \A x \in S : f[x] \in Int /\ g[x] \in Int /\ f[x] <= g[x]
    PROVE  SumFunctionOnSet(f, S) <= SumFunctionOnSet(g, S)
<1> DEFINE C == {s \in SUBSET S : ~(SumFunctionOnSet(f, s) <= SumFunctionOnSet(g, s))}
<1>1. SUFFICES ASSUME C # {} PROVE FALSE
  OBVIOUS
<1>2. \A s \in SUBSET S : IsFiniteSet(s)
  BY FS_Subset
<1>3. PICK s \in C : \A t \in C : Cardinality(s) <= Cardinality(t)
  <2> HIDE DEF C
  <2>1. \A t \in C : IsFiniteSet(t)
    BY <1>2 DEF C
  <2> QED BY <1>1, <2>1, SmallestSet
<1>4. s # {}
  BY <1>3, SumEmpty
<1>5. PICK x \in s : TRUE
  BY <1>4
<1>6. IsFiniteSet(s) /\ s \in SUBSET S
  BY <1>2, <1>3
<1>7. /\ SumFunctionOnSet(f, s) = f[x] + SumFunctionOnSet(f, s \ {x})
      /\ SumFunctionOnSet(g, s) = g[x] + SumFunctionOnSet(g, s \ {x})
  BY <1>5, <1>6, SumRemove
<1>8. SumFunctionOnSet(f, s \ {x}) <= SumFunctionOnSet(g, s \ {x})
  <2>1. Cardinality(s \ {x}) = Cardinality(s) - 1 /\ Cardinality(s) \in Nat
    BY <1>5, <1>6, FS_RemoveElement, FS_CardinalityType
  <2>2. s \ {x} \notin C
    <3> HIDE DEF C
    <3> QED BY <1>3, <2>1
  <2> QED BY <1>6, <2>2
<1>9. /\ SumFunctionOnSet(f, s \ {x}) \in Int /\ SumFunctionOnSet(g, s \ {x}) \in Int
  <2>1. IsFiniteSet(s \ {x}) /\ s \ {x} \in SUBSET S
    BY <1>2, <1>6
  <2> QED BY <2>1, SumType
<1> QED BY <1>3, <1>5, <1>6, <1>7, <1>8, <1>9

\* It depends on the terms alone.
LEMMA SumSame ==
    ASSUME NEW S, IsFiniteSet(S), NEW f, NEW g,
           \A x \in S : f[x] \in Int /\ f[x] = g[x]
    PROVE  SumFunctionOnSet(f, S) = SumFunctionOnSet(g, S)
<1>1. /\ SumFunctionOnSet(f, S) <= SumFunctionOnSet(g, S)
      /\ SumFunctionOnSet(g, S) <= SumFunctionOnSet(f, S)
  BY SumMonotone
<1>2. SumFunctionOnSet(f, S) \in Int /\ SumFunctionOnSet(g, S) \in Int
  BY SumType
<1> QED BY <1>1, <1>2

\* The sum over the union of two sets that have no element in common.
LEMMA SumUnion ==
    ASSUME NEW S, IsFiniteSet(S), NEW T, IsFiniteSet(T), S \intersect T = {},
           NEW f, \A x \in S \union T : f[x] \in Int
    PROVE  SumFunctionOnSet(f, S \union T)
             = SumFunctionOnSet(f, S) + SumFunctionOnSet(f, T)
<1> DEFINE Bad(s) == SumFunctionOnSet(f, s \union T)
                        # SumFunctionOnSet(f, s) + SumFunctionOnSet(f, T)
           C == {s \in SUBSET S : Bad(s)}
<1>1. SUFFICES ASSUME C # {} PROVE FALSE
  OBVIOUS
<1>2. \A s \in SUBSET S : IsFiniteSet(s)
  BY FS_Subset
<1>3. PICK s \in C : \A t \in C : Cardinality(s) <= Cardinality(t)
  <2> HIDE DEF C
  <2>1. \A t \in C : IsFiniteSet(t)
    BY <1>2 DEF C
  <2> QED BY <1>1, <2>1, SmallestSet
<1>4. s # {}
  <2>1. SumFunctionOnSet(f, T) \in Int /\ {} \union T = T
    BY SumType
  <2> QED BY <1>3, <2>1, SumEmpty
<1>5. PICK x \in s : TRUE
  BY <1>4
<1>6. IsFiniteSet(s) /\ s \in SUBSET S /\ x \notin T
  BY <1>2, <1>3, <1>5
<1> DEFINE r == s \ {x}
<1>7. IsFiniteSet(r) /\ r \in SUBSET S /\ IsFiniteSet(s \union T) /\ IsFiniteSet(r \union T)
  BY <1>2, <1>6, FS_Union
<1>8. SumFunctionOnSet(f, s) = f[x] + SumFunctionOnSet(f, r)
  BY <1>5, <1>6, SumRemove
<1>9. SumFunctionOnSet(f, s \union T) = f[x] + SumFunctionOnSet(f, r \union T)
  <2>1. (s \union T) \ {x} = r \union T /\ x \in s \union T
    BY <1>5, <1>6
  <2>2. \A y \in s \union T : f[y] \in Int
    BY <1>6
  <2> QED BY <1>7, <2>1, <2>2, SumRemove
<1>10. ~Bad(r)
  <2>1. Cardinality(r) = Cardinality(s) - 1 /\ Cardinality(s) \in Nat
    BY <1>5, <1>6, FS_RemoveElement, FS_CardinalityType
  <2>2. r \notin C
    <3> HIDE DEF C, r
    <3> QED BY <1>3, <2>1
  <2> QED BY <1>7, <2>2
<1>11. /\ f[x] \in Int /\ SumFunctionOnSet(f, r) \in Int
       /\ SumFunctionOnSet(f, T) \in Int /\ SumFunctionOnSet(f, r \union T) \in Int
  <2>1. \A y \in r \union T : f[y] \in Int
    BY <1>7
  <2> QED BY <1>5, <1>6, <1>7, <2>1, SumType
<1> QED BY <1>3, <1>8, <1>9, <1>10, <1>11

\* A sum of natural numbers is one.
LEMMA SumNat ==
    ASSUME NEW S, IsFiniteSet(S), NEW f, \A x \in S : f[x] \in Nat
    PROVE  SumFunctionOnSet(f, S) \in Nat
<1> DEFINE C == {s \in SUBSET S : SumFunctionOnSet(f, s) \notin Nat}
<1>1. SUFFICES ASSUME C # {} PROVE FALSE
  OBVIOUS
<1>2. \A s \in SUBSET S : IsFiniteSet(s)
  BY FS_Subset
<1>3. PICK s \in C : \A t \in C : Cardinality(s) <= Cardinality(t)
  <2> HIDE DEF C
  <2>1. \A t \in C : IsFiniteSet(t)
    BY <1>2 DEF C
  <2> QED BY <1>1, <2>1, SmallestSet
<1>4. PICK x \in s : TRUE
  BY <1>3, SumEmpty
<1>5. IsFiniteSet(s) /\ s \in SUBSET S
  BY <1>2, <1>3
<1>6. SumFunctionOnSet(f, s) = f[x] + SumFunctionOnSet(f, s \ {x})
  BY <1>4, <1>5, SumRemove
<1>7. SumFunctionOnSet(f, s \ {x}) \in Nat
  <2>1. Cardinality(s \ {x}) = Cardinality(s) - 1 /\ Cardinality(s) \in Nat
    BY <1>4, <1>5, FS_RemoveElement, FS_CardinalityType
  <2>2. s \ {x} \notin C
    <3> HIDE DEF C
    <3> QED BY <1>3, <2>1
  <2> QED BY <1>5, <2>2
<1> QED BY <1>3, <1>4, <1>5, <1>6, <1>7

\* So a part of it is no greater than the whole.
LEMMA SumSubset ==
    ASSUME NEW S, IsFiniteSet(S), NEW T \in SUBSET S, NEW f, \A x \in S : f[x] \in Nat
    PROVE  SumFunctionOnSet(f, T) <= SumFunctionOnSet(f, S)
<1>1. IsFiniteSet(T) /\ IsFiniteSet(S \ T)
  BY FS_Subset
<1>2. SumFunctionOnSet(f, T) \in Nat /\ SumFunctionOnSet(f, S \ T) \in Nat
  BY <1>1, SumNat
<1>3. T \union (S \ T) = S /\ T \intersect (S \ T) = {}
  OBVIOUS
<1>4. SumFunctionOnSet(f, S) = SumFunctionOnSet(f, T) + SumFunctionOnSet(f, S \ T)
  <2>1. \A x \in T \union (S \ T) : f[x] \in Int
    OBVIOUS
  <2> QED BY <1>1, <1>3, <2>1, SumUnion
<1> QED BY <1>2, <1>4

\* A sum of zeros.
LEMMA SumZero ==
    ASSUME NEW S, IsFiniteSet(S), NEW f, \A x \in S : f[x] = 0
    PROVE  SumFunctionOnSet(f, S) = 0
<1> DEFINE C == {s \in SUBSET S : SumFunctionOnSet(f, s) # 0}
<1>2. SUFFICES ASSUME C # {} PROVE FALSE
  OBVIOUS
<1>3. \A s \in SUBSET S : IsFiniteSet(s)
  BY FS_Subset
<1>4. PICK s \in C : \A t \in C : Cardinality(s) <= Cardinality(t)
  <2> HIDE DEF C
  <2>1. \A t \in C : IsFiniteSet(t)
    BY <1>3 DEF C
  <2> QED BY <1>2, <2>1, SmallestSet
<1>5. PICK x \in s : TRUE
  BY <1>4, SumEmpty
<1>6. IsFiniteSet(s) /\ s \in SUBSET S
  BY <1>3, <1>4
<1>7. SumFunctionOnSet(f, s) = f[x] + SumFunctionOnSet(f, s \ {x})
  BY <1>5, <1>6, SumRemove
<1>8. SumFunctionOnSet(f, s \ {x}) = 0
  <2>1. Cardinality(s \ {x}) = Cardinality(s) - 1 /\ Cardinality(s) \in Nat
    BY <1>5, <1>6, FS_RemoveElement, FS_CardinalityType
  <2>2. s \ {x} \notin C
    <3> HIDE DEF C
    <3> QED BY <1>4, <2>1
  <2> QED BY <1>6, <2>2
<1> QED BY <1>4, <1>5, <1>6, <1>7, <1>8

\* What one more at p does to a sum.
LEMMA SumBump ==
    ASSUME NEW S, IsFiniteSet(S), NEW f, NEW g, NEW p,
           \A x \in S : f[x] \in Int,
           \A x \in S : g[x] = IF x = p THEN f[x] + 1 ELSE f[x]
    PROVE  /\ p \in S => SumFunctionOnSet(g, S) = SumFunctionOnSet(f, S) + 1
           /\ p \notin S => SumFunctionOnSet(g, S) = SumFunctionOnSet(f, S)
<1>1. CASE p \notin S
  BY <1>1, SumSame
<1>2. CASE p \in S
  <2> DEFINE r == S \ {p}
  <2>1. IsFiniteSet(r)
    BY FS_Subset
  <2>2. SumFunctionOnSet(f, r) = SumFunctionOnSet(g, r)
    <3>1. \A x \in r : f[x] \in Int /\ f[x] = g[x]
      OBVIOUS
    <3> HIDE DEF r
    <3> QED BY <2>1, <3>1, SumSame
  <2>3. SumFunctionOnSet(f, S) = f[p] + SumFunctionOnSet(f, r)
    BY <1>2, SumRemove
  <2>4. SumFunctionOnSet(g, S) = g[p] + SumFunctionOnSet(g, r)
    <3>1. \A x \in S : g[x] \in Int
      OBVIOUS
    <3> QED BY <1>2, <3>1, SumRemove
  <2>5. SumFunctionOnSet(f, r) \in Int /\ f[p] \in Int /\ g[p] = f[p] + 1
    BY <1>2, <2>1, SumType
  <2> HIDE DEF r
  <2> QED BY <1>2, <2>2, <2>3, <2>4, <2>5
<1> QED BY <1>1, <1>2

\* The sum of a sum.
LEMMA SumPlus ==
    ASSUME NEW S, IsFiniteSet(S), NEW f, NEW g, NEW h,
           \A x \in S : f[x] \in Int /\ g[x] \in Int /\ h[x] = f[x] + g[x]
    PROVE  SumFunctionOnSet(h, S) = SumFunctionOnSet(f, S) + SumFunctionOnSet(g, S)
<1> DEFINE Bad(s) == SumFunctionOnSet(h, s) # SumFunctionOnSet(f, s) + SumFunctionOnSet(g, s)
           C == {s \in SUBSET S : Bad(s)}
<1> SUFFICES ASSUME C # {} PROVE FALSE
  OBVIOUS
<1>1. PICK s \in C : \A t \in C : Cardinality(s) <= Cardinality(t)
  <2>1. \A t \in C : IsFiniteSet(t)
    BY FS_Subset
  <2> HIDE DEF C
  <2> QED BY <2>1, SmallestSet
<1>2. s \in SUBSET S /\ Bad(s) /\ IsFiniteSet(s)
  BY FS_Subset
<1>3. s # {}
  <2>1. 0 + 0 = 0
    OBVIOUS
  <2> QED BY <1>2, <2>1, SumEmpty
<1>4. PICK x \in s : TRUE
  BY <1>3
<1> DEFINE t == s \ {x}
<1>5. t \in SUBSET S /\ IsFiniteSet(t) /\ t \notin C
  <2>1. /\ Cardinality(t) = Cardinality(s) - 1 /\ Cardinality(s) \in Nat
        /\ IsFiniteSet(t)
    BY <1>2, FS_RemoveElement, FS_CardinalityType
  <2>2. t \in SUBSET S
    BY <1>2
  <2> HIDE DEF C, t
  <2> QED BY <1>1, <2>1, <2>2
<1>6. ~Bad(t)
  BY <1>5
<1>7. \A y \in s : f[y] \in Int /\ g[y] \in Int /\ h[y] \in Int
  BY <1>2
<1>8. /\ SumFunctionOnSet(f, s) = f[x] + SumFunctionOnSet(f, t)
      /\ SumFunctionOnSet(g, s) = g[x] + SumFunctionOnSet(g, t)
      /\ SumFunctionOnSet(h, s) = h[x] + SumFunctionOnSet(h, t)
  BY <1>2, <1>7, SumRemove
<1>9. SumFunctionOnSet(f, t) \in Int /\ SumFunctionOnSet(g, t) \in Int
  BY <1>5, <1>7, SumType
<1>10. h[x] = f[x] + g[x] /\ f[x] \in Int /\ g[x] \in Int
  BY <1>2
<1> HIDE DEF C, t
<1> QED BY <1>2, <1>6, <1>8, <1>9, <1>10

\* A common factor.
LEMMA SumTimes ==
    ASSUME NEW S, IsFiniteSet(S), NEW f, NEW a \in Int, NEW h,
           \A x \in S : f[x] \in Int /\ h[x] = a * f[x]
    PROVE  SumFunctionOnSet(h, S) = a * SumFunctionOnSet(f, S)
<1> DEFINE Bad(s) == SumFunctionOnSet(h, s) # a * SumFunctionOnSet(f, s)
           C == {s \in SUBSET S : Bad(s)}
<1> SUFFICES ASSUME C # {} PROVE FALSE
  OBVIOUS
<1>1. PICK s \in C : \A t \in C : Cardinality(s) <= Cardinality(t)
  <2>1. \A t \in C : IsFiniteSet(t)
    BY FS_Subset
  <2> HIDE DEF C
  <2> QED BY <2>1, SmallestSet
<1>2. s \in SUBSET S /\ Bad(s) /\ IsFiniteSet(s)
  BY FS_Subset
<1>3. s # {}
  <2>1. a * 0 = 0
    OBVIOUS
  <2> QED BY <1>2, <2>1, SumEmpty
<1>4. PICK x \in s : TRUE
  BY <1>3
<1> DEFINE t == s \ {x}
<1>5. t \in SUBSET S /\ IsFiniteSet(t) /\ t \notin C
  <2>1. /\ Cardinality(t) = Cardinality(s) - 1 /\ Cardinality(s) \in Nat
        /\ IsFiniteSet(t)
    BY <1>2, FS_RemoveElement, FS_CardinalityType
  <2>2. t \in SUBSET S
    BY <1>2
  <2> HIDE DEF C, t
  <2> QED BY <1>1, <2>1, <2>2
<1>6. ~Bad(t)
  BY <1>5
<1>7. \A y \in s : f[y] \in Int /\ h[y] \in Int
  <2> SUFFICES ASSUME NEW y \in S PROVE f[y] \in Int /\ h[y] \in Int
    BY <1>2
  <2>1. f[y] \in Int /\ h[y] = a * f[y]
    OBVIOUS
  <2> QED BY <2>1
<1>8. /\ SumFunctionOnSet(f, s) = f[x] + SumFunctionOnSet(f, t)
      /\ SumFunctionOnSet(h, s) = h[x] + SumFunctionOnSet(h, t)
  BY <1>2, <1>7, SumRemove
<1>9. SumFunctionOnSet(f, t) \in Int
  BY <1>5, <1>7, SumType
<1>10. h[x] = a * f[x] /\ f[x] \in Int
  BY <1>2
<1> HIDE DEF C, t
<1> DEFINE u == f[x]
           v == SumFunctionOnSet(f, t)
<1>11. u \in Int /\ v \in Int
  BY <1>9, <1>10
<1> HIDE DEF u, v
<1>12. a * (u + v) = a * u + a * v
  BY <1>11
<1> QED BY <1>2, <1>6, <1>8, <1>10, <1>12 DEF u, v

\* A constant.
LEMMA SumConstant ==
    ASSUME NEW S, IsFiniteSet(S), NEW a \in Int, NEW h, \A x \in S : h[x] = a
    PROVE  SumFunctionOnSet(h, S) = Cardinality(S) * a
<1> DEFINE Bad(s) == SumFunctionOnSet(h, s) # Cardinality(s) * a
           C == {s \in SUBSET S : Bad(s)}
<1> SUFFICES ASSUME C # {} PROVE FALSE
  OBVIOUS
<1>1. PICK s \in C : \A t \in C : Cardinality(s) <= Cardinality(t)
  <2>1. \A t \in C : IsFiniteSet(t)
    BY FS_Subset
  <2> HIDE DEF C
  <2> QED BY <2>1, SmallestSet
<1>2. s \in SUBSET S /\ Bad(s) /\ IsFiniteSet(s)
  BY FS_Subset
<1>3. s # {}
  <2>1. Cardinality({}) = 0 /\ 0 * a = 0
    BY FS_EmptySet
  <2> QED BY <1>2, <2>1, SumEmpty
<1>4. PICK x \in s : TRUE
  BY <1>3
<1> DEFINE t == s \ {x}
<1>5. /\ Cardinality(t) = Cardinality(s) - 1 /\ Cardinality(s) \in Nat
      /\ IsFiniteSet(t) /\ Cardinality(t) \in Nat
  BY <1>2, FS_RemoveElement, FS_CardinalityType
<1>6. ~Bad(t)
  <2>1. t \in SUBSET S
    BY <1>2
  <2>2. t \notin C
    <3> HIDE DEF C, t
    <3> QED BY <1>1, <1>5
  <2> QED BY <2>1, <2>2
<1>7. \A y \in s : h[y] \in Int /\ h[y] = a
  BY <1>2
<1>8. SumFunctionOnSet(h, s) = h[x] + SumFunctionOnSet(h, t)
  BY <1>2, <1>7, SumRemove
<1> DEFINE n == Cardinality(t)
<1>9. n \in Nat /\ Cardinality(s) = n + 1
  BY <1>5
<1> HIDE DEF C, t, n
<1>10. (n + 1) * a = a + n * a
  BY <1>9
<1> QED BY <1>2, <1>6, <1>7, <1>8, <1>9, <1>10 DEF n

=============================================================================
