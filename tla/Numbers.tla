------------------------------ MODULE Numbers ------------------------------
(***************************************************************************)
(* What the proofs need of numbers: the least and the greatest element of  *)
(* a set, as Min and Max of FiniteSetsExt choose them, and sums over       *)
(* finite sets, as MapThenSumSet adds them up.  The least elements exist   *)
(* because < is well founded on the naturals; what is said of all finite   *)
(* sets is proved by looking at a smallest one for which it fails.         *)
(***************************************************************************)
EXTENDS Integers, Sequences, FiniteSetsExt, FiniteSetTheorems, WellFoundedInduction, TLAPS

\* A set of naturals that is not empty has a least element.
LEMMA LeastNatural ==
    ASSUME NEW S, S \subseteq Nat, S # {}
    PROVE  \E x \in S : \A y \in S : x <= y
<1> DEFINE R == OpToRel(<, Nat)
<1>1. IsWellFoundedOn(R, Nat)
  BY NatLessThanWellFounded
<1>2. PICK x \in S : \A y \in S : ~ (<<y, x>> \in R)
  <2> HIDE DEF R
  <2> QED BY <1>1, WFMin
<1>3. \A y \in S : x <= y
  <2> TAKE y \in S
  <2>1. x \in Nat /\ y \in Nat
    OBVIOUS
  <2>2. ~ (<<y, x>> \in R)
    BY <1>2
  <2>3. y < x => <<y, x>> \in R
    BY <2>1 DEF OpToRel
  <2> HIDE DEF R
  <2> QED BY <2>1, <2>2, <2>3
<1> QED BY <1>3

\* Min of such a set is that element.
LEMMA MinIsLeast ==
    ASSUME NEW S, S \subseteq Nat, S # {}
    PROVE  Min(S) \in S /\ \A y \in S : Min(S) <= y
BY LeastNatural DEF Min

\* Max of a set of naturals with an upper bound is its greatest element.
LEMMA MaxIsGreatest ==
    ASSUME NEW S, NEW b \in Nat, S \subseteq 0 .. b, S # {}
    PROVE  Max(S) \in S /\ \A y \in S : y <= Max(S)
<1> DEFINE T == {b - x : x \in S}
<1>1. T \subseteq Nat /\ T # {}
  <2>1. \A x \in S : x \in Int /\ x <= b
    OBVIOUS
  <2>2. \A x \in S : b - x \in Nat
    BY <2>1
  <2> QED BY <2>2
<1>2. PICK m \in T : \A y \in T : m <= y
  BY <1>1, LeastNatural
<1>3. PICK z \in S : m = b - z
  BY <1>2
<1>4. \A y \in S : z >= y
  <2> TAKE y \in S
  <2>1. b - y \in T
    OBVIOUS
  <2> QED BY <2>1, <1>2, <1>3
<1> QED BY <1>4 DEF Max

-----------------------------------------------------------------------------
(* Sums *)

\* Among subsets of a finite set there is one none of whose parts is among them.
LEMMA SmallestSubset ==
    ASSUME NEW S, IsFiniteSet(S), NEW Bad, Bad \subseteq SUBSET S, Bad # {}
    PROVE  \E s \in Bad : \A r \in SUBSET s : r # s => r \notin Bad
<1> DEFINE N == {Cardinality(s) : s \in Bad}
<1>1. \A s \in Bad : IsFiniteSet(s) /\ Cardinality(s) \in Nat
  BY FS_Subset, FS_CardinalityType
<1>2. N \subseteq Nat /\ N # {}
  BY <1>1
<1>3. PICK m \in N : \A k \in N : m <= k
  <2> HIDE DEF N
  <2> QED BY <1>2, LeastNatural
<1>4. PICK s \in Bad : m = Cardinality(s)
  BY <1>3
<1>5. ASSUME NEW r \in SUBSET s, r # s, r \in Bad
      PROVE  FALSE
  <2>1. Cardinality(r) <= Cardinality(s) /\ Cardinality(r) # Cardinality(s)
    BY <1>1, <1>4, <1>5, FS_Subset
  <2>2. Cardinality(s) <= Cardinality(r)
    BY <1>3, <1>4, <1>5
  <2> QED BY <1>1, <1>4, <1>5, <2>1, <2>2
<1> QED BY <1>5

\* The sum of f over S.
SumOver(f, S) == MapThenSumSet(LAMBDA x : f[x], S)

\* The function MapThenFoldSet computes on the way to it.
Adds(g, f, S) ==
    g = [s \in SUBSET S |->
           IF s = {} THEN 0 ELSE LET x == CHOOSE e \in s : TRUE IN f[x] + g[s \ {x}]]

\* SumOver is its value at S.
LEMMA SumIsValue ==
    ASSUME NEW f, NEW S
    PROVE  SumOver(f, S) = (CHOOSE g : Adds(g, f, S))[S]
BY DEF SumOver, MapThenSumSet, MapThenFoldSet, Adds

\* A function that adds up over S gives the sum over every part of S.
LEMMA AddsBelow ==
    ASSUME NEW f, NEW S, IsFiniteSet(S), NEW g, Adds(g, f, S)
    PROVE  \A T \in SUBSET S : SumOver(f, T) = g[T]
<1> TAKE T \in SUBSET S
<1>1. \A s \in SUBSET S : g[s] = IF s = {} THEN 0
                                ELSE LET x == CHOOSE e \in s : TRUE IN f[x] + g[s \ {x}]
  BY DEF Adds
<1> DEFINE h == [s \in SUBSET T |-> g[s]]
<1>2. Adds(h, f, T)
  <2>1. \A s \in SUBSET T : h[s] = IF s = {} THEN 0
                                  ELSE LET x == CHOOSE e \in s : TRUE IN f[x] + h[s \ {x}]
    BY <1>1
  <2> QED BY <2>1 DEF Adds
<1>3. PICK k : k = CHOOSE a : Adds(a, f, T)
  OBVIOUS
<1>4. Adds(k, f, T)
  BY <1>2, <1>3
<1>5. \A s \in SUBSET T : k[s] = IF s = {} THEN 0
                                ELSE LET x == CHOOSE e \in s : TRUE IN f[x] + k[s \ {x}]
  BY <1>4 DEF Adds
<1>6. k[T] = g[T]
  <2> SUFFICES ASSUME k[T] # g[T] PROVE FALSE
    OBVIOUS
  <2>1. PICK Bad : Bad = {s \in SUBSET T : k[s] # g[s]}
    OBVIOUS
  <2>2. IsFiniteSet(T) /\ Bad \subseteq SUBSET T /\ T \in Bad
    BY <2>1, FS_Subset
  <2>3. PICK s \in Bad : \A r \in SUBSET s : r # s => r \notin Bad
    BY <2>2, SmallestSubset
  <2>4. s \in SUBSET T /\ s \in SUBSET S /\ k[s] # g[s]
    BY <2>1, <2>3
  <2>5. s # {}
    BY <1>1, <1>5, <2>4
  <2>6. PICK x : x = CHOOSE e \in s : TRUE
    OBVIOUS
  <2>7. x \in s /\ k[s] = f[x] + k[s \ {x}] /\ g[s] = f[x] + g[s \ {x}]
    BY <1>1, <1>5, <2>4, <2>5, <2>6
  <2>8. s \ {x} \in SUBSET T /\ s \ {x} # s
    BY <2>4, <2>7
  <2>9. s \ {x} \notin Bad
    BY <2>3, <2>8
  <2> QED BY <2>1, <2>4, <2>7, <2>8, <2>9
<1>7. SumOver(f, T) = k[T]
  BY <1>3, SumIsValue
<1> QED BY <1>6, <1>7

\* Over a finite set there is such a function.
LEMMA AddsExists ==
    ASSUME NEW f, NEW S, IsFiniteSet(S)
    PROVE  \E g : Adds(g, f, S)
<1> SUFFICES ASSUME ~ \E g : Adds(g, f, S) PROVE FALSE
  OBVIOUS
<1>1. PICK Bad : Bad = {s \in SUBSET S : ~ \E g : Adds(g, f, s)}
  OBVIOUS
<1>2. S \in Bad /\ Bad \subseteq SUBSET S
  BY <1>1
<1>3. PICK b \in Bad : \A r \in SUBSET b : r # b => r \notin Bad
  BY <1>2, SmallestSubset
<1>4. IsFiniteSet(b) /\ b \in SUBSET S /\ ~ \E g : Adds(g, f, b)
  BY <1>1, <1>3, FS_Subset
<1>5. ASSUME NEW r \in SUBSET b, r # b
      PROVE  SumOver(f, r) = IF r = {} THEN 0 ELSE LET x == CHOOSE e \in r : TRUE
                                                    IN  f[x] + SumOver(f, r \ {x})
  <2>1. IsFiniteSet(r) /\ r \in SUBSET S
    BY <1>4, FS_Subset
  <2>2. PICK g : Adds(g, f, r)
    BY <1>1, <1>3, <1>5, <2>1
  <2>3. \A s \in SUBSET r : SumOver(f, s) = g[s]
    BY <2>1, <2>2, AddsBelow
  <2>4. g[r] = IF r = {} THEN 0 ELSE LET x == CHOOSE e \in r : TRUE IN f[x] + g[r \ {x}]
    BY <2>2 DEF Adds
  <2> QED BY <2>3, <2>4
<1> DEFINE h == [s \in SUBSET b |->
                   IF s = {} THEN 0 ELSE LET x == CHOOSE e \in s : TRUE
                                         IN  f[x] + SumOver(f, s \ {x})]
<1>6. ASSUME NEW s \in SUBSET b, s # {}, NEW x, x = CHOOSE y \in s : TRUE
      PROVE  h[s] = f[x] + h[s \ {x}]
  <2>1. x \in s
    BY <1>6
  <2>2. s \ {x} \in SUBSET b /\ s \ {x} # b
    BY <2>1
  <2>3. h[s \ {x}] = SumOver(f, s \ {x})
    BY <1>5, <2>2
  <2> QED BY <1>6, <2>3
<1>7. Adds(h, f, b)
  <2>1. \A s \in SUBSET b : h[s] = IF s = {} THEN 0
                                  ELSE LET x == CHOOSE e \in s : TRUE IN f[x] + h[s \ {x}]
    <3> TAKE s \in SUBSET b
    <3>1. CASE s = {}
      BY <3>1
    <3>2. CASE s # {}
      <4> HIDE DEF h
      <4> QED BY <1>6, <3>2
    <3> QED BY <3>1, <3>2
  <2>2. h = [s \in SUBSET b |-> h[s]]
    OBVIOUS
  <2> HIDE DEF h
  <2> QED BY <2>1, <2>2 DEF Adds
<1> QED BY <1>4, <1>7

\* g is the sum of f over every part of S: nothing for no elements, and
\* otherwise what any one element adds to the sum of the others.
Sums(g, f, S) ==
  /\ \A s \in SUBSET S : g[s] \in Int /\ SumOver(f, s) = g[s]
  /\ g[{}] = 0
  /\ \A s \in SUBSET S : \A y \in s : g[s] = f[y] + g[s \ {y}]

\* There is such a function for a finite set and integers.
LEMMA SumByElement ==
    ASSUME NEW f, NEW S, IsFiniteSet(S), \A x \in S : f[x] \in Int
    PROVE  \E g : Sums(g, f, S)
<1>1. PICK g : Adds(g, f, S)
  BY AddsExists
<1>2. \A s \in SUBSET S : SumOver(f, s) = g[s]
  BY <1>1, AddsBelow
<1>3. \A s \in SUBSET S : g[s] = IF s = {} THEN 0
                                ELSE LET x == CHOOSE e \in s : TRUE IN f[x] + g[s \ {x}]
  BY <1>1 DEF Adds
<1>4. \A s \in SUBSET S : g[s] \in Int
  <2> SUFFICES ASSUME NEW t \in SUBSET S, g[t] \notin Int PROVE FALSE
    OBVIOUS
  <2>1. PICK Bad : Bad = {s \in SUBSET S : g[s] \notin Int}
    OBVIOUS
  <2> Bad \subseteq SUBSET S /\ Bad # {}
    BY <2>1
  <2>2. PICK s \in Bad : \A r \in SUBSET s : r # s => r \notin Bad
    BY SmallestSubset
  <2>3. s \in SUBSET S /\ g[s] \notin Int
    BY <2>1, <2>2
  <2>4. s # {}
    <3> SUFFICES ASSUME s = {} PROVE FALSE
      OBVIOUS
    <3>1. g[{}] = 0
      BY <1>3
    <3> QED BY <2>3, <3>1
  <2>5. PICK x : x = CHOOSE e \in s : TRUE
    OBVIOUS
  <2>6. x \in s /\ g[s] = f[x] + g[s \ {x}]
    BY <1>3, <2>3, <2>4, <2>5
  <2>7. s \ {x} \in SUBSET S /\ s \ {x} \notin Bad
    BY <2>2, <2>3, <2>6
  <2>8. g[s \ {x}] \in Int /\ f[x] \in Int
    BY <2>1, <2>3, <2>6, <2>7
  <2> QED BY <2>3, <2>6, <2>8
<1>5. \A s \in SUBSET S : \A y \in s : g[s] = f[y] + g[s \ {y}]
  <2> SUFFICES ASSUME NEW t \in SUBSET S, NEW z \in t, g[t] # f[z] + g[t \ {z}]
               PROVE  FALSE
    OBVIOUS
  <2>1. PICK Bad : Bad = {s \in SUBSET S : \E y \in s : g[s] # f[y] + g[s \ {y}]}
    OBVIOUS
  <2> Bad \subseteq SUBSET S /\ Bad # {}
    BY <2>1
  <2>2. PICK s \in Bad : \A r \in SUBSET s : r # s => r \notin Bad
    BY SmallestSubset
  <2>3. s \in SUBSET S
    BY <2>1, <2>2
  <2>4. PICK y \in s : g[s] # f[y] + g[s \ {y}]
    BY <2>1, <2>2
  <2>5. PICK x : x = CHOOSE e \in s : TRUE
    OBVIOUS
  <2>6. x \in s /\ g[s] = f[x] + g[s \ {x}]
    BY <1>3, <2>3, <2>4, <2>5
  <2>7. x # y
    BY <2>4, <2>6
  <2>8. /\ s \ {x} \in SUBSET S /\ s \ {x} \notin Bad /\ y \in s \ {x}
        /\ s \ {y} \in SUBSET S /\ s \ {y} \notin Bad /\ x \in s \ {y}
    BY <2>2, <2>3, <2>4, <2>6, <2>7
  <2>9. g[s \ {x}] = f[y] + g[(s \ {x}) \ {y}] /\ g[s \ {y}] = f[x] + g[(s \ {y}) \ {x}]
    BY <2>1, <2>8
  <2>10. (s \ {x}) \ {y} = (s \ {y}) \ {x} /\ (s \ {x}) \ {y} \in SUBSET S
    BY <2>3
  <2>11. f[x] \in Int /\ f[y] \in Int /\ g[(s \ {x}) \ {y}] \in Int
    BY <1>4, <2>3, <2>4, <2>6, <2>10
  <2>12. PICK r \in Int : r = g[(s \ {x}) \ {y}]
    BY <2>11
  <2>13. g[s] = f[x] + (f[y] + r) /\ g[s \ {y}] = f[x] + r
    BY <2>6, <2>9, <2>10, <2>12
  <2>14. f[x] + (f[y] + r) = f[y] + (f[x] + r)
    BY <2>11
  <2> QED BY <2>4, <2>13, <2>14
<1>6. g[{}] = 0
  BY <1>3
<1> QED BY <1>2, <1>4, <1>5, <1>6 DEF Sums

\* A sum of integers is an integer, and of nothing it is 0.
LEMMA SumType ==
    ASSUME NEW f, NEW S, IsFiniteSet(S), \A x \in S : f[x] \in Int
    PROVE  SumOver(f, S) \in Int
<1>1. PICK g : Sums(g, f, S)
  BY SumByElement
<1> QED BY <1>1 DEF Sums

LEMMA SumOfNone ==
    ASSUME NEW f
    PROVE  SumOver(f, {}) = 0
<1>1. PICK S : S = {}
  OBVIOUS
<1>2. IsFiniteSet(S) /\ \A x \in S : f[x] \in Int
  BY <1>1, FS_EmptySet
<1>3. PICK g : Sums(g, f, S)
  BY <1>2, SumByElement
<1> QED BY <1>1, <1>3 DEF Sums

\* One element's share of a sum.
LEMMA SumWithout ==
    ASSUME NEW f, NEW S, IsFiniteSet(S), \A x \in S : f[x] \in Int, NEW y \in S
    PROVE  SumOver(f, S) = f[y] + SumOver(f, S \ {y})
<1>1. PICK g : Sums(g, f, S)
  BY SumByElement
<1>2. SumOver(f, S) = g[S] /\ SumOver(f, S \ {y}) = g[S \ {y}]
  BY <1>1 DEF Sums
<1>3. g[S] = f[y] + g[S \ {y}]
  BY <1>1 DEF Sums
<1> QED BY <1>2, <1>3

\* Functions that are ordered on S have sums that are ordered.
LEMMA SumMonotone ==
    ASSUME NEW f, NEW k, NEW S, IsFiniteSet(S),
           \A x \in S : f[x] \in Int /\ k[x] \in Int /\ f[x] <= k[x]
    PROVE  SumOver(f, S) <= SumOver(k, S)
<1>1. PICK g : Sums(g, f, S)
  BY SumByElement
<1>2. PICK h : Sums(h, k, S)
  BY SumByElement
<1>3. g[S] <= h[S]
  <2> SUFFICES ASSUME ~ (g[S] <= h[S]) PROVE FALSE
    OBVIOUS
  <2>1. PICK Bad : Bad = {s \in SUBSET S : ~ (g[s] <= h[s])}
    OBVIOUS
  <2> Bad \subseteq SUBSET S /\ Bad # {}
    BY <2>1
  <2>2. PICK s \in Bad : \A r \in SUBSET s : r # s => r \notin Bad
    BY SmallestSubset
  <2>3. s \in SUBSET S /\ ~ (g[s] <= h[s])
    BY <2>1, <2>2
  <2>4. s # {}
    <3> SUFFICES ASSUME s = {} PROVE FALSE
      OBVIOUS
    <3>1. g[s] = 0 /\ h[s] = 0
      BY <1>1, <1>2 DEF Sums
    <3> QED BY <2>3, <3>1
  <2> PICK y \in s : TRUE
    BY <2>4
  <2>5. s \ {y} \in SUBSET S /\ s \ {y} \notin Bad
    BY <2>2, <2>3
  <2>6. g[s \ {y}] <= h[s \ {y}]
    BY <2>1, <2>5
  <2>7. g[s] = f[y] + g[s \ {y}] /\ h[s] = k[y] + h[s \ {y}]
    BY <1>1, <1>2, <2>3 DEF Sums
  <2>8. /\ f[y] \in Int /\ k[y] \in Int /\ f[y] <= k[y]
        /\ g[s \ {y}] \in Int /\ h[s \ {y}] \in Int
    BY <1>1, <1>2, <2>3, <2>5 DEF Sums
  <2> QED BY <2>3, <2>6, <2>7, <2>8
<1> QED BY <1>1, <1>2, <1>3 DEF Sums

\* The same function on S, the same sum.
LEMMA SumSame ==
    ASSUME NEW f, NEW k, NEW S, IsFiniteSet(S),
           \A x \in S : f[x] \in Int /\ f[x] = k[x]
    PROVE  SumOver(f, S) = SumOver(k, S)
<1>1. SumOver(f, S) <= SumOver(k, S) /\ SumOver(k, S) <= SumOver(f, S)
  BY SumMonotone
<1>2. SumOver(f, S) \in Int /\ SumOver(k, S) \in Int
  BY SumType
<1> QED BY <1>1, <1>2

\* What is not negative adds up to what is not negative.
LEMMA SumNatural ==
    ASSUME NEW f, NEW S, IsFiniteSet(S), \A x \in S : f[x] \in Nat
    PROVE  SumOver(f, S) \in Nat
<1>1. PICK g : Sums(g, f, S)
  BY SumByElement
<1>2. g[S] >= 0
  <2> SUFFICES ASSUME ~ (g[S] >= 0) PROVE FALSE
    OBVIOUS
  <2>1. PICK Bad : Bad = {s \in SUBSET S : ~ (g[s] >= 0)}
    OBVIOUS
  <2> Bad \subseteq SUBSET S /\ Bad # {}
    BY <2>1
  <2>2. PICK s \in Bad : \A r \in SUBSET s : r # s => r \notin Bad
    BY SmallestSubset
  <2>3. s \in SUBSET S /\ ~ (g[s] >= 0)
    BY <2>1, <2>2
  <2>4. s # {}
    <3> SUFFICES ASSUME s = {} PROVE FALSE
      OBVIOUS
    <3>1. g[s] = 0
      BY <1>1 DEF Sums
    <3> QED BY <2>3, <3>1
  <2> PICK y \in s : TRUE
    BY <2>4
  <2>5. s \ {y} \in SUBSET S /\ s \ {y} \notin Bad
    BY <2>2, <2>3
  <2>6. g[s \ {y}] \in Int /\ g[s \ {y}] >= 0 /\ f[y] \in Nat /\ g[s] = f[y] + g[s \ {y}]
    BY <1>1, <2>1, <2>3, <2>5 DEF Sums
  <2> QED BY <2>3, <2>6
<1> QED BY <1>1, <1>2 DEF Sums

\* Nothing adds up to nothing.
LEMMA SumOfZeros ==
    ASSUME NEW f, NEW S, IsFiniteSet(S), \A x \in S : f[x] = 0
    PROVE  SumOver(f, S) = 0
<1>1. PICK g : Sums(g, f, S)
  BY SumByElement
<1>2. g[S] = 0
  <2> SUFFICES ASSUME g[S] # 0 PROVE FALSE
    OBVIOUS
  <2>1. PICK Bad : Bad = {s \in SUBSET S : g[s] # 0}
    OBVIOUS
  <2> Bad \subseteq SUBSET S /\ Bad # {}
    BY <2>1
  <2>2. PICK s \in Bad : \A r \in SUBSET s : r # s => r \notin Bad
    BY SmallestSubset
  <2>3. s \in SUBSET S /\ g[s] # 0
    BY <2>1, <2>2
  <2>4. s # {}
    <3> SUFFICES ASSUME s = {} PROVE FALSE
      OBVIOUS
    <3>1. g[s] = 0
      BY <1>1 DEF Sums
    <3> QED BY <2>3, <3>1
  <2> PICK y \in s : TRUE
    BY <2>4
  <2>5. s \ {y} \in SUBSET S /\ s \ {y} \notin Bad
    BY <2>2, <2>3
  <2>6. g[s \ {y}] = 0 /\ f[y] = 0 /\ g[s] = f[y] + g[s \ {y}]
    BY <1>1, <2>1, <2>3, <2>5 DEF Sums
  <2> QED BY <2>3, <2>6
<1> QED BY <1>1, <1>2 DEF Sums

\* The sum over a part is no greater than the sum over the whole, and less when
\* something of the rest counts.
LEMMA SumOfPart ==
    ASSUME NEW f, NEW S, IsFiniteSet(S), \A x \in S : f[x] \in Nat, NEW T \in SUBSET S
    PROVE  SumOver(f, T) <= SumOver(f, S)
<1>1. PICK g : Sums(g, f, S)
  BY SumByElement
<1>2. g[T] <= g[S]
  <2> SUFFICES ASSUME ~ (g[T] <= g[S]) PROVE FALSE
    OBVIOUS
  <2>1. PICK Bad : Bad = {s \in SUBSET S : T \subseteq s /\ ~ (g[T] <= g[s])}
    OBVIOUS
  <2> Bad \subseteq SUBSET S /\ Bad # {}
    BY <2>1
  <2>2. PICK s \in Bad : \A r \in SUBSET s : r # s => r \notin Bad
    BY SmallestSubset
  <2>3. s \in SUBSET S /\ T \subseteq s /\ ~ (g[T] <= g[s])
    BY <2>1, <2>2
  <2>4. g[T] \in Int /\ g[s] \in Int
    BY <1>1, <2>3 DEF Sums
  <2>5. T # s
    <3> SUFFICES ASSUME T = s PROVE FALSE
      OBVIOUS
    <3> QED BY <2>3, <2>4
  <2>6. PICK y \in s : y \notin T
    BY <2>3, <2>5
  <2>7. s \ {y} \in SUBSET S /\ s \ {y} \notin Bad /\ T \subseteq s \ {y}
    BY <2>2, <2>3, <2>6
  <2>8. g[T] <= g[s \ {y}]
    BY <2>1, <2>7
  <2>9. g[s] = f[y] + g[s \ {y}] /\ f[y] \in Nat /\ g[s \ {y}] \in Int
    BY <1>1, <2>3, <2>6, <2>7 DEF Sums
  <2> QED BY <2>3, <2>4, <2>8, <2>9
<1> QED BY <1>1, <1>2 DEF Sums

LEMMA SumOfLess ==
    ASSUME NEW f, NEW S, IsFiniteSet(S), \A x \in S : f[x] \in Nat, NEW T \in SUBSET S,
           NEW y \in S, y \notin T, f[y] > 0
    PROVE  SumOver(f, T) < SumOver(f, S)
<1>1. SumOver(f, S) = f[y] + SumOver(f, S \ {y})
  BY SumWithout
<1>2. IsFiniteSet(S \ {y}) /\ T \in SUBSET (S \ {y}) /\ \A x \in S \ {y} : f[x] \in Nat
  BY FS_RemoveElement
<1>3. SumOver(f, T) <= SumOver(f, S \ {y})
  BY <1>2, SumOfPart
<1>4. IsFiniteSet(T)
  BY FS_Subset
<1>5. SumOver(f, T) \in Int /\ SumOver(f, S \ {y}) \in Int
  BY <1>2, <1>4, SumType
<1> QED BY <1>1, <1>3, <1>5

\* A part and the rest add up to the whole.
LEMMA SumSplit ==
    ASSUME NEW f, NEW S, IsFiniteSet(S), \A x \in S : f[x] \in Int, NEW T \in SUBSET S
    PROVE  SumOver(f, S) = SumOver(f, T) + SumOver(f, S \ T)
<1>1. PICK g : Sums(g, f, S)
  BY SumByElement
<1>2. g[S] = g[T] + g[S \ T]
  <2> SUFFICES ASSUME g[S] # g[T] + g[S \ T] PROVE FALSE
    OBVIOUS
  <2>1. PICK Bad : Bad = {s \in SUBSET S : T \subseteq s /\ g[s] # g[T] + g[s \ T]}
    OBVIOUS
  <2> Bad \subseteq SUBSET S /\ Bad # {}
    BY <2>1
  <2>2. PICK s \in Bad : \A r \in SUBSET s : r # s => r \notin Bad
    BY SmallestSubset
  <2>3. s \in SUBSET S /\ T \subseteq s /\ g[s] # g[T] + g[s \ T]
    BY <2>1, <2>2
  <2>4. T # s
    <3> SUFFICES ASSUME T = s PROVE FALSE
      OBVIOUS
    <3>1. s \ T = {} /\ {} \in SUBSET S
      OBVIOUS
    <3>2. g[{}] = 0 /\ g[s] \in Int
      BY <1>1, <2>3 DEF Sums
    <3>3. g[s] = g[T] + g[s \ T]
      <4>1. g[s \ T] = 0 /\ g[T] = g[s]
        BY <3>1, <3>2
      <4> QED BY <3>2, <4>1
    <3> QED BY <2>3, <3>3
  <2>5. PICK y \in s : y \notin T
    BY <2>3, <2>4
  <2>6. s \ {y} \in SUBSET S /\ s \ {y} \notin Bad /\ T \subseteq s \ {y}
    BY <2>2, <2>3, <2>5
  <2>7. g[s \ {y}] = g[T] + g[(s \ {y}) \ T]
    BY <2>1, <2>6
  <2>8. (s \ {y}) \ T = (s \ T) \ {y} /\ y \in s \ T /\ s \ T \in SUBSET S
    BY <2>3, <2>5
  <2>9. g[s] = f[y] + g[s \ {y}] /\ g[s \ T] = f[y] + g[(s \ T) \ {y}]
    BY <1>1, <2>3, <2>8 DEF Sums
  <2>10. f[y] \in Int /\ g[T] \in Int /\ g[(s \ T) \ {y}] \in Int
    BY <1>1, <2>3, <2>8 DEF Sums
  <2>11. g[s \ {y}] = g[T] + g[(s \ T) \ {y}]
    BY <2>7, <2>8
  <2>12. g[s] = g[T] + g[s \ T]
    BY <2>9, <2>10, <2>11
  <2> QED BY <2>3, <2>12
<1> QED BY <1>1, <1>2 DEF Sums

-----------------------------------------------------------------------------
(* Folds *)

\* What holds at 0 and goes from each number to the next holds up to n.
LEMMA UpTo ==
    ASSUME NEW n \in Nat, NEW G, 0 \in G, \A i \in 1 .. n : i - 1 \in G => i \in G
    PROVE  \A i \in 0 .. n : i \in G
<1> SUFFICES ASSUME NEW k \in 0 .. n, k \notin G PROVE FALSE
  OBVIOUS
<1>1. PICK Bad : Bad = {i \in 0 .. n : i \notin G}
  OBVIOUS
<1>2. Bad \subseteq Nat /\ Bad # {}
  BY <1>1
<1>3. PICK i \in Bad : \A j \in Bad : i <= j
  BY <1>2, LeastNatural
<1>4. i \in 0 .. n /\ i \notin G
  BY <1>1, <1>3
<1>5. i \in 1 .. n
  BY <1>4
<1>6. i - 1 \in 0 .. n
  BY <1>5
<1>7. i - 1 \notin Bad
  BY <1>3, <1>5
<1>8. i - 1 \in G
  BY <1>1, <1>6, <1>7
<1> QED BY <1>4, <1>5, <1>8

\* The last one of some places of a sequence.
LEMMA LastPlace ==
    ASSUME NEW n \in Nat
    PROVE  \A T \in SUBSET (1 .. n) : T # {} => Max(T) \in T /\ \A i \in T : i <= Max(T)
<1> TAKE T \in SUBSET (1 .. n)
<1>1. T \subseteq 0 .. n
  OBVIOUS
<1> QED BY <1>1, MaxIsGreatest

\* F folded over the elements of s at the places T, from b.
Goes(h, F, s, T) == h[T] = F[<<h[T \ {Max(T)}], s[Max(T)]>>]
Folds(h, F, b, s, n) ==
    h[{}] = b /\ \A T \in SUBSET (1 .. n) : T # {} => Goes(h, F, s, T)

\* r goes from b along s by F.
Runs(r, F, b, s) ==
    r[0] = b /\ \A i \in 1 .. Len(s) : r[i] = F[<<r[i - 1], s[i]>>]

\* It gets to v through X.
RunsTo(F, b, s, X, v) ==
    \E r \in [0 .. Len(s) -> X] : Runs(r, F, b, s) /\ r[Len(s)] = v

\* There is a function that FoldLeft computes.
LEMMA FoldExists ==
    ASSUME NEW X, NEW Y, NEW F \in [X \X Y -> X], NEW b \in X, NEW s \in Seq(Y)
    PROVE  \E h \in [SUBSET (1 .. Len(s)) -> X] : Folds(h, F, b, s, Len(s))
<1>1. PICK n \in Nat : n = Len(s)
  OBVIOUS
<1>2. PICK H : H = [SUBSET (1 .. n) -> X]
  OBVIOUS
<1>3. PICK G : G = {m \in 0 .. n : \E h \in H : Folds(h, F, b, s, m)}
  OBVIOUS
<1>4. 0 \in G
  <2>1. PICK h : h = [T \in SUBSET (1 .. n) |-> b]
    OBVIOUS
  <2>2. {} \in SUBSET (1 .. n) /\ \A T \in SUBSET (1 .. 0) : T = {}
    OBVIOUS
  <2>3. h \in H /\ h[{}] = b
    BY <1>2, <2>1, <2>2
  <2>4. Folds(h, F, b, s, 0)
    BY <2>2, <2>3 DEF Folds
  <2> QED BY <1>1, <1>3, <2>3, <2>4
<1>5. ASSUME NEW m \in 1 .. n, m - 1 \in G
      PROVE  m \in G
  <2>1. PICK h \in H : Folds(h, F, b, s, m - 1)
    BY <1>3, <1>5
  <2>2. PICK k : k = [T \in SUBSET (1 .. n) |->
                        IF m \in T THEN F[<<h[T \ {m}], s[m]>>] ELSE h[T]]
    OBVIOUS
  <2>3. \A T \in SUBSET (1 .. n) : T \ {m} \in SUBSET (1 .. n)
    OBVIOUS
  <2>4. m \in 1 .. Len(s) /\ s[m] \in Y
    BY <1>1
  <2>5. ASSUME NEW T \in SUBSET (1 .. n) PROVE k[T] \in X
    <3>1. h[T \ {m}] \in X /\ h[T] \in X
      BY <1>2, <2>1, <2>3
    <3>2. <<h[T \ {m}], s[m]>> \in X \X Y
      BY <3>1, <2>4
    <3>3. F[<<h[T \ {m}], s[m]>>] \in X
      BY <3>2
    <3> QED BY <2>2, <3>1, <3>3
  <2>6. k \in H
    BY <1>2, <2>2, <2>5
  <2>7. k[{}] = b
    <3>1. {} \in SUBSET (1 .. n) /\ m \notin {}
      OBVIOUS
    <3> QED BY <2>1, <2>2, <3>1 DEF Folds
  <2>8. ASSUME NEW T \in SUBSET (1 .. m), T # {}
        PROVE  Goes(k, F, s, T)
    <3>1. PICK z : z = Max(T)
      OBVIOUS
    <3>2. z \in T /\ \A i \in T : i <= z
      <4>1. m \in Nat
        OBVIOUS
      <4> QED BY <2>8, <3>1, <4>1, LastPlace
    <3>3. T \in SUBSET (1 .. n) /\ T \ {z} \in SUBSET (1 .. n)
      <4>1. 1 .. m \subseteq 1 .. n
        OBVIOUS
      <4> QED BY <4>1
    <3>4. CASE m \in T
      <4>1. z = m
        BY <3>2, <3>4
      <4>2. m \notin T \ {m}
        OBVIOUS
      <4>3. k[T] = F[<<h[T \ {m}], s[m]>>] /\ k[T \ {m}] = h[T \ {m}]
        BY <2>2, <3>3, <3>4, <4>1, <4>2
      <4> QED BY <3>1, <4>1, <4>3 DEF Goes
    <3>5. CASE m \notin T
      <4>1. T \in SUBSET (1 .. (m - 1))
        BY <3>5
      <4>2. k[T] = h[T] /\ k[T \ {z}] = h[T \ {z}]
        BY <2>2, <3>3, <3>5
      <4>3. Goes(h, F, s, T)
        BY <2>1, <2>8, <4>1 DEF Folds
      <4> QED BY <3>1, <4>2, <4>3 DEF Goes
    <3> QED BY <3>4, <3>5
  <2>9. Folds(k, F, b, s, m)
    BY <2>7, <2>8 DEF Folds
  <2> QED BY <1>3, <2>6, <2>9
<1>6. n \in G
  <2>1. \A i \in 0 .. n : i \in G
    BY <1>1, <1>4, <1>5, UpTo
  <2> QED BY <1>1, <2>1
<1> QED BY <1>1, <1>2, <1>3, <1>6

\* g goes on by F wherever it comes from X.
GoesIn(g, F, s, X) ==
    \A T \in SUBSET (1 .. Len(s)) :
        T # {} /\ g[T \ {Max(T)}] \in X => Goes(g, F, s, T)

\* A function that goes on by F as long as it stays in X goes through X, from
\* one place to the next.
LEMMA FoldRuns ==
    ASSUME NEW X, NEW Y, NEW F \in [X \X Y -> X], NEW b \in X, NEW s \in Seq(Y), NEW g,
           g[{}] = b, GoesIn(g, F, s, X)
    PROVE  RunsTo(F, b, s, X, g[1 .. Len(s)])
<1>1. PICK n \in Nat : n = Len(s)
  OBVIOUS
<1>2. PICK G : G = {i \in 0 .. n : g[1 .. i] \in X}
  OBVIOUS
<1>3. ASSUME NEW i \in 1 .. n, g[1 .. (i - 1)] \in X
      PROVE  g[1 .. i] = F[<<g[1 .. (i - 1)], s[i]>>] /\ g[1 .. i] \in X
  <2>1. PICK T : T = 1 .. i
    OBVIOUS
  <2>2. T \in SUBSET (1 .. n) /\ T # {} /\ i \in T
    <3>1. 1 .. i \subseteq 1 .. n /\ i \in 1 .. i
      OBVIOUS
    <3> QED BY <2>1, <3>1
  <2>3. PICK z : z = Max(T)
    OBVIOUS
  <2>4. z \in T /\ \A j \in T : j <= z
    BY <2>2, <2>3, LastPlace
  <2>5. z = i
    BY <2>1, <2>2, <2>4
  <2>6. T \ {z} = 1 .. (i - 1)
    BY <2>1, <2>5
  <2>7. Goes(g, F, s, T)
    BY <1>1, <1>3, <2>2, <2>3, <2>6 DEF GoesIn
  <2>8. g[1 .. i] = F[<<g[1 .. (i - 1)], s[i]>>]
    BY <2>1, <2>3, <2>5, <2>6, <2>7 DEF Goes
  <2>9. i \in 1 .. Len(s) /\ s[i] \in Y
    BY <1>1
  <2>10. <<g[1 .. (i - 1)], s[i]>> \in X \X Y
    BY <1>3, <2>9
  <2> QED BY <2>8, <2>10
<1>4. 1 .. 0 = {}
  OBVIOUS
<1>5. 0 \in G
  BY <1>2, <1>4
<1>6. ASSUME NEW i \in 1 .. n, i - 1 \in G PROVE i \in G
  <2>1. g[1 .. (i - 1)] \in X
    BY <1>2, <1>6
  <2>2. g[1 .. i] \in X
    BY <1>3, <2>1
  <2>3. i \in 0 .. n
    OBVIOUS
  <2> QED BY <1>2, <2>2, <2>3
<1>7. \A i \in 0 .. n : g[1 .. i] \in X
  <2>1. \A i \in 0 .. n : i \in G
    BY <1>5, <1>6, UpTo
  <2> QED BY <1>2, <2>1
<1>8. PICK r : r = [i \in 0 .. n |-> g[1 .. i]]
  OBVIOUS
<1>9. r \in [0 .. n -> X]
  BY <1>7, <1>8
<1>10. r[0] = b /\ r[n] = g[1 .. n]
  BY <1>4, <1>8
<1>11. ASSUME NEW i \in 1 .. n
       PROVE  r[i] = F[<<r[i - 1], s[i]>>]
  <2>1. i - 1 \in 0 .. n /\ i \in 0 .. n
    OBVIOUS
  <2> QED BY <1>3, <1>7, <1>8, <2>1
<1>12. Runs(r, F, b, s)
  BY <1>1, <1>10, <1>11 DEF Runs
<1> QED BY <1>1, <1>9, <1>10, <1>12 DEF RunsTo

\* The two ends of the way from FoldLeft to a run.  What FoldLeft computes is
\* chosen among the functions h of which this holds, and there is one;
Computes(h, F, b, s, X, Y) ==
    /\ h \in [SUBSET DOMAIN s -> X] /\ h[{}] = b
    /\ \A S \in SUBSET DOMAIN s :
         S # {} => /\ h[S \ {Max(S)}] \in X /\ s[Max(S)] \in Y
                   /\ h[S] = F[<<h[S \ {Max(S)}], s[Max(S)]>>]

LEMMA FoldComputes ==
    ASSUME NEW X, NEW Y, NEW F \in [X \X Y -> X], NEW b \in X, NEW s \in Seq(Y)
    PROVE  \E h : Computes(h, F, b, s, X, Y)
<1>1. PICK n \in Nat : n = Len(s) /\ DOMAIN s = 1 .. n
  OBVIOUS
<1>2. PICK h \in [SUBSET (1 .. n) -> X] : Folds(h, F, b, s, n)
  BY <1>1, FoldExists
<1>3. ASSUME NEW S \in SUBSET (1 .. n), S # {}
      PROVE  /\ h[S] = F[<<h[S \ {Max(S)}], s[Max(S)]>>]
             /\ h[S \ {Max(S)}] \in X /\ s[Max(S)] \in Y
  <2>1. Max(S) \in S
    BY <1>3, LastPlace
  <2>2. Max(S) \in 1 .. n /\ S \ {Max(S)} \in SUBSET (1 .. n)
    BY <2>1
  <2>3. h[S \ {Max(S)}] \in X /\ s[Max(S)] \in Y
    BY <1>1, <1>2, <2>2
  <2>4. Goes(h, F, s, S)
    BY <1>2, <1>3 DEF Folds
  <2> QED BY <2>3, <2>4 DEF Goes
<1>4. h[{}] = b
  BY <1>2 DEF Folds
<1> QED BY <1>1, <1>2, <1>3, <1>4 DEF Computes

\* and whichever is chosen has a run behind it.
LEMMA FoldGoes ==
    ASSUME NEW X, NEW Y, NEW F \in [X \X Y -> X], NEW b \in X, NEW s \in Seq(Y), NEW g,
           g[{}] = b,
           \A S \in SUBSET DOMAIN s :
             S # {} /\ g[S \ {Max(S)}] \in X /\ s[Max(S)] \in Y
               => g[S] = F[<<g[S \ {Max(S)}], s[Max(S)]>>]
    PROVE  RunsTo(F, b, s, X, g[DOMAIN s])
<1>1. PICK n \in Nat : n = Len(s) /\ DOMAIN s = 1 .. n
  OBVIOUS
<1>2. GoesIn(g, F, s, X)
  <2> SUFFICES ASSUME NEW S \in SUBSET (1 .. n), S # {}, g[S \ {Max(S)}] \in X
               PROVE  Goes(g, F, s, S)
    BY <1>1 DEF GoesIn
  <2>1. Max(S) \in S
    BY LastPlace
  <2>2. Max(S) \in 1 .. n
    BY <2>1
  <2>3. s[Max(S)] \in Y
    BY <1>1, <2>2
  <2> QED BY <1>1, <2>3 DEF Goes
<1>3. RunsTo(F, b, s, X, g[1 .. Len(s)])
  BY <1>2, FoldRuns
<1> QED BY <1>1, <1>3
=============================================================================
