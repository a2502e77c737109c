-------------------------- MODULE ForkChoiceProofs --------------------------
(***************************************************************************)
(* Lemmas about chains, fork points and work, for every tree of blocks: the*)
(* binary search finds the fork, and of two chains one is better, unless   *)
(* they end in two blocks on one proof.                                    *)
(***************************************************************************)
EXTENDS ForkChoice, Numbers, SequenceTheorems

\* A set of naturals closed under predecessor and bounded by n is an interval
\* from 1, and its cardinality is the upper end.
LEMMA DownwardClosed ==
  ASSUME NEW n \in Nat, NEW D, D \subseteq 1..n,
         \A i \in D : \A j \in 1..i : j \in D
  PROVE  Cardinality(D) \in 0..n /\ D = 1..Cardinality(D)
<1> DEFINE Out == {k \in 1..(n + 1) : k \notin D}
<1>1. Out \subseteq Nat /\ n + 1 \in Out
  OBVIOUS
<1>2. PICK m \in Out : \A k \in Out : m <= k
  <2> HIDE DEF Out
  <2> QED BY <1>1, LeastNatural
<1>3. m \in 1..(n + 1) /\ m \notin D
  BY <1>2
<1>4. D \subseteq 1..(m - 1)
  <2> SUFFICES ASSUME NEW i \in D, i >= m PROVE FALSE
    BY <1>3
  <2> QED
    BY <1>3
<1>5. 1..(m - 1) \subseteq D
  <2> SUFFICES ASSUME NEW i \in 1..(m - 1), i \notin D PROVE FALSE
    OBVIOUS
  <2>1. i \in Out
    BY <1>3
  <2> HIDE DEF Out
  <2> QED
    BY <1>2, <1>3, <2>1
<1>6. D = 1..(m - 1)
  BY <1>4, <1>5
<1>7. Cardinality(1..(m - 1)) = m - 1
  BY <1>3, FS_Interval
<1> QED
  BY <1>3, <1>6, <1>7

\* The fork point of two chains: they agree below it and, where both go on,
\* they differ at it.
LEMMA ForkPointProperties ==
  ASSUME NEW c \in Seq(Block), NEW d \in Seq(Block)
  PROVE  /\ ForkPoint(c, d) \in 0..Len(c)
         /\ ForkPoint(c, d) \in 0..Len(d)
         /\ \A j \in 1..ForkPoint(c, d) : c[j] = d[j]
         /\ ForkPoint(c, d) < Len(c) /\ ForkPoint(c, d) < Len(d) =>
              c[ForkPoint(c, d) + 1] # d[ForkPoint(c, d) + 1]
<1> DEFINE n == Smaller(Len(c), Len(d))
           D == {i \in 1..n : \A j \in 1..i : c[j] = d[j]}
           f == Cardinality(D)
<1>1. n \in Nat /\ n <= Len(c) /\ n <= Len(d) /\ (n = Len(c) \/ n = Len(d))
  BY DEF Smaller
<1>2. f \in 0..n /\ D = 1..f
  <2>1. D \subseteq 1..n /\ \A i \in D : \A j \in 1..i : j \in D
    BY <1>1
  <2> HIDE DEF D, n
  <2> QED BY <1>1, <2>1, DownwardClosed
<1>3. \A j \in 1..f : c[j] = d[j]
  <2> SUFFICES ASSUME NEW j \in 1..f PROVE c[j] = d[j]
    OBVIOUS
  <2>1. j \in D
    BY <1>2
  <2>2. j \in 1..j
    BY <1>2
  <2> QED BY <2>1, <2>2
<1>4. ASSUME f < n, c[f + 1] = d[f + 1] PROVE FALSE
  <2>1. \A j \in 1..(f + 1) : c[j] = d[j]
    BY <1>2, <1>3, <1>4
  <2>2. f + 1 \in D
    BY <1>1, <1>2, <1>4, <2>1
  <2> HIDE DEF f, D
  <2> QED BY <1>2, <2>2
<1>5. ForkPoint(c, d) = f
  BY DEF ForkPoint
<1> HIDE DEF f, D, n
<1> QED
  BY <1>1, <1>2, <1>3, <1>4, <1>5

\* What membership of Chains means for a sequence of blocks.
LEMMA ChainFacts ==
  ASSUME NEW c \in Chains
  PROVE  /\ c \in Seq(Block) /\ Len(c) \in 1..MaxChain /\ IsChain(c)
         /\ Height[Tip(c)] = Len(c) - 1 /\ Tip(c) \in Block
         /\ c # << >>
<1>1. c \in Seq(Block) /\ Len(c) \in 1..MaxChain /\ IsChain(c)
  BY BlockAssumption DEF Chains
<1>2. c[Len(c)] \in Block /\ Height[c[Len(c)]] = Len(c) - 1
  BY <1>1 DEF IsChain
<1>3. c # << >>
  BY <1>1
<1> QED
  BY <1>1, <1>2, <1>3 DEF Tip

\* A sequence of blocks in good order and within the bound is in Chains.
LEMMA IsInChains ==
  ASSUME NEW c \in Seq(Block), Len(c) <= MaxChain, IsChain(c)
  PROVE  c \in Chains
<1>1. Len(c) \in 1..MaxChain
  BY BlockAssumption DEF IsChain
<1>2. c \in [1..Len(c) -> Block]
  OBVIOUS
<1> QED
  BY <1>1, <1>2 DEF Chains

\* The genesis block alone is a chain.
LEMMA GenesisIsChain == <<Genesis>> \in Chains
<1> DEFINE c == <<Genesis>>
<1>1. c \in Seq(Block) /\ Len(c) = 1 /\ c[1] = Genesis
  BY BlockAssumption
<1>2. Height[Genesis] = 0 /\ 1 <= MaxChain
  BY BlockAssumption
<1> HIDE DEF c
<1>3. IsChain(c)
  BY <1>1, <1>2 DEF IsChain
<1>4. c \in Chains
  BY <1>1, <1>2, <1>3, IsInChains
<1> QED
  BY <1>4 DEF c

\* Appending a block that extends the tip of a chain gives a chain.
LEMMA AppendIsChain ==
  ASSUME NEW c \in Chains, NEW b \in Block, Extends(b, c), Len(c) < MaxChain
  PROVE  Append(c, b) \in Chains
<1>1. c \in Seq(Block) /\ Len(c) \in 1..MaxChain /\ IsChain(c)
  BY ChainFacts
<1> DEFINE d == Append(c, b)
<1>2. /\ d \in Seq(Block) /\ Len(d) = Len(c) + 1 /\ d[Len(c) + 1] = b
      /\ \A i \in 1..Len(c) : d[i] = c[i]
  BY <1>1, AppendProperties
<1> HIDE DEF d
<1>3. d[1] = Genesis /\ Len(d) > 0
  BY <1>1, <1>2 DEF IsChain
<1>4. ASSUME NEW i \in 1..Len(d)
      PROVE  Height[d[i]] = i - 1
  <2>1. CASE i = Len(c) + 1
    BY <1>1, <1>2, <2>1 DEF IsChain, Extends, Tip
  <2>2. CASE i \in 1..Len(c)
    BY <1>1, <1>2, <2>2 DEF IsChain
  <2> QED
    BY <1>1, <1>2, <2>1, <2>2
<1>5. ASSUME NEW i \in 2..Len(d)
      PROVE  d[i] # Genesis /\ Parent[d[i]] = d[i-1]
  <2>1. i - 1 \in 1..Len(c) /\ d[i-1] = c[i-1]
    BY <1>1, <1>2
  <2>2. CASE i = Len(c) + 1
    BY <1>2, <2>1, <2>2 DEF Extends, Tip
  <2>3. CASE i \in 2..Len(c)
    BY <1>1, <1>2, <2>1, <2>3 DEF IsChain
  <2> QED
    BY <1>1, <1>2, <2>2, <2>3
<1>6. IsChain(d)
  BY <1>3, <1>4, <1>5 DEF IsChain
<1>7. d \in Chains
  BY <1>1, <1>2, <1>6, IsInChains, BlockAssumption
<1> QED
  BY <1>7 DEF d

\* A non-empty prefix of a chain is a chain.
LEMMA PrefixIsChain ==
  ASSUME NEW c \in Chains, NEW n \in 1..Len(c)
  PROVE  SubSeq(c, 1, n) \in Chains
<1>1. c \in Seq(Block) /\ Len(c) \in 1..MaxChain /\ IsChain(c)
  BY ChainFacts
<1> DEFINE d == SubSeq(c, 1, n)
<1>2. d \in Seq(Block) /\ Len(d) = n /\ \A i \in 1..n : d[i] = c[i]
  BY <1>1, SubSeqProperties
<1> HIDE DEF d
<1>3. ASSUME NEW i \in 2..Len(d)
      PROVE  d[i] # Genesis /\ Parent[d[i]] = d[i-1]
  <2>1. i - 1 \in 1..n /\ i \in 1..n /\ i \in 2..Len(c)
    BY <1>1, <1>2
  <2>2. d[i-1] = c[i-1] /\ d[i] = c[i]
    BY <1>2, <2>1
  <2> QED
    BY <1>1, <2>1, <2>2 DEF IsChain
<1>4. IsChain(d)
  BY <1>1, <1>2, <1>3 DEF IsChain
<1>5. d \in Chains
  BY <1>1, <1>2, <1>4, IsInChains, BlockAssumption
<1> QED
  BY <1>5 DEF d

\* Two chains have the same prefix up to any height below their fork point.
LEMMA SharedPrefix ==
  ASSUME NEW c \in Seq(Block), NEW d \in Seq(Block),
         NEW n \in 1..ForkPoint(c, d)
  PROVE  SubSeq(c, 1, n) = SubSeq(d, 1, n) /\ n <= Len(c) /\ n <= Len(d)
<1>1. /\ ForkPoint(c, d) \in 0..Len(c) /\ ForkPoint(c, d) \in 0..Len(d)
      /\ \A j \in 1..ForkPoint(c, d) : c[j] = d[j]
  BY ForkPointProperties
<1>2. n <= Len(c) /\ n <= Len(d) /\ \A j \in 1..n : c[j] = d[j]
  BY <1>1
<1> HIDE DEF ForkPoint
<1> DEFINE p == SubSeq(c, 1, n)
           q == SubSeq(d, 1, n)
<1>3. p \in Seq(Block) /\ Len(p) = n /\ \A i \in 1..n : p[i] = c[i]
  BY <1>1, <1>2, SubSeqProperties
<1>4. q \in Seq(Block) /\ Len(q) = n /\ \A i \in 1..n : q[i] = d[i]
  BY <1>1, <1>2, SubSeqProperties
<1> HIDE DEF p, q
<1>5. p = q
  BY <1>2, <1>3, <1>4, SeqEqual
<1> QED
  BY <1>2, <1>5 DEF p, q

-----------------------------------------------------------------------------
(* The binary search *)

\* g is what the search over [lo, hi) of _fork_point returns for two chains.
Searches(g, c, d) ==
  LET Bound == Smaller(Len(c), Len(d))
  IN  g = [range \in (0..Bound) \X (0..Bound) |->
             LET lo  == range[1]
                 hi  == range[2]
                 mid == (lo + hi) \div 2
             IN  IF lo >= hi THEN lo
                 ELSE IF c[mid + 1] = d[mid + 1] THEN g[<<mid + 1, hi>>]
                 ELSE g[<<lo, mid>>]]

\* ForkSearch is the value of such a function.
LEMMA SearchIsValue ==
  ASSUME NEW c, NEW d
  PROVE  ForkSearch(c, d) = (CHOOSE g : Searches(g, c, d))[<<0, Smaller(Len(c), Len(d))>>]
BY DEF ForkSearch, Searches

\* The end of it, and one round.
LEMMA SearchEnd ==
  ASSUME NEW c, NEW d, NEW g, Searches(g, c, d),
         NEW B, B = Smaller(Len(c), Len(d)), NEW lo \in 0..B, NEW hi \in 0..B, lo >= hi
  PROVE  g[<<lo, hi>>] = lo
<1>1. <<lo, hi>> \in (0..B) \X (0..B) /\ <<lo, hi>>[1] = lo /\ <<lo, hi>>[2] = hi
  OBVIOUS
<1> QED BY <1>1 DEF Searches

LEMMA SearchRound ==
  ASSUME NEW c, NEW d, NEW g, Searches(g, c, d),
         NEW B, B = Smaller(Len(c), Len(d)), NEW lo \in 0..B, NEW hi \in 0..B, ~ (lo >= hi),
         NEW mid, mid = (lo + hi) \div 2
  PROVE  g[<<lo, hi>>] = IF c[mid + 1] = d[mid + 1] THEN g[<<mid + 1, hi>>]
                                                   ELSE g[<<lo, mid>>]
<1>1. <<lo, hi>> \in (0..B) \X (0..B) /\ <<lo, hi>>[1] = lo /\ <<lo, hi>>[2] = hi
  OBVIOUS
<1> QED BY <1>1 DEF Searches

\* Chains that have the same block at a height have the same blocks below it,
\* so a look at one height tells on which side of it they part.
LEMMA LookTells ==
  ASSUME NEW c \in Chains, NEW d \in Chains, NEW m \in 1..Smaller(Len(c), Len(d))
  PROVE  c[m] = d[m] <=> m <= ForkPoint(c, d)
<1>1. PICK f \in Nat : f = ForkPoint(c, d)
  BY ChainFacts, ForkPointProperties
<1>2. /\ c \in Seq(Block) /\ d \in Seq(Block) /\ IsChain(c) /\ IsChain(d)
      /\ m \in 1..Len(c) /\ m \in 1..Len(d) /\ Len(c) \in Nat /\ Len(d) \in Nat
  BY ChainFacts DEF Smaller
<1>3. /\ \A j \in 1..f : c[j] = d[j]
      /\ f < Len(c) /\ f < Len(d) => c[f + 1] # d[f + 1]
  BY <1>1, <1>2, ForkPointProperties
<1>4. ASSUME c[m] = d[m], m > f PROVE FALSE
  <2>1. f + 1 \in 1..m /\ c[f + 1] # d[f + 1]
    BY <1>1, <1>2, <1>3, <1>4
  <2>2. PICK Bad : Bad = {i \in 1..m : c[i] # d[i]}
    OBVIOUS
  <2>3. Bad \subseteq 0..m /\ Bad # {} /\ m \in Nat
    BY <1>2, <2>1, <2>2
  <2>4. PICK z \in Bad : \A y \in Bad : y <= z
    BY <2>3, MaxIsGreatest
  <2>5. z \in 1..m /\ c[z] # d[z]
    BY <2>2, <2>4
  <2>6. z + 1 \in 2..m /\ z + 1 \notin Bad
    BY <1>2, <1>4, <2>4, <2>5
  <2>7. c[z + 1] = d[z + 1]
    BY <2>2, <2>6
  <2>8. z + 1 \in 2..Len(c) /\ z + 1 \in 2..Len(d) /\ (z + 1) - 1 = z
    BY <1>2, <2>5, <2>6
  <2>9. Parent[c[z + 1]] = c[z] /\ Parent[d[z + 1]] = d[z]
    BY <1>2, <2>8 DEF IsChain
  <2> QED BY <2>5, <2>7, <2>9
<1> QED BY <1>1, <1>2, <1>3, <1>4

\* What the search over [lo, hi) returns: the fork point, or the end of the
\* interval that is next to it.
Nearest(f, lo, hi) == IF lo >= hi THEN lo
                      ELSE IF f < lo THEN lo
                      ELSE IF f > hi THEN hi
                      ELSE f

\* There is a function that searches.
LEMMA SearchExists ==
  ASSUME NEW c \in Chains, NEW d \in Chains
  PROVE  \E g : Searches(g, c, d)
<1>1. PICK B \in Nat : B = Smaller(Len(c), Len(d))
  BY ChainFacts DEF Smaller
<1>2. PICK f \in Nat : f = ForkPoint(c, d)
  BY ChainFacts, ForkPointProperties
<1> DEFINE h == [range \in (0..B) \X (0..B) |-> Nearest(f, range[1], range[2])]
<1>3. \A lo \in 0..B, hi \in 0..B : h[<<lo, hi>>] = Nearest(f, lo, hi)
  OBVIOUS
<1>4. ASSUME NEW lo \in 0..B, NEW hi \in 0..B, lo < hi, NEW mid, mid = (lo + hi) \div 2
      PROVE  h[<<lo, hi>>] = IF c[mid + 1] = d[mid + 1] THEN h[<<mid + 1, hi>>]
                                                       ELSE h[<<lo, mid>>]
  <2> HIDE DEF h
  <2>1. lo \in Nat /\ hi \in Nat
    OBVIOUS
  <2>2. mid \in Nat /\ lo <= mid /\ mid < hi
    BY <1>4, <2>1
  <2>3. /\ mid + 1 <= f => Nearest(f, lo, hi) = Nearest(f, mid + 1, hi)
        /\ ~ (mid + 1 <= f) => Nearest(f, lo, hi) = Nearest(f, lo, mid)
    BY <2>1, <2>2 DEF Nearest
  <2>4. mid \in 0..B /\ mid + 1 \in 0..B /\ mid + 1 \in 1..B
    BY <2>1, <2>2
  <2>5. c[mid + 1] = d[mid + 1] <=> mid + 1 <= f
    BY <1>1, <1>2, <2>4, LookTells
  <2> QED BY <1>3, <2>3, <2>4, <2>5
<1>5. Searches(h, c, d)
  <2>1. ASSUME NEW range \in (0..B) \X (0..B)
        PROVE  h[range] = LET lo  == range[1]
                              hi  == range[2]
                              mid == (lo + hi) \div 2
                          IN  IF lo >= hi THEN lo
                              ELSE IF c[mid + 1] = d[mid + 1] THEN h[<<mid + 1, hi>>]
                              ELSE h[<<lo, mid>>]
    <3> HIDE DEF h
    <3>1. PICK lo \in 0..B, hi \in 0..B : range = <<lo, hi>>
      BY <2>1
    <3>2. range[1] = lo /\ range[2] = hi /\ lo \in Nat /\ hi \in Nat
      BY <3>1
    <3>3. CASE lo >= hi
      <4>1. h[<<lo, hi>>] = lo
        BY <1>3, <3>3 DEF Nearest
      <4> QED BY <3>1, <3>2, <3>3, <4>1
    <3>4. CASE lo < hi
      <4>1. PICK mid : mid = (lo + hi) \div 2
        OBVIOUS
      <4>2. h[range] = IF c[mid + 1] = d[mid + 1] THEN h[<<mid + 1, hi>>]
                                                  ELSE h[<<lo, mid>>]
        BY <1>4, <3>1, <3>4, <4>1
      <4>3. ~ (lo >= hi)
        BY <3>2, <3>4
      <4> QED BY <3>2, <4>1, <4>2, <4>3
    <3> QED BY <3>2, <3>3, <3>4
  <2>2. h = [range \in (0..B) \X (0..B) |-> h[range]]
    OBVIOUS
  <2> HIDE DEF h
  <2> QED BY <1>1, <2>1, <2>2 DEF Searches
<1> QED BY <1>5

\* Whatever searches finds the fork point, or the end next to it.
LEMMA SearchFinds ==
  ASSUME NEW c \in Chains, NEW d \in Chains, NEW g, Searches(g, c, d),
         NEW B \in Nat, B = Smaller(Len(c), Len(d)), NEW f \in Nat, f = ForkPoint(c, d)
  PROVE  \A lo, hi \in 0..B : g[<<lo, hi>>] = Nearest(f, lo, hi)
<1> SUFFICES ASSUME NEW low \in 0..B, NEW high \in 0..B,
                    g[<<low, high>>] # Nearest(f, low, high)
             PROVE  FALSE
  OBVIOUS
<1>1. PICK Bad : Bad = {n \in 0..B : \E lo, hi \in 0..B :
                         n = hi - lo /\ g[<<lo, hi>>] # Nearest(f, lo, hi)}
  OBVIOUS
<1>2. ASSUME NEW lo \in 0..B, NEW hi \in 0..B, lo >= hi
      PROVE  g[<<lo, hi>>] = Nearest(f, lo, hi)
  <2>1. g[<<lo, hi>>] = lo
    BY <1>2, SearchEnd
  <2> QED BY <1>2, <2>1 DEF Nearest
<1>3. low < high
  BY <1>2
<1>4. high - low \in 0..B
  BY <1>3
<1>5. Bad \subseteq Nat /\ Bad # {}
  <2>1. high - low \in Bad
    BY <1>1, <1>4
  <2>2. Bad \subseteq 0..B
    BY <1>1
  <2> QED BY <2>1, <2>2
<1>6. PICK n \in Bad : \A k \in Bad : n <= k
  BY <1>5, LeastNatural
<1>7. PICK lo \in 0..B, hi \in 0..B : n = hi - lo /\ g[<<lo, hi>>] # Nearest(f, lo, hi)
  BY <1>1, <1>6
<1>8. lo \in Nat /\ hi \in Nat /\ lo < hi /\ n \in Nat
  BY <1>2, <1>7
<1>9. PICK mid : mid = (lo + hi) \div 2
  OBVIOUS
<1>10. mid \in Nat /\ lo <= mid /\ mid < hi
  BY <1>8, <1>9
<1>11. /\ mid + 1 <= f => Nearest(f, lo, hi) = Nearest(f, mid + 1, hi)
       /\ ~ (mid + 1 <= f) => Nearest(f, lo, hi) = Nearest(f, lo, mid)
  BY <1>8, <1>10 DEF Nearest
<1>12. mid \in 0..B /\ mid + 1 \in 0..B /\ mid + 1 \in 1..B
  BY <1>8, <1>10
<1>13. c[mid + 1] = d[mid + 1] <=> mid + 1 <= f
  BY <1>12, LookTells
<1>14. g[<<lo, hi>>] = IF c[mid + 1] = d[mid + 1] THEN g[<<mid + 1, hi>>] ELSE g[<<lo, mid>>]
  <2>1. ~ (lo >= hi)
    BY <1>8
  <2> QED BY <1>9, <2>1, SearchRound
<1>15. ASSUME NEW a \in 0..B, NEW b \in 0..B, b - a < n, b - a >= 0
       PROVE  g[<<a, b>>] = Nearest(f, a, b)
  <2>1. b - a \in 0..B /\ ~ (n <= b - a)
    BY <1>8, <1>15
  <2>2. b - a \notin Bad
    BY <1>6, <2>1
  <2> QED BY <1>1, <2>1, <2>2
<1>16. g[<<mid + 1, hi>>] = Nearest(f, mid + 1, hi) /\ g[<<lo, mid>>] = Nearest(f, lo, mid)
  <2>1. hi - (mid + 1) < n /\ hi - (mid + 1) >= 0 /\ mid - lo < n /\ mid - lo >= 0
    BY <1>7, <1>8, <1>10
  <2> QED BY <1>12, <1>15, <2>1
<1> QED BY <1>7, <1>13, <1>14, <1>16, <1>11

\* The binary search of _fork_point returns what the linear scan of
\* _evaluate_remote_chain counts, for any two chains.
THEOREM SearchIsFork ==
  ASSUME NEW c \in Chains, NEW d \in Chains
  PROVE  ForkSearch(c, d) = ForkPoint(c, d)
<1>1. PICK B \in Nat : B = Smaller(Len(c), Len(d))
  BY ChainFacts DEF Smaller
<1>2. PICK f \in Nat : f = ForkPoint(c, d)
  BY ChainFacts, ForkPointProperties
<1>3. f <= B
  BY <1>1, <1>2, ChainFacts, ForkPointProperties DEF Smaller
<1>4. PICK g : g = CHOOSE a : Searches(a, c, d)
  OBVIOUS
<1>5. Searches(g, c, d)
  BY <1>4, SearchExists
<1>6. g[<<0, B>>] = Nearest(f, 0, B)
  BY <1>1, <1>2, <1>5, SearchFinds
<1>7. ForkSearch(c, d) = g[<<0, B>>]
  BY <1>1, <1>4, SearchIsValue
<1>8. Nearest(f, 0, B) = f
  BY <1>3 DEF Nearest
<1> QED BY <1>2, <1>6, <1>7, <1>8

-----------------------------------------------------------------------------
(* Which chain is better *)

\* The proven blocks of a chain are finitely many, and so is their work.
LEMMA ProvenFinite ==
  ASSUME NEW c \in Seq(Block)
  PROVE  ProvenBlocks(c) \subseteq Block /\ IsFiniteSet(ProvenBlocks(c))
<1>1. Len(c) \in Nat /\ \A i \in 2..Len(c) : c[i] \in Block
  OBVIOUS
<1>2. PICK I : I = 2..Len(c)
  OBVIOUS
<1>3. IsFiniteSet(I)
  BY <1>1, <1>2, FS_Interval
<1>4. PICK g : g = [i \in I |-> c[i]]
  OBVIOUS
<1>5. g \in Surjection(I, ProvenBlocks(c))
  BY <1>2, <1>4 DEF Surjection, ProvenBlocks
<1> QED BY <1>1, <1>3, <1>5, FS_Surjection DEF ProvenBlocks

LEMMA WorkIsSum ==
  ASSUME NEW S
  PROVE  Work(S) = SumOver(Iters, S)
BY DEF Work, SumOver

LEMMA WorkType ==
  ASSUME NEW c \in Seq(Block)
  PROVE  Work(ProvenBlocks(c)) \in Nat
<1>1. \A b \in ProvenBlocks(c) : Iters[b] \in Nat
  BY ProvenFinite, BlockAssumption
<1> QED BY <1>1, ProvenFinite, WorkIsSum, SumNatural

\* A block more is more work.
LEMMA WorkGrows ==
  ASSUME NEW c \in Chains, NEW d \in Chains, Len(c) < Len(d),
         \A i \in 1..Len(c) : c[i] = d[i]
  PROVE  Work(ProvenBlocks(c)) < Work(ProvenBlocks(d))
<1>1. /\ c \in Seq(Block) /\ Len(c) \in Nat /\ Len(c) > 0 /\ IsChain(c)
      /\ d \in Seq(Block) /\ Len(d) \in Nat /\ IsChain(d)
  BY ChainFacts
<1>2. PICK y : y = d[Len(c) + 1]
  OBVIOUS
<1>3. y \in ProvenBlocks(d) /\ Height[y] = Len(c)
  BY <1>1, <1>2 DEF ProvenBlocks, IsChain
<1>4. y \notin ProvenBlocks(c)
  <2> SUFFICES ASSUME NEW i \in 2..Len(c), y = c[i] PROVE FALSE
    BY DEF ProvenBlocks
  <2>1. Height[c[i]] = i - 1
    BY <1>1 DEF IsChain
  <2> QED BY <1>1, <1>3, <2>1
<1>5. ProvenBlocks(c) \in SUBSET ProvenBlocks(d)
  BY <1>1 DEF ProvenBlocks
<1>6. /\ IsFiniteSet(ProvenBlocks(d))
      /\ \A b \in ProvenBlocks(d) : Iters[b] \in Nat /\ Iters[b] > 0
  BY <1>1, ProvenFinite, BlockAssumption
<1>7. SumOver(Iters, ProvenBlocks(c)) < SumOver(Iters, ProvenBlocks(d))
  BY <1>3, <1>4, <1>5, <1>6, SumOfLess
<1> QED BY <1>7, WorkIsSum

\* Two chains that differ in their tips alone are the same work, if the tips are.
LEMMA SiblingWork ==
  ASSUME NEW c \in Chains, NEW d \in Chains, NEW n \in Nat,
         n > 1, Len(c) = n, Len(d) = n, \A i \in 1..(n - 1) : c[i] = d[i],
         Iters[c[n]] = Iters[d[n]]
  PROVE  Work(ProvenBlocks(c)) = Work(ProvenBlocks(d))
<1> DEFINE shared == {c[i] : i \in 2..(n - 1)}
<1>1. /\ c \in Seq(Block) /\ IsChain(c) /\ d \in Seq(Block) /\ IsChain(d)
  BY ChainFacts
<1>2. ProvenBlocks(c) \ {c[n]} = shared /\ c[n] \in ProvenBlocks(c)
  <2>1. \A i \in 2..(n - 1) : c[i] # c[n]
    BY <1>1 DEF IsChain
  <2> QED BY <2>1 DEF ProvenBlocks
<1>3. ProvenBlocks(d) \ {d[n]} = shared /\ d[n] \in ProvenBlocks(d)
  <2>1. \A i \in 2..(n - 1) : d[i] # d[n]
    BY <1>1 DEF IsChain
  <2> QED BY <2>1 DEF ProvenBlocks
<1>4. ASSUME NEW e \in Seq(Block), NEW x \in ProvenBlocks(e)
      PROVE  SumOver(Iters, ProvenBlocks(e)) = Iters[x] + SumOver(Iters, ProvenBlocks(e) \ {x})
  <2>1. IsFiniteSet(ProvenBlocks(e)) /\ \A b \in ProvenBlocks(e) : Iters[b] \in Int
    BY ProvenFinite, BlockAssumption
  <2> QED BY <2>1, SumWithout
<1> HIDE DEF shared
<1>5. /\ SumOver(Iters, ProvenBlocks(c)) = Iters[c[n]] + SumOver(Iters, shared)
      /\ SumOver(Iters, ProvenBlocks(d)) = Iters[d[n]] + SumOver(Iters, shared)
  BY <1>1, <1>2, <1>3, <1>4
<1> QED BY <1>5, WorkIsSum

\* And if one of them goes on, it is more work.
LEMMA SiblingGrows ==
  ASSUME NEW c \in Chains, NEW d \in Chains, NEW n \in Nat,
         n > 1, Len(c) = n, Len(d) > n, \A i \in 1..(n - 1) : c[i] = d[i],
         Iters[c[n]] = Iters[d[n]]
  PROVE  Work(ProvenBlocks(c)) < Work(ProvenBlocks(d))
<1>1. d \in Seq(Block) /\ Len(d) \in Nat
  BY ChainFacts
<1>2. PICK p : p = SubSeq(d, 1, n)
  OBVIOUS
<1>3. p \in Chains /\ Len(p) = n /\ \A i \in 1..n : p[i] = d[i]
  <2>1. n \in 1..Len(d)
    BY <1>1
  <2> QED BY <1>1, <1>2, <2>1, PrefixIsChain, SubSeqProperties
<1>4. (\A i \in 1..(n - 1) : c[i] = p[i]) /\ Iters[c[n]] = Iters[p[n]]
  BY <1>3
<1>5. Work(ProvenBlocks(c)) = Work(ProvenBlocks(p))
  BY <1>3, <1>4, SiblingWork
<1>6. Work(ProvenBlocks(p)) < Work(ProvenBlocks(d))
  BY <1>3, WorkGrows
<1> QED BY <1>5, <1>6

\* Where two chains part: above the genesis block they share, within both.
LEMMA PartWithin ==
  ASSUME NEW c \in Chains, NEW d \in Chains
  PROVE  \E f \in 1..MaxChain, B \in 1..MaxChain :
           /\ f = ForkSearch(c, d) /\ f = ForkPoint(c, d)
           /\ B = Smaller(Len(c), Len(d)) /\ f <= B /\ B <= Len(c) /\ B <= Len(d)
<1>1. PICK B \in 1..MaxChain : B = Smaller(Len(c), Len(d)) /\ B <= Len(c) /\ B <= Len(d)
  <2>1. Len(c) \in 1..MaxChain /\ Len(d) \in 1..MaxChain /\ MaxChain \in Nat
    BY ChainFacts, BlockAssumption
  <2> QED BY <2>1 DEF Smaller
<1>2. /\ c \in Seq(Block) /\ d \in Seq(Block) /\ Len(c) \in Nat /\ Len(d) \in Nat
      /\ c[1] = Genesis /\ d[1] = Genesis
  BY ChainFacts DEF IsChain
<1>3. PICK f \in Nat : f = ForkSearch(c, d) /\ f = ForkPoint(c, d) /\ f <= Len(c) /\ f <= Len(d)
  BY <1>2, SearchIsFork, ForkPointProperties
<1>4. f >= 1
  <2>1. 1 \in 1..Smaller(Len(c), Len(d))
    BY <1>1
  <2>2. 1 <= ForkPoint(c, d)
    BY <1>2, <2>1, LookTells
  <2> QED BY <1>3, <2>2
<1>5. f <= B
  BY <1>1, <1>2, <1>3 DEF Smaller
<1>6. f \in 1..MaxChain
  BY <1>1, <1>4, <1>5, BlockAssumption
<1> QED BY <1>1, <1>3, <1>5, <1>6

\* They part there whichever of them comes first.
LEMMA PartTogether ==
  ASSUME NEW c \in Chains, NEW d \in Chains
  PROVE  ForkSearch(d, c) = ForkSearch(c, d) /\ Smaller(Len(d), Len(c)) = Smaller(Len(c), Len(d))
<1>1. PICK f \in 1..MaxChain, B \in 1..MaxChain :
         /\ f = ForkSearch(c, d) /\ f = ForkPoint(c, d)
         /\ B = Smaller(Len(c), Len(d)) /\ f <= B
  BY PartWithin
<1>2. PICK e \in 1..MaxChain, A \in 1..MaxChain :
         /\ e = ForkSearch(d, c) /\ e = ForkPoint(d, c)
         /\ A = Smaller(Len(d), Len(c)) /\ e <= A
  BY PartWithin
<1>3. A = B
  BY <1>1, <1>2, ChainFacts DEF Smaller
<1>4. \A m \in 1..B : m <= e <=> m <= f
  <2> TAKE m \in 1..B
  <2>1. c[m] = d[m] <=> m <= f
    BY <1>1, LookTells
  <2>2. d[m] = c[m] <=> m <= e
    <3>1. m \in 1..Smaller(Len(d), Len(c))
      BY <1>2, <1>3
    <3> QED BY <1>2, <3>1, LookTells
  <2> QED BY <2>1, <2>2
<1>5. e \in 1..B /\ f \in 1..B
  BY <1>1, <1>2, <1>3
<1>6. e = f
  <2>1. e <= f /\ f <= e
    BY <1>4, <1>5
  <2> QED BY <2>1
<1> QED BY <1>1, <1>2, <1>3, <1>6

\* The keys that go into the fallback value of the first of two chains.
KeysFrom(c, f, n) == [i \in 1..n |-> Key[c[f + i]]]

LEMMA FallbackIsDigest ==
  ASSUME NEW c \in Chains, NEW d \in Chains, NEW f \in Nat, f = ForkSearch(c, d),
         NEW n \in Nat, f + n = Smaller(Len(c), Len(d))
  PROVE  KeysFrom(c, f, n) \in KeyLists(n) /\ FallbackKey(c, d) = Digest[KeysFrom(c, f, n)]
<1>1. c \in Seq(Block) /\ Len(c) \in Nat /\ Len(d) \in Nat
  BY ChainFacts
<1>2. f + n <= Len(c)
  BY <1>1 DEF Smaller
<1>3. KeysFrom(c, f, n) \in KeyLists(n)
  <2>1. ASSUME NEW i \in 1..n PROVE c[f + i] \in Block
    BY <1>1, <1>2
  <2> QED BY <2>1 DEF KeyLists, KeysFrom
<1>4. FallbackKey(c, d) = Digest[KeysFrom(c, f, n)]
  <2>1. Smaller(Len(c), Len(d)) - f = n
    <3>1. PICK B : B = Smaller(Len(c), Len(d))
      OBVIOUS
    <3>2. B - f = n
      BY <3>1
    <3> QED BY <3>1, <3>2
  <2> QED BY <2>1 DEF FallbackKey, KeysFrom
<1> QED BY <1>3, <1>4

\* How many of the heights two chains contest each wins, and the values that
\* decide when they win as many, are numbers that can be compared.
LEMMA ContestTypes ==
  ASSUME NEW c \in Chains, NEW d \in Chains
  PROVE  /\ Cardinality(HeightsWon(c, d)) \in Nat
         /\ FallbackKey(c, d) \in Nat
<1>1. PICK f \in 1..MaxChain, B \in 1..MaxChain :
        f = ForkSearch(c, d) /\ B = Smaller(Len(c), Len(d)) /\ f <= B
  BY PartWithin
<1>2. Cardinality(HeightsWon(c, d)) \in Nat
  <2>1. PICK I : I = (f + 1)..B
    OBVIOUS
  <2>2. IsFiniteSet(I)
    BY <2>1, FS_Interval
  <2>3. HeightsWon(c, d) \subseteq I
    BY <1>1, <2>1 DEF HeightsWon, Contested
  <2> QED BY <2>2, <2>3, FS_Subset, FS_CardinalityType
<1>3. FallbackKey(c, d) \in Nat
  <2>1. PICK n \in 0..(MaxChain - 1) : f + n = B
    <3>1. B - f \in 0..(MaxChain - 1) /\ f + (B - f) = B
      BY <1>1, BlockAssumption
    <3> QED BY <3>1
  <2>2. f \in Nat /\ n \in Nat
    OBVIOUS
  <2>3. KeysFrom(c, f, n) \in KeyLists(n) /\ FallbackKey(c, d) = Digest[KeysFrom(c, f, n)]
    BY <1>1, <2>1, <2>2, FallbackIsDigest
  <2> QED BY <2>3, DigestAssumption
<1> QED BY <1>2, <1>3

\* Of two chains at most one is better than the other: no node gives up a
\* chain for one it would itself give up for the first.
THEOREM AtMostOneWins ==
  ASSUME NEW c \in Chains, NEW d \in Chains, IsBetter(c, d)
  PROVE  ~ IsBetter(d, c)
<1>1. Work(ProvenBlocks(c)) \in Nat /\ Work(ProvenBlocks(d)) \in Nat
  BY ChainFacts, WorkType
<1>2. /\ Cardinality(HeightsWon(c, d)) \in Nat /\ FallbackKey(c, d) \in Nat
      /\ Cardinality(HeightsWon(d, c)) \in Nat /\ FallbackKey(d, c) \in Nat
  BY ContestTypes
<1> QED BY <1>1, <1>2 DEF IsBetter, BetterBy, WinsTieBreak

\* Two chains with different tips part: one of them has more work, or both have
\* a block at the height where they part.
LEMMA DifferAtFork ==
  ASSUME NEW c \in Chains, NEW d \in Chains, Tip(c) # Tip(d),
         Work(ProvenBlocks(c)) = Work(ProvenBlocks(d)),
         NEW f \in 1..MaxChain, f = ForkPoint(c, d),
         NEW B \in 1..MaxChain, B = Smaller(Len(c), Len(d)), f <= B
  PROVE  /\ f < B
         /\ c[f + 1] # d[f + 1] /\ Parent[c[f + 1]] = Parent[d[f + 1]]
         /\ {c[f + 1], d[f + 1]} \subseteq Block \ {Genesis}
<1>1. /\ c \in Seq(Block) /\ Len(c) \in Nat /\ IsChain(c)
      /\ d \in Seq(Block) /\ Len(d) \in Nat /\ IsChain(d)
  BY ChainFacts
<1>2. \A j \in 1..f : c[j] = d[j]
  BY <1>1, ForkPointProperties
<1>3. /\ f <= Len(c) /\ f <= Len(d) /\ f \in Nat /\ f > 0
      /\ f = B => f = Len(c) \/ f = Len(d)
  BY <1>1 DEF Smaller
<1>4. f # Len(c)
  <2> SUFFICES ASSUME f = Len(c) PROVE FALSE
    OBVIOUS
  <2>1. CASE Len(d) = f
    BY <1>1, <1>2, <1>3, <2>1 DEF Tip
  <2>2. CASE Len(c) < Len(d)
    <3>1. Work(ProvenBlocks(c)) < Work(ProvenBlocks(d))
      BY <1>2, <2>2, WorkGrows
    <3> QED BY <1>1, <3>1, WorkType
  <2> QED BY <1>1, <1>3, <2>1, <2>2
<1>5. f # Len(d)
  <2> SUFFICES ASSUME f = Len(d) PROVE FALSE
    OBVIOUS
  <2>1. Len(d) < Len(c) /\ \A i \in 1..Len(d) : d[i] = c[i]
    BY <1>1, <1>2, <1>3, <1>4
  <2>2. Work(ProvenBlocks(d)) < Work(ProvenBlocks(c))
    BY <2>1, WorkGrows
  <2> QED BY <1>1, <2>2, WorkType
<1>6. f < B /\ f < Len(c) /\ f < Len(d)
  BY <1>1, <1>3, <1>4, <1>5
<1>7. c[f + 1] # d[f + 1]
  BY <1>1, <1>6, ForkPointProperties
<1>8. /\ f + 1 \in 2..Len(c) /\ f + 1 \in 2..Len(d) /\ (f + 1) - 1 = f
      /\ f + 1 \in 1..Len(c) /\ f + 1 \in 1..Len(d)
  BY <1>1, <1>3, <1>6
<1>9. /\ Parent[c[f + 1]] = c[f] /\ c[f + 1] # Genesis /\ c[f + 1] \in Block
      /\ Parent[d[f + 1]] = d[f] /\ d[f + 1] # Genesis /\ d[f + 1] \in Block
  BY <1>1, <1>8 DEF IsChain
<1>10. c[f] = d[f]
  BY <1>2, <1>3
<1> QED BY <1>6, <1>7, <1>9, <1>10

\* Two chains of the same work that begin to differ with two blocks on one proof
\* end there, or differ in the outputs at the next height as well.
LEMMA AfterOneProof ==
  ASSUME NEW c \in Chains, NEW d \in Chains, ~ OneProof(Tip(c), Tip(d)),
         Work(ProvenBlocks(c)) = Work(ProvenBlocks(d)),
         NEW f \in 1..MaxChain, f = ForkPoint(c, d),
         NEW B \in 1..MaxChain, B = Smaller(Len(c), Len(d)), f < B,
         OneProof(c[f + 1], d[f + 1]), Iters[c[f + 1]] = Iters[d[f + 1]]
  PROVE  /\ f + 1 < B
         /\ Parent[c[f + 2]] # Parent[d[f + 2]]
         /\ {c[f + 2], d[f + 2]} \subseteq Block \ {Genesis}
<1>1. /\ c \in Seq(Block) /\ Len(c) \in Nat /\ IsChain(c)
      /\ d \in Seq(Block) /\ Len(d) \in Nat /\ IsChain(d)
      /\ Work(ProvenBlocks(c)) \in Nat /\ Work(ProvenBlocks(d)) \in Nat
  BY ChainFacts, WorkType
<1>2. PICK n \in Nat : n = f + 1
  OBVIOUS
<1>3. n > 1 /\ n <= Len(c) /\ n <= Len(d) /\ B \in {Len(c), Len(d)}
  BY <1>1, <1>2 DEF Smaller
<1>4. (\A i \in 1..(n - 1) : c[i] = d[i]) /\ Iters[c[n]] = Iters[d[n]]
  BY <1>1, <1>2, ForkPointProperties
<1>5. n # Len(c) \/ n # Len(d)
  BY <1>2 DEF Tip
<1>6. n # Len(c)
  <2> SUFFICES ASSUME n = Len(c) PROVE FALSE
    OBVIOUS
  <2>1. Len(d) > n
    BY <1>1, <1>3, <1>5
  <2>2. Work(ProvenBlocks(c)) < Work(ProvenBlocks(d))
    BY <1>3, <1>4, <2>1, SiblingGrows
  <2> QED BY <1>1, <2>2
<1>7. n # Len(d)
  <2> SUFFICES ASSUME n = Len(d) PROVE FALSE
    OBVIOUS
  <2>1. Len(c) > n /\ (\A i \in 1..(n - 1) : d[i] = c[i]) /\ Iters[d[n]] = Iters[c[n]]
    BY <1>1, <1>3, <1>4, <1>5
  <2>2. Work(ProvenBlocks(d)) < Work(ProvenBlocks(c))
    BY <1>3, <2>1, SiblingGrows
  <2> QED BY <1>1, <2>2
<1>8. n < Len(c) /\ n < Len(d) /\ n < B
  BY <1>1, <1>3, <1>6, <1>7
<1>9. PICK k \in Nat : k = f + 2
  OBVIOUS
<1>10. k \in 2..Len(c) /\ k \in 2..Len(d) /\ k - 1 = n
  BY <1>1, <1>2, <1>3, <1>8, <1>9
<1>11. /\ Parent[c[k]] = c[n] /\ c[k] # Genesis /\ c[k] \in Block
       /\ Parent[d[k]] = d[n] /\ d[k] # Genesis /\ d[k] \in Block
  BY <1>1, <1>10 DEF IsChain
<1>12. c[n] # d[n]
  BY <1>2 DEF OneProof
<1> QED BY <1>2, <1>8, <1>9, <1>11, <1>12

\* Of two chains with different tips one is better than the other, unless the
\* tips are two blocks on one proof: as an output answers the challenge of one
\* parent, siblings take as many iterations, and sha256 tells lists of outputs
\* apart.
THEOREM AtLeastOneWins ==
  ASSUME NEW c \in Chains, NEW d \in Chains, Tip(c) # Tip(d), ~ OneProof(Tip(c), Tip(d)),
         \A a, b \in Block \ {Genesis} : /\ Key[a] = Key[b] => Parent[a] = Parent[b]
                                         /\ Parent[a] = Parent[b] => Iters[a] = Iters[b],
         \A n \in 0..(MaxChain - 1) : \A s, t \in KeyLists(n) : Digest[s] = Digest[t] => s = t
  PROVE  IsBetter(c, d) \/ IsBetter(d, c)
<1>1. Work(ProvenBlocks(c)) \in Nat /\ Work(ProvenBlocks(d)) \in Nat
  BY ChainFacts, WorkType
<1>2. /\ Cardinality(HeightsWon(c, d)) \in Nat /\ FallbackKey(c, d) \in Nat
      /\ Cardinality(HeightsWon(d, c)) \in Nat /\ FallbackKey(d, c) \in Nat
  BY ContestTypes
<1>3. ASSUME Work(ProvenBlocks(c)) = Work(ProvenBlocks(d))
      PROVE  FallbackKey(c, d) # FallbackKey(d, c)
  <2>1. PICK f \in 1..MaxChain, B \in 1..MaxChain :
           /\ f = ForkSearch(c, d) /\ f = ForkPoint(c, d)
           /\ B = Smaller(Len(c), Len(d)) /\ f <= B
    BY PartWithin
  <2>2. f = ForkSearch(d, c) /\ B = Smaller(Len(d), Len(c))
    BY <2>1, PartTogether
  <2>3. /\ f < B
        /\ c[f + 1] # d[f + 1] /\ Parent[c[f + 1]] = Parent[d[f + 1]]
        /\ {c[f + 1], d[f + 1]} \subseteq Block \ {Genesis}
    BY <1>3, <2>1, DifferAtFork
  <2>4. PICK n \in 0..(MaxChain - 1) : f + n = B
    <3>1. B - f \in 0..(MaxChain - 1) /\ f + (B - f) = B
      BY <2>3, BlockAssumption
    <3> QED BY <3>1
  <2>5. n \in Nat /\ f \in Nat
    OBVIOUS
  <2>6. \E i \in 1..n : Key[c[f + i]] # Key[d[f + i]]
    <3>1. CASE Key[c[f + 1]] # Key[d[f + 1]]
      <4>1. 1 \in 1..n
        BY <2>3, <2>4
      <4> QED BY <3>1, <4>1
    <3>2. CASE Key[c[f + 1]] = Key[d[f + 1]]
      <4>1. OneProof(c[f + 1], d[f + 1]) /\ Iters[c[f + 1]] = Iters[d[f + 1]]
        BY <2>3, <3>2 DEF OneProof
      <4>2. /\ f + 1 < B
            /\ Parent[c[f + 2]] # Parent[d[f + 2]]
            /\ {c[f + 2], d[f + 2]} \subseteq Block \ {Genesis}
        BY <1>3, <2>1, <2>3, <4>1, AfterOneProof
      <4>3. 2 \in 1..n
        BY <2>4, <4>2
      <4>4. Key[c[f + 2]] # Key[d[f + 2]]
        BY <4>2
      <4> QED BY <4>3, <4>4
    <3> QED BY <3>1, <3>2
  <2>7. PICK s, t : s = KeysFrom(c, f, n) /\ t = KeysFrom(d, f, n)
    OBVIOUS
  <2>8. s \in KeyLists(n) /\ FallbackKey(c, d) = Digest[s]
    <3>1. f = ForkSearch(c, d) /\ f + n = Smaller(Len(c), Len(d))
      BY <2>1, <2>4
    <3> QED BY <2>5, <2>7, <3>1, FallbackIsDigest
  <2>9. t \in KeyLists(n) /\ FallbackKey(d, c) = Digest[t]
    <3>1. f = ForkSearch(d, c) /\ f + n = Smaller(Len(d), Len(c))
      BY <2>2, <2>4
    <3> QED BY <2>5, <2>7, <3>1, FallbackIsDigest
  <2>10. s # t
    BY <2>6, <2>7 DEF KeysFrom
  <2> QED BY <2>8, <2>9, <2>10
<1> QED BY <1>1, <1>2, <1>3 DEF IsBetter, BetterBy, WinsTieBreak

\* Between two chains the tips of which are two blocks on one proof nothing
\* decides: "a genuine, unbreakable tie" (tests/test_chainstate.py:218).
THEOREM OneProofIsTie ==
  ASSUME NEW c \in Chains, NEW d \in Chains, OneProof(Tip(c), Tip(d)),
         Iters[Tip(c)] = Iters[Tip(d)]
  PROVE  ~ IsBetter(c, d)
<1>1. /\ c \in Seq(Block) /\ Len(c) \in Nat /\ Len(c) > 0 /\ IsChain(c)
      /\ d \in Seq(Block) /\ Len(d) \in Nat /\ Len(d) > 0 /\ IsChain(d)
  BY ChainFacts
<1>2. Len(c) > 1 /\ Len(d) > 1
  <2>1. Tip(c) # Genesis /\ Tip(d) # Genesis
    BY DEF OneProof
  <2> QED BY <1>1, <2>1 DEF Tip, IsChain
<1>3. PICK n \in Nat : n = Len(c)
  BY <1>1
<1>4. PICK m \in Nat : m = Len(d)
  BY <1>1
<1>5. /\ n \in 2..Len(c) /\ n - 1 \in 1..Len(c)
      /\ m \in 2..Len(d) /\ m - 1 \in 1..Len(d)
  BY <1>2, <1>3, <1>4
<1>6. c[n - 1] = d[m - 1]
  <2>1. Parent[c[n]] = c[n - 1] /\ Parent[d[m]] = d[m - 1]
    BY <1>1, <1>5 DEF IsChain
  <2>2. Parent[c[n]] = Parent[d[m]]
    BY <1>3, <1>4 DEF OneProof, Tip
  <2> QED BY <2>1, <2>2
<1>7. m = n
  <2>1. Height[c[n - 1]] = (n - 1) - 1 /\ Height[d[m - 1]] = (m - 1) - 1
    BY <1>1, <1>5 DEF IsChain
  <2>2. (n - 1) - 1 = (m - 1) - 1
    BY <1>6, <2>1
  <2> QED BY <2>2
<1>8. c[n] # d[n] /\ Key[c[n]] = Key[d[n]] /\ Iters[c[n]] = Iters[d[n]]
  BY <1>3, <1>4, <1>7 DEF OneProof, Tip
<1>9. PICK f \in 1..MaxChain, B \in 1..MaxChain :
         /\ f = ForkSearch(c, d) /\ f = ForkPoint(c, d)
         /\ B = Smaller(Len(c), Len(d)) /\ f <= B
  BY PartWithin
<1>10. B = n /\ f = n - 1
  <2>1. B = n
    BY <1>3, <1>4, <1>7, <1>9 DEF Smaller
  <2>2. n \in 1..Smaller(Len(c), Len(d)) /\ n - 1 \in 1..Smaller(Len(c), Len(d))
    BY <1>3, <1>5, <1>9, <2>1
  <2>3. ~ (n <= f)
    BY <1>8, <1>9, <2>2, LookTells
  <2>4. n - 1 <= f
    BY <1>6, <1>7, <1>9, <2>2, LookTells
  <2> QED BY <2>1, <2>3, <2>4
<1>11. f = ForkSearch(d, c) /\ B = Smaller(Len(d), Len(c))
  BY <1>9, PartTogether
<1>12. Work(ProvenBlocks(c)) = Work(ProvenBlocks(d))
  <2>1. \A i \in 1..(n - 1) : c[i] = d[i]
    <3>1. \A i \in 1..ForkPoint(c, d) : c[i] = d[i]
      BY <1>1, ForkPointProperties
    <3>2. ForkPoint(c, d) = n - 1
      BY <1>9, <1>10
    <3> QED BY <3>1, <3>2
  <2> QED BY <1>2, <1>3, <1>4, <1>7, <1>8, <2>1, SiblingWork
<1>13. HeightsWon(c, d) = {} /\ HeightsWon(d, c) = {}
  <2>1. Contested(c, d) = {n} /\ Contested(d, c) = {n}
    BY <1>9, <1>10, <1>11 DEF Contested
  <2>2. Key[c[n]] \in Nat
    <3>1. c[n] \in Block
      BY <1>1, <1>5
    <3> QED BY <3>1, BlockAssumption
  <2> QED BY <1>8, <2>1, <2>2 DEF HeightsWon
<1>14. FallbackKey(c, d) = FallbackKey(d, c) /\ FallbackKey(c, d) \in Nat
  <2>1. KeysFrom(c, f, 1) = KeysFrom(d, f, 1)
    <3>1. f + 1 = n
      BY <1>10
    <3>2. \A i \in 1..1 : Key[c[f + i]] = Key[d[f + i]]
      BY <1>8, <3>1
    <3> QED BY <3>2 DEF KeysFrom
  <2>2. FallbackKey(c, d) = Digest[KeysFrom(c, f, 1)]
    <3>1. f \in Nat /\ f = ForkSearch(c, d) /\ 1 \in Nat /\ f + 1 = Smaller(Len(c), Len(d))
      BY <1>9, <1>10
    <3> QED BY <3>1, FallbackIsDigest
  <2>3. FallbackKey(d, c) = Digest[KeysFrom(d, f, 1)]
    <3>1. f \in Nat /\ f = ForkSearch(d, c) /\ 1 \in Nat /\ f + 1 = Smaller(Len(d), Len(c))
      BY <1>10, <1>11
    <3> QED BY <3>1, FallbackIsDigest
  <2>4. FallbackKey(c, d) \in Nat
    BY ContestTypes
  <2> QED BY <2>1, <2>2, <2>3, <2>4
<1>15. ~ WinsTieBreak(c, d)
  <2>1. Cardinality(HeightsWon(c, d)) = Cardinality(HeightsWon(d, c))
    BY <1>13
  <2>2. Cardinality(HeightsWon(c, d)) \in Nat
    BY ContestTypes
  <2> QED BY <1>14, <2>1, <2>2 DEF WinsTieBreak
<1>16. Work(ProvenBlocks(c)) \in Nat
  BY <1>1, WorkType
<1> QED BY <1>12, <1>15, <1>16 DEF IsBetter, BetterBy
=============================================================================
