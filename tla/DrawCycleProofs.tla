-------------------------- MODULE DrawCycleProofs --------------------------
(***************************************************************************)
(* Proofs about DrawCycle: heights follow one another whatever arrives in  *)
(* the middle of a cycle, a block of our own goes out on the tip we hold,  *)
(* and where a draw is over before its height has a child, every block of  *)
(* the chain stands on its parent.                                         *)
(***************************************************************************)
EXTENDS DrawCycle, ForkChoiceProofs

-----------------------------------------------------------------------------
(* The inductive invariant *)

\* The heights of a chain count up, whether or not its blocks fit together.
Levels(c) ==
  /\ c \in Seq(Block) /\ Len(c) \in 1..MaxChain
  /\ \A i \in 1..Len(c) : Height[c[i]] = i - 1

\* The draw for the height of the tip of c is over.
Closed(c) == ~ (draw.open /\ draw.height = Len(c) - 1)

\* What a cycle has taken and collected.
InCycle ==
  /\ pc = "cycle" => entrants = {}
  /\ pc # "cycle" => Levels(base) /\ Len(base) < MaxChain
                     /\ \A e \in entrants : Extends(e, base)
  /\ pc = "final" => chain = base

\* No child of the tip is queued while a sibling can still replace it, and none
\* is being built.
InPace ==
  /\ chain \in Chains
  /\ \A b \in ToSet(queue) :
       Height[b] <= Len(chain) /\ (Height[b] = Len(chain) => Closed(chain))
  /\ pc \in {"spacing", "final"} => chain = base /\ Closed(base)

IInv == TypeOK /\ Levels(chain) /\ InCycle /\ (paced => InPace)

-----------------------------------------------------------------------------
(* A drain is a fold over the queue *)

\* The function MapThenFoldSet computes on the way to Drained: what the blocks
\* at the places of s leave of chain.
Handles(g, S) ==
  g = [s \in SUBSET S |->
         IF s = {} THEN chain
         ELSE LET x == Max(s) IN Handled(g[s \ {x}], queue[x])]

After(S) == (CHOOSE g : Handles(g, S))[S]

LEMMA DrainedIsAfter == Drained = After(DOMAIN queue)
BY DEF Drained, FoldLeft, MapThenFoldSet, After, Handles

\* Places are finitely many.
LEMMA PlacesFinite ==
  ASSUME NEW n \in Nat, NEW S \in SUBSET (1..n)
  PROVE  \A T \in SUBSET S : IsFiniteSet(T)
<1>1. IsFiniteSet(1..n)
  BY FS_Interval
<1> QED BY <1>1, FS_Subset

\* Such a function gives the chain after any part of its places.
LEMMA HandlesBelow ==
  ASSUME NEW n \in Nat, NEW S \in SUBSET (1..n), NEW g, Handles(g, S)
  PROVE  \A T \in SUBSET S : After(T) = g[T]
<1> TAKE T \in SUBSET S
<1>1. \A s \in SUBSET S :
        g[s] = IF s = {} THEN chain ELSE LET x == Max(s) IN Handled(g[s \ {x}], queue[x])
  BY DEF Handles
<1> DEFINE h == [s \in SUBSET T |-> g[s]]
<1>2. Handles(h, T)
  <2>1. \A s \in SUBSET T :
          h[s] = IF s = {} THEN chain ELSE LET x == Max(s) IN Handled(h[s \ {x}], queue[x])
    BY <1>1
  <2> QED BY <2>1 DEF Handles
<1>3. PICK k : k = CHOOSE a : Handles(a, T)
  OBVIOUS
<1>4. Handles(k, T)
  BY <1>2, <1>3
<1>5. \A s \in SUBSET T :
        k[s] = IF s = {} THEN chain ELSE LET x == Max(s) IN Handled(k[s \ {x}], queue[x])
  BY <1>4 DEF Handles
<1>6. k[T] = g[T]
  <2> SUFFICES ASSUME k[T] # g[T] PROVE FALSE
    OBVIOUS
  <2>1. PICK Bad : Bad = {s \in SUBSET T : k[s] # g[s]}
    OBVIOUS
  <2>2. IsFiniteSet(T) /\ Bad \subseteq SUBSET T /\ Bad # {}
    BY <2>1, PlacesFinite
  <2>3. PICK s \in Bad : \A r \in SUBSET s : r # s => r \notin Bad
    BY <2>2, SmallestSubset
  <2>4. s \in SUBSET T /\ s \in SUBSET S /\ k[s] # g[s]
    BY <2>1, <2>3
  <2>5. s # {}
    BY <1>1, <1>5, <2>4
  <2>6. PICK x : x = Max(s)
    OBVIOUS
  <2>7. x \in s /\ k[s] = Handled(k[s \ {x}], queue[x]) /\ g[s] = Handled(g[s \ {x}], queue[x])
    BY <1>1, <1>5, <2>4, <2>5, <2>6, LastPlace
  <2>8. s \ {x} \in SUBSET T /\ s \ {x} # s
    BY <2>4, <2>7
  <2>9. s \ {x} \notin Bad
    BY <2>3, <2>8
  <2>10. k[s \ {x}] = g[s \ {x}]
    BY <2>1, <2>8, <2>9
  <2> QED BY <2>4, <2>7, <2>10
<1>7. After(T) = k[T]
  BY <1>3 DEF After
<1> QED BY <1>6, <1>7

\* There is such a function.
LEMMA HandlesExists ==
  ASSUME NEW n \in Nat, NEW S \in SUBSET (1..n)
  PROVE  \E g : Handles(g, S)
<1> SUFFICES ASSUME ~ \E g : Handles(g, S) PROVE FALSE
  OBVIOUS
<1>1. PICK Bad : Bad = {s \in SUBSET S : ~ \E g : Handles(g, s)}
  OBVIOUS
<1>2. IsFiniteSet(S) /\ Bad \subseteq SUBSET S /\ Bad # {}
  BY <1>1, PlacesFinite
<1>3. PICK b \in Bad : \A r \in SUBSET b : r # b => r \notin Bad
  BY <1>2, SmallestSubset
<1>4. b \in SUBSET (1..n) /\ b \in SUBSET S /\ ~ \E g : Handles(g, b)
  BY <1>1, <1>3
<1>5. ASSUME NEW r \in SUBSET b, r # b
      PROVE  After(r) = IF r = {} THEN chain
                        ELSE LET x == Max(r) IN Handled(After(r \ {x}), queue[x])
  <2>1. r \in SUBSET (1..n) /\ r \in SUBSET S
    BY <1>4
  <2>2. PICK g : Handles(g, r)
    BY <1>1, <1>3, <1>5, <2>1
  <2>3. \A s \in SUBSET r : After(s) = g[s]
    BY <2>1, <2>2, HandlesBelow
  <2>4. g[r] = IF r = {} THEN chain ELSE LET x == Max(r) IN Handled(g[r \ {x}], queue[x])
    BY <2>2 DEF Handles
  <2> QED BY <2>3, <2>4
<1> DEFINE h == [s \in SUBSET b |->
                   IF s = {} THEN chain
                   ELSE LET x == Max(s) IN Handled(After(s \ {x}), queue[x])]
<1>6. ASSUME NEW s \in SUBSET b, s # {}, NEW x, x = Max(s)
      PROVE  h[s] = Handled(h[s \ {x}], queue[x])
  <2>1. x \in s
    BY <1>4, <1>6, LastPlace
  <2>2. s \ {x} \in SUBSET b /\ s \ {x} # b
    BY <2>1
  <2>3. h[s \ {x}] = After(s \ {x})
    BY <1>5, <2>2
  <2> QED BY <1>6, <2>3
<1>7. Handles(h, b)
  <2>1. \A s \in SUBSET b :
          h[s] = IF s = {} THEN chain ELSE LET x == Max(s) IN Handled(h[s \ {x}], queue[x])
    <3> TAKE s \in SUBSET b
    <3>1. CASE s = {}
      BY <3>1
    <3>2. CASE s # {}
      <4> HIDE DEF h
      <4> QED BY <1>6, <3>2
    <3> QED BY <3>1, <3>2
  <2>2. h = [s \in SUBSET b |-> h[s]]
    OBVIOUS
  <2> HIDE DEF h
  <2> QED BY <2>1, <2>2 DEF Handles
<1> QED BY <1>4, <1>7

\* The last of some blocks is handled against what the others leave.
LEMMA AfterStep ==
  ASSUME NEW n \in Nat, NEW s \in SUBSET (1..n)
  PROVE  /\ s = {} => After(s) = chain
         /\ s # {} => Max(s) \in s /\ After(s) = Handled(After(s \ {Max(s)}), queue[Max(s)])
<1>1. PICK g : Handles(g, s)
  BY HandlesExists
<1>2. \A r \in SUBSET s : After(r) = g[r]
  BY <1>1, HandlesBelow
<1>3. g[s] = IF s = {} THEN chain ELSE LET x == Max(s) IN Handled(g[s \ {x}], queue[x])
  BY <1>1 DEF Handles
<1>4. s # {} => Max(s) \in s
  BY LastPlace
<1> QED BY <1>2, <1>3, <1>4

-----------------------------------------------------------------------------
(* What a block does to a chain *)

\* All but the last block of a chain.
LEMMA FrontFacts ==
  ASSUME NEW c \in Seq(Block), Len(c) > 1
  PROVE  /\ Front(c) \in Seq(Block) /\ Len(Front(c)) = Len(c) - 1
         /\ \A i \in 1..(Len(c) - 1) : Front(c)[i] = c[i]
BY SubSeqProperties DEF Front

\* A chain whose heights count up, with a block of the next height.
LEMMA AppendLevels ==
  ASSUME NEW c, Levels(c), Len(c) < MaxChain, NEW b \in Block, Height[b] = Len(c)
  PROVE  Levels(Append(c, b)) /\ Len(Append(c, b)) = Len(c) + 1
<1>1. c \in Seq(Block) /\ Len(c) \in Nat /\ MaxChain \in Nat
  BY BlockAssumption DEF Levels
<1> DEFINE d == Append(c, b)
<1>2. /\ d \in Seq(Block) /\ Len(d) = Len(c) + 1 /\ d[Len(c) + 1] = b
      /\ \A i \in 1..Len(c) : d[i] = c[i]
  BY <1>1, AppendProperties
<1> HIDE DEF d
<1>3. \A i \in 1..Len(d) : Height[d[i]] = i - 1
  <2> TAKE i \in 1..Len(d)
  <2>1. CASE i = Len(c) + 1
    BY <1>1, <1>2, <2>1
  <2>2. CASE i \in 1..Len(c)
    BY <1>2, <2>2 DEF Levels
  <2> QED BY <1>1, <1>2, <2>1, <2>2
<1>4. Levels(d) /\ Len(d) = Len(c) + 1
  BY <1>1, <1>2, <1>3 DEF Levels
<1> QED BY <1>4 DEF d

\* The chain without its tip.
LEMMA FrontLevels ==
  ASSUME NEW c, Levels(c), Len(c) > 1
  PROVE  Levels(Front(c)) /\ Len(Front(c)) = Len(c) - 1
<1>1. c \in Seq(Block) /\ Len(c) \in 1..MaxChain /\ MaxChain \in Nat
  BY BlockAssumption DEF Levels
<1> QED BY <1>1, FrontFacts DEF Levels

LEMMA FrontIsChain ==
  ASSUME NEW c \in Chains, Len(c) > 1
  PROVE  Front(c) \in Chains /\ Tip(Front(c)) = c[Len(c) - 1]
<1>1. c \in Seq(Block) /\ Len(c) \in 1..MaxChain /\ MaxChain \in Nat
  BY ChainFacts, BlockAssumption
<1>2. Front(c) = SubSeq(c, 1, Len(c) - 1) /\ Len(c) - 1 \in 1..Len(c)
  BY <1>1 DEF Front
<1>3. Front(c) \in Chains
  BY <1>2, PrefixIsChain
<1> QED BY <1>1, <1>3, FrontFacts DEF Tip

\* A chain in good order has heights that count up.
LEMMA ChainLevels ==
  ASSUME NEW c \in Chains
  PROVE  Levels(c)
BY ChainFacts DEF Levels, IsChain

\* A child of a chain's tip has the height after it.
LEMMA ChildHeight ==
  ASSUME NEW c, Levels(c), NEW b, Extends(b, c)
  PROVE  b \in Block /\ Height[b] = Len(c)
<1>1. Len(c) \in Nat /\ Len(c) \in 1..Len(c)
  BY BlockAssumption DEF Levels
<1>2. Height[Tip(c)] = Len(c) - 1
  BY <1>1 DEF Levels, Tip
<1> QED BY <1>1, <1>2 DEF Extends

\* Handling a block keeps the length of the chain, and a chain in good order;
\* and it changes nothing if the draw for the tip is over.
LEMMA HandledFacts ==
  ASSUME NEW c, Levels(c), NEW b \in Block
  PROVE  /\ Levels(Handled(c, b)) /\ Len(Handled(c, b)) = Len(c)
         /\ c \in Chains => Handled(c, b) \in Chains
         /\ Closed(c) => Handled(c, b) = c
<1>1. Len(c) \in 1..MaxChain /\ MaxChain \in Nat
  BY BlockAssumption DEF Levels
<1>2. CASE ~ TakesSibling(c, b)
  BY <1>2 DEF Handled
<1>3. CASE TakesSibling(c, b)
  <2>1. /\ draw.open /\ draw.height = Height[b] /\ Len(c) > 1
        /\ Height[b] = Len(c) - 1 /\ Parent[b] = c[Len(c) - 1]
    BY <1>3 DEF TakesSibling
  <2>2. Handled(c, b) = Append(Front(c), b)
    BY <1>3 DEF Handled
  <2>3. Levels(Front(c)) /\ Len(Front(c)) = Len(c) - 1
    BY <2>1, FrontLevels
  <2>4. Levels(Handled(c, b)) /\ Len(Handled(c, b)) = Len(c)
    BY <1>1, <2>1, <2>2, <2>3, AppendLevels
  <2>5. ~ Closed(c)
    BY <2>1 DEF Closed
  <2>6. ASSUME c \in Chains
        PROVE  Handled(c, b) \in Chains
    <3>1. Front(c) \in Chains /\ Tip(Front(c)) = c[Len(c) - 1]
      BY <2>1, <2>6, FrontIsChain
    <3>2. Height[Tip(Front(c))] = Len(c) - 2
      BY <1>1, <2>3, <3>1, ChainFacts
    <3>3. b # Genesis
      BY <1>1, <2>1, BlockAssumption
    <3>4. Extends(b, Front(c))
      BY <1>1, <2>1, <3>1, <3>2, <3>3 DEF Extends
    <3> QED BY <1>1, <2>2, <2>3, <3>1, <3>4, AppendIsChain
  <2> QED BY <2>4, <2>5, <2>6
<1> QED BY <1>2, <1>3

\* So does a drain.
LEMMA DrainFacts ==
  ASSUME TypeOK, Levels(chain)
  PROVE  /\ Levels(Drained) /\ Len(Drained) = Len(chain)
         /\ chain \in Chains => Drained \in Chains
         /\ Closed(chain) => Drained = chain
<1> DEFINE Good(c) == /\ Levels(c) /\ Len(c) = Len(chain)
                      /\ chain \in Chains => c \in Chains
                      /\ Closed(chain) => c = chain
<1>1. PICK n \in Nat : n = Len(queue) /\ DOMAIN queue = 1..n /\ queue \in Seq(Block)
  BY DEF TypeOK
<1>2. \A i \in 1..n : queue[i] \in Block
  BY <1>1
<1>3. Good(chain)
  OBVIOUS
<1>4. ASSUME NEW c, NEW b \in Block, Good(c)
      PROVE  Good(Handled(c, b))
  <2>1. Closed(chain) => Closed(c)
    BY <1>4
  <2> QED BY <1>4, <2>1, HandledFacts
<1> HIDE DEF Good
<1>5. Good(After(1..n))
  <2> SUFFICES ASSUME ~ Good(After(1..n)) PROVE FALSE
    OBVIOUS
  <2>1. PICK Bad : Bad = {s \in SUBSET (1..n) : ~ Good(After(s))}
    OBVIOUS
  <2>2. PICK T \in SUBSET (1..n) : T = 1..n
    OBVIOUS
  <2>3. IsFiniteSet(T) /\ Bad \subseteq SUBSET T /\ Bad # {}
    BY <2>1, <2>2, PlacesFinite
  <2>4. PICK s \in Bad : \A r \in SUBSET s : r # s => r \notin Bad
    BY <2>3, SmallestSubset
  <2>5. s \in SUBSET (1..n) /\ ~ Good(After(s))
    BY <2>1
  <2>6. s # {}
    BY <1>3, <2>5, AfterStep
  <2>7. PICK x \in s : After(s) = Handled(After(s \ {x}), queue[x])
    BY <2>5, <2>6, AfterStep
  <2>8. Good(After(s \ {x}))
    BY <2>1, <2>4, <2>5
  <2> QED BY <1>2, <1>4, <2>5, <2>7, <2>8
<1>6. Good(Drained)
  BY <1>1, <1>5, DrainedIsAfter
<1> QED BY <1>6 DEF Good

\* What a sync makes of what a drain has left.
LEMMA SyncedFacts ==
  ASSUME TypeOK, Levels(chain), NEW c \in Synced(Drained)
  PROVE  Levels(c) /\ (chain \in Chains => c \in Chains)
BY DrainFacts, ChainLevels DEF Synced

-----------------------------------------------------------------------------
(* What a commit makes of a chain *)

\* The winner is one of them.
LEMMA WinnerIsOne ==
  ASSUME NEW blocks \in SUBSET Block, blocks # {}
  PROVE  Winner(blocks) \in blocks
<1>1. PICK K : K = {Key[b] : b \in blocks}
  OBVIOUS
<1>2. \A b \in blocks : Key[b] \in Nat
  BY BlockAssumption
<1>3. K \subseteq Nat /\ K # {}
  BY <1>1, <1>2
<1>4. PICK x \in K : \A y \in K : x <= y
  BY <1>3, LeastNatural
<1>5. PICK b \in blocks : \A a \in blocks : Key[b] <= Key[a]
  BY <1>1, <1>4
<1> QED BY <1>5 DEF Winner

\* A draw that is opened.
LEMMA OpenDrawFacts ==
  ASSUME TypeOK, NEW h \in 0..(MaxChain - 1)
  PROVE  /\ OpenDraw(h) \in [height : 0..(MaxChain - 1), open : BOOLEAN]
         /\ OpenDraw(h).height = h
BY DEF OpenDraw, TypeOK

\* A candidate is a child of the tip and was queued.
LEMMA CandidateFacts ==
  ASSUME NEW c, Levels(c), NEW b \in Candidates(c)
  PROVE  b \in ToSet(queue) /\ Extends(b, c) /\ b \in Block /\ Height[b] = Len(c)
BY ChildHeight DEF Candidates

\* Blocks that extend d are committed to c, which is as long as d.
LEMMA CommitFacts ==
  ASSUME TypeOK, NEW c, Levels(c), NEW d, Levels(d), Len(c) = Len(d), Len(d) < MaxChain,
         NEW blocks, blocks # {}, \A b \in blocks : Extends(b, d), Commit(c, blocks)
  PROVE  /\ Levels(chain') /\ Len(chain') = Len(c) + 1
         /\ draw' \in [height : 0..(MaxChain - 1), open : BOOLEAN]
         /\ c \in Chains /\ c = d => chain' \in Chains
<1>1. PICK b : b = Winner(blocks)
  OBVIOUS
<1>2. blocks \in SUBSET Block
  BY DEF Extends
<1>3. b \in blocks /\ Extends(b, d) /\ b \in Block /\ Height[b] = Len(c)
  BY <1>1, <1>2, WinnerIsOne, ChildHeight
<1>4. chain' = Append(c, b) /\ draw' = OpenDraw(Height[b])
  BY <1>1 DEF Commit
<1>5. Height[b] \in 0..(MaxChain - 1)
  BY <1>3, BlockAssumption
<1> QED BY <1>3, <1>4, <1>5, AppendLevels, AppendIsChain, OpenDrawFacts

\* Candidates are considered for the height after the alias.
LEMMA ConsiderFacts ==
  ASSUME TypeOK, NEW c, Levels(c), Len(c) < MaxChain, Consider(c),
         \A e \in entrants : Extends(e, c)
  PROVE  /\ entrants' \subseteq Block /\ \A e \in entrants' : Extends(e, c)
         /\ draw' \in [height : 0..(MaxChain - 1), open : BOOLEAN]
         /\ draw' = draw \/ draw'.height = Len(c)
<1>1. Len(c) \in 0..(MaxChain - 1)
  BY BlockAssumption DEF Levels
<1>2. draw' = draw \/ draw' = OpenDraw(Len(c))
  BY DEF Consider
<1>3. \A e \in entrants' : Extends(e, c)
  BY DEF Consider, Candidates
<1> QED BY <1>1, <1>2, <1>3, OpenDrawFacts DEF TypeOK, Extends

\* We can build on a chain that is not at its bound.
LEMMA OwnBlockFacts ==
  ASSUME NEW c, Levels(c), Len(c) < MaxChain
  PROVE  Extends(OwnBlock(c), c) /\ OwnBlock(c) \in Block /\ Builder[OwnBlock(c)] = Me
<1>1. Len(c) \in 1..Len(c) /\ MaxChain \in Nat /\ Len(c) \in Nat
  BY BlockAssumption DEF Levels
<1>2. Tip(c) \in Block /\ Height[Tip(c)] = Len(c) - 1
  BY <1>1 DEF Levels, Tip
<1>3. Height[Tip(c)] < MaxChain - 1
  BY <1>1, <1>2
<1>4. \E b \in Block \ {Genesis} : Extends(b, c) /\ Builder[b] = Me
  BY <1>2, <1>3, CycleAssumption DEF Extends
<1> QED BY <1>4 DEF OwnBlock

-----------------------------------------------------------------------------
(* The invariant holds at the start and in every step *)

LEMMA NoneQueued == ToSet(<< >>) = {}
BY DEF ToSet

LEMMA IInvInit == Init => IInv
<1> SUFFICES ASSUME Init PROVE IInv
  OBVIOUS
<1>1. <<Genesis>> \in Chains /\ Genesis \in Block /\ MaxChain \in Nat \ {0}
  BY GenesisIsChain, BlockAssumption
<1>2. Levels(chain) /\ chain \in Chains
  BY <1>1, ChainLevels DEF Init
<1>3. TypeOK
  BY <1>1, CycleAssumption DEF Init, TypeOK, NoChain
<1>4. InPace
  BY <1>2, NoneQueued DEF Init, InPace
<1> QED BY <1>2, <1>3, <1>4 DEF Init, IInv, InCycle

\* What the next state has to be, where a cycle goes on.
LEMMA GoesOn ==
  ASSUME IInv,
         pc' \in {"paused", "wait", "build", "spacing"},
         Levels(chain'), Levels(base'), Len(base') < MaxChain,
         queue' \in Seq(Block), Len(queue') <= MaxQueue,
         entrants' \subseteq Block, \A e \in entrants' : Extends(e, base'),
         draw' \in [height : 0..(MaxChain - 1), open : BOOLEAN],
         UNCHANGED <<spread, paced>>,
         paced => InPace'
  PROVE  IInv'
BY DEF IInv, TypeOK, InCycle, Levels

\* The same where it ends.
LEMMA Ends ==
  ASSUME IInv, EndCycle, Levels(chain'),
         queue' \in Seq(Block), Len(queue') <= MaxQueue,
         draw' \in [height : 0..(MaxChain - 1), open : BOOLEAN],
         UNCHANGED <<spread, paced>>,
         paced => chain' \in Chains /\ \A b \in ToSet(queue') : Height[b] < Len(chain')
  PROVE  IInv'
<1>1. TypeOK'
  BY DEF IInv, TypeOK, EndCycle, Levels, NoChain
<1>2. InCycle'
  BY DEF EndCycle, InCycle
<1>3. paced => InPace'
  <2> SUFFICES ASSUME paced PROVE InPace'
    OBVIOUS
  <2>1. Len(chain') \in Nat /\ \A b \in ToSet(queue') : b \in Block
    BY BlockAssumption DEF Levels, ToSet
  <2>2. \A b \in ToSet(queue') : Height[b] \in Nat /\ Height[b] < Len(chain')
    BY <2>1, BlockAssumption
  <2> QED BY <2>1, <2>2 DEF InPace, EndCycle
<1> QED BY <1>1, <1>2, <1>3 DEF IInv

LEMMA StartStep ==
  ASSUME IInv, NEW mode \in Modes, StartCycle(mode)
  PROVE  IInv'
<1>1. TypeOK /\ Levels(chain) /\ entrants = {} /\ mode \in {"paused", "wait", "build"}
  BY CycleAssumption DEF IInv, InCycle, StartCycle
<1>2. PICK c \in Synced(Drained) :
        /\ Len(c) < MaxChain
        /\ queue' = << >>
        /\ IF mode = "wait" /\ Candidates(c) # {}
           THEN Commit(c, Candidates(c)) /\ EndCycle
           ELSE /\ chain' = c /\ base' = c /\ pc' = mode
                /\ Consider(c)
  BY DEF StartCycle
<1>3. Levels(c) /\ (paced => c \in Chains)
  BY <1>1, SyncedFacts DEF IInv, InPace
<1>4. /\ queue' \in Seq(Block) /\ Len(queue') <= MaxQueue /\ ToSet(queue') = {}
      /\ UNCHANGED <<spread, paced>>
  BY <1>2, NoneQueued, CycleAssumption DEF StartCycle
<1>5. CASE mode = "wait" /\ Candidates(c) # {}
  <2>1. Commit(c, Candidates(c)) /\ EndCycle
    BY <1>2, <1>5
  <2>2. \A b \in Candidates(c) : Extends(b, c)
    BY <1>3, CandidateFacts
  <2>3. /\ Levels(chain') /\ (paced => chain' \in Chains)
        /\ draw' \in [height : 0..(MaxChain - 1), open : BOOLEAN]
    BY <1>1, <1>2, <1>3, <1>5, <2>1, <2>2, CommitFacts
  <2> QED BY <1>4, <2>1, <2>3, Ends
<1>6. CASE ~ (mode = "wait" /\ Candidates(c) # {})
  <2>1. chain' = c /\ base' = c /\ pc' = mode /\ Consider(c)
    BY <1>2, <1>6
  <2>2. /\ entrants' \subseteq Block /\ \A e \in entrants' : Extends(e, c)
        /\ draw' \in [height : 0..(MaxChain - 1), open : BOOLEAN]
    BY <1>1, <1>2, <1>3, <2>1, ConsiderFacts
  <2>3. paced => InPace'
    BY <1>1, <1>3, <1>4, <2>1 DEF InPace
  <2> QED BY <1>1, <1>2, <1>3, <1>4, <2>1, <2>2, <2>3, GoesOn
<1> QED BY <1>5, <1>6

\* A cycle that holds the tip it began on commits what it has collected.
LEMMA CommitStep ==
  ASSUME IInv, pc \in {"paused", "build"}, chain = base, entrants # {},
         Commit(chain, entrants), EndCycle, UNCHANGED <<queue, spread, paced>>
  PROVE  IInv'
<1>1. /\ TypeOK /\ Levels(chain) /\ Len(chain) < MaxChain /\ Len(chain) \in Nat
      /\ \A e \in entrants : Extends(e, chain)
  BY BlockAssumption DEF IInv, InCycle, Levels
<1>2. /\ Levels(chain') /\ Len(chain') = Len(chain) + 1
      /\ draw' \in [height : 0..(MaxChain - 1), open : BOOLEAN]
      /\ chain \in Chains => chain' \in Chains
  BY <1>1, CommitFacts
<1>3. ASSUME paced
      PROVE  chain' \in Chains /\ \A b \in ToSet(queue') : Height[b] < Len(chain')
  <2>1. /\ chain \in Chains /\ \A b \in ToSet(queue) : Height[b] <= Len(chain)
        /\ queue \in Seq(Block)
    BY <1>3 DEF IInv, InPace, TypeOK
  <2>2. \A b \in ToSet(queue) : Height[b] \in Int
    BY <2>1, BlockAssumption DEF ToSet
  <2> QED BY <1>1, <1>2, <2>1, <2>2
<1> QED BY <1>1, <1>2, <1>3, Ends DEF TypeOK

\* One that ends without a block leaves all as it is.
LEMMA QuitStep ==
  ASSUME IInv, pc \in {"paused", "wait", "build", "spacing"}, EndCycle,
         UNCHANGED <<chain, queue, draw, spread, paced>>
  PROVE  IInv'
<1>1. TypeOK' /\ InCycle' /\ Levels(chain')
  BY DEF IInv, TypeOK, InCycle, EndCycle, NoChain
<1>2. paced => InPace'
  BY DEF IInv, InPace, EndCycle, Closed
<1> QED BY <1>1, <1>2 DEF IInv

LEMMA PausedEndStep == IInv /\ PausedEnd => IInv'
BY CommitStep, QuitStep DEF PausedEnd

LEMMA AbandonedStep == IInv /\ Abandoned => IInv'
BY CommitStep, QuitStep DEF Abandoned

LEMMA PollStep ==
  ASSUME IInv, Poll
  PROVE  IInv'
<1>1. /\ TypeOK /\ Levels(base) /\ Len(base) < MaxChain /\ chain = base
      /\ \A e \in entrants : Extends(e, base)
  BY DEF IInv, InCycle, Poll
<1>2. /\ Levels(chain') /\ (paced => chain' \in Chains)
  BY <1>1, SyncedFacts DEF IInv, InPace, Poll
<1>3. /\ entrants' \subseteq Block /\ \A e \in entrants' : Extends(e, base)
      /\ draw' \in [height : 0..(MaxChain - 1), open : BOOLEAN]
  BY <1>1, ConsiderFacts DEF Poll
<1>4. /\ queue' \in Seq(Block) /\ Len(queue') <= MaxQueue /\ ToSet(queue') = {}
      /\ pc' \in {"paused", "build"} /\ base' = base /\ UNCHANGED <<spread, paced>>
  BY NoneQueued, CycleAssumption DEF Poll
<1>5. paced => InPace'
  BY <1>2, <1>4 DEF InPace
<1> QED BY <1>1, <1>2, <1>3, <1>4, <1>5, GoesOn

\* A candidate of the tip's height and one for the next are never in one drain.
LEMMA NothingTaken ==
  ASSUME IInv, paced, NEW b \in Candidates(chain)
  PROVE  Drained = chain
<1>1. b \in ToSet(queue) /\ Height[b] = Len(chain)
  BY CandidateFacts DEF IInv
<1>2. Closed(chain)
  BY <1>1 DEF IInv, InPace
<1> QED BY <1>2, DrainFacts DEF IInv

LEMMA WaitPollStep ==
  ASSUME IInv, WaitPoll
  PROVE  IInv'
<1>1. /\ TypeOK /\ Levels(base) /\ Len(base) < MaxChain /\ chain = base
      /\ \A e \in entrants : Extends(e, base)
  BY DEF IInv, InCycle, WaitPoll
<1>2. /\ queue' \in Seq(Block) /\ Len(queue') <= MaxQueue /\ ToSet(queue') = {}
      /\ UNCHANGED <<spread, paced>>
  BY NoneQueued, CycleAssumption DEF WaitPoll
<1>3. CASE Candidates(base) # {}
  <2>1. Commit(Drained, Candidates(base)) /\ EndCycle
    BY <1>3 DEF WaitPoll
  <2>2. \A b \in Candidates(base) : Extends(b, base)
    BY <1>1, CandidateFacts
  <2>3. Levels(Drained) /\ Len(Drained) = Len(base)
    BY <1>1, DrainFacts
  <2>4. paced => Drained = base /\ base \in Chains
    BY <1>1, <1>3, NothingTaken DEF IInv, InPace
  <2>5. /\ Levels(chain') /\ (paced => chain' \in Chains)
        /\ draw' \in [height : 0..(MaxChain - 1), open : BOOLEAN]
    BY <1>1, <1>3, <2>1, <2>2, <2>3, <2>4, CommitFacts
  <2> QED BY <1>2, <2>1, <2>5, Ends
<1>4. CASE Candidates(base) = {}
  <2>1. chain' \in Synced(Drained) /\ pc' = "wait" /\ UNCHANGED <<base, entrants, draw>>
    BY <1>4 DEF WaitPoll
  <2>2. Levels(chain') /\ (paced => chain' \in Chains)
    BY <1>1, <2>1, SyncedFacts DEF IInv, InPace
  <2>3. paced => InPace'
    BY <1>2, <2>1, <2>2 DEF InPace
  <2> QED BY <1>1, <1>2, <2>1, <2>2, <2>3, GoesOn DEF TypeOK
<1> QED BY <1>3, <1>4

LEMMA WaitEndStep ==
  ASSUME IInv, WaitEnd
  PROVE  IInv'
<1>1. CASE chain # base
  BY <1>1, QuitStep DEF WaitEnd
<1>2. CASE chain = base
  <2>1. pc = "wait" /\ pc' = "build" /\ UNCHANGED <<base, entrants, chain, queue, draw, spread, paced>>
    BY <1>2 DEF WaitEnd
  <2>2. paced => InPace'
    BY <2>1 DEF IInv, InPace, Closed
  <2> QED BY <2>1, <2>2, GoesOn DEF IInv, InCycle, TypeOK
<1> QED BY <1>1, <1>2

LEMMA BuildDoneStep ==
  ASSUME IInv, BuildDone
  PROVE  IInv'
<1>1. /\ pc = "build" /\ pc' = "spacing" /\ chain = base
      /\ UNCHANGED <<base, entrants, chain, queue, draw, spread, paced>>
      /\ paced => Closed(base)
  BY DEF BuildDone, Closed
<1>2. paced => InPace'
  BY <1>1 DEF IInv, InPace, Closed
<1> QED BY <1>1, <1>2, GoesOn DEF IInv, InCycle, TypeOK

LEMMA SpacingPollStep ==
  ASSUME IInv, SpacingPoll
  PROVE  IInv'
<1>1. /\ TypeOK /\ Levels(base) /\ Len(base) < MaxChain /\ chain = base
      /\ pc = "spacing" /\ \A e \in entrants : Extends(e, base)
  BY DEF IInv, InCycle, SpacingPoll
<1>2. Levels(chain') /\ chain' = Drained
  BY <1>1, DrainFacts DEF SpacingPoll
<1>3. /\ entrants' \subseteq Block /\ \A e \in entrants' : Extends(e, base)
      /\ draw' \in [height : 0..(MaxChain - 1), open : BOOLEAN]
      /\ draw' = draw \/ draw'.height = Len(base)
  BY <1>1, ConsiderFacts DEF SpacingPoll
<1>4. /\ queue' \in Seq(Block) /\ Len(queue') <= MaxQueue /\ ToSet(queue') = {}
      /\ pc' = "spacing" /\ base' = base /\ UNCHANGED <<spread, paced>>
  BY <1>1, NoneQueued, CycleAssumption DEF SpacingPoll
<1>5. paced => InPace'
  <2> SUFFICES ASSUME paced PROVE InPace'
    OBVIOUS
  <2>1. Closed(base) /\ Closed(chain) /\ chain \in Chains
    BY <1>1 DEF IInv, InPace
  <2>2. chain' = base /\ chain' \in Chains
    BY <1>1, <1>2, <2>1, DrainFacts
  <2>3. Len(base) \in Nat
    BY <1>1, BlockAssumption DEF Levels
  <2>4. Closed(base)'
    BY <1>3, <1>4, <2>1, <2>3 DEF Closed
  <2> QED BY <1>4, <2>2, <2>4 DEF InPace
<1> QED BY <1>1, <1>2, <1>3, <1>4, <1>5, GoesOn

\* Our block goes out on the tip we hold.
LEMMA SpacingEndStep ==
  ASSUME IInv, SpacingEnd
  PROVE  IInv' /\ \A b \in spread' \ spread : Extends(b, chain)
<1>1. CASE chain # base
  BY <1>1, QuitStep DEF SpacingEnd
<1>2. CASE chain = base
  <2>1. /\ pc = "spacing" /\ pc' = "final" /\ spread' = spread \cup {OwnBlock(base)}
        /\ UNCHANGED <<base, entrants, chain, queue, draw, paced>>
    BY <1>2 DEF SpacingEnd
  <2>2. Levels(base) /\ Len(base) < MaxChain
    BY <2>1 DEF IInv, InCycle
  <2>3. OwnBlock(base) \in Block /\ Extends(OwnBlock(base), base)
    BY <2>2, OwnBlockFacts
  <2>4. TypeOK' /\ InCycle' /\ Levels(chain')
    BY <1>2, <2>1, <2>2, <2>3 DEF IInv, TypeOK, InCycle
  <2>5. paced => InPace'
    BY <1>2, <2>1 DEF IInv, InPace, Closed
  <2> QED BY <1>2, <2>1, <2>3, <2>4, <2>5 DEF IInv
<1> QED BY <1>1, <1>2

LEMMA FinalStep ==
  ASSUME IInv, Final
  PROVE  IInv'
<1>1. /\ TypeOK /\ Levels(base) /\ Len(base) < MaxChain /\ chain = base
      /\ pc = "final" /\ \A e \in entrants : Extends(e, base)
  BY DEF IInv, InCycle, Final
<1>2. /\ queue' \in Seq(Block) /\ Len(queue') <= MaxQueue /\ ToSet(queue') = {}
      /\ EndCycle /\ UNCHANGED <<spread, paced>>
  BY NoneQueued, CycleAssumption DEF Final
<1>3. PICK blocks : blocks = {OwnBlock(base)} \cup entrants \cup Candidates(base)
  OBVIOUS
<1>4. Commit(Drained, blocks)
  BY <1>3 DEF Final
<1>5. blocks # {} /\ \A b \in blocks : Extends(b, base)
  BY <1>1, <1>3, OwnBlockFacts, CandidateFacts
<1>6. Levels(Drained) /\ Len(Drained) = Len(base)
  BY <1>1, DrainFacts
<1>7. paced => Drained = base /\ base \in Chains
  <2>1. paced => Closed(chain) /\ chain \in Chains
    BY <1>1 DEF IInv, InPace
  <2> QED BY <1>1, <2>1, DrainFacts
<1>8. /\ Levels(chain') /\ (paced => chain' \in Chains)
      /\ draw' \in [height : 0..(MaxChain - 1), open : BOOLEAN]
  BY <1>1, <1>4, <1>5, <1>6, <1>7, CommitFacts
<1> QED BY <1>2, <1>8, Ends

LEMMA DeliverStep ==
  ASSUME IInv, NEW b \in Block \ {Genesis}, Deliver(b)
  PROVE  IInv'
<1>1. /\ Len(queue) < MaxQueue /\ queue' = Append(queue, b)
      /\ paced => Height[b] <= Len(chain) /\ ~ (draw.open /\ draw.height = Height[b] - 1)
      /\ UNCHANGED <<pc, chain, base, entrants, draw, spread, paced>>
  BY DEF Deliver
<1>2. TypeOK'
  BY <1>1, CycleAssumption DEF IInv, TypeOK
<1>3. ToSet(queue') = ToSet(queue) \cup {b}
  <2>1. queue \in Seq(Block) /\ Len(queue') = Len(queue) + 1 /\ Len(queue) \in Nat
    BY <1>1 DEF IInv, TypeOK
  <2>2. /\ \A i \in 1..Len(queue) : queue'[i] = queue[i]
        /\ queue'[Len(queue) + 1] = b
    BY <1>1, <2>1, AppendProperties
  <2>3. DOMAIN queue' = 1..(Len(queue) + 1) /\ DOMAIN queue = 1..Len(queue)
    BY <1>1, <2>1
  <2>4. \A i \in 1..(Len(queue) + 1) : i \in 1..Len(queue) \/ i = Len(queue) + 1
    BY <2>1
  <2> QED BY <2>1, <2>2, <2>3, <2>4 DEF ToSet
<1>4. paced => InPace'
  <2> SUFFICES ASSUME paced PROVE InPace'
    OBVIOUS
  <2>1. InPace /\ Closed(base)' = Closed(base)
    BY <1>1 DEF IInv, Closed
  <2>2. Height[b] <= Len(chain) /\ (Height[b] = Len(chain) => Closed(chain)')
    BY <1>1 DEF Closed
  <2>3. \A a \in ToSet(queue) : Height[a] <= Len(chain) /\ (Height[a] = Len(chain) => Closed(chain)')
    BY <1>1, <2>1 DEF InPace, Closed
  <2> QED BY <1>1, <1>3, <2>1, <2>2, <2>3 DEF InPace
<1> QED BY <1>1, <1>2, <1>4 DEF IInv, InCycle

LEMMA CloseDrawStep ==
  ASSUME IInv, CloseDraw
  PROVE  IInv'
<1>1. /\ draw' = [height |-> draw.height, open |-> FALSE]
      /\ UNCHANGED <<pc, chain, base, entrants, queue, spread, paced>>
  BY DEF CloseDraw, IInv, TypeOK
<1>2. TypeOK' /\ InCycle' /\ Levels(chain')
  BY <1>1 DEF IInv, TypeOK, InCycle
<1>3. paced => InPace'
  BY <1>1 DEF IInv, InPace, Closed
<1> QED BY <1>1, <1>2, <1>3 DEF IInv

LEMMA StillStep ==
  ASSUME IInv, UNCHANGED vars
  PROVE  IInv'
<1>1. TypeOK' /\ InCycle' /\ Levels(chain')
  BY DEF IInv, TypeOK, InCycle, vars
<1>2. paced => InPace'
  BY DEF IInv, InPace, Closed, vars
<1> QED BY <1>1, <1>2 DEF IInv, vars

LEMMA IInvStep == IInv /\ [Next]_vars => IInv'
BY StartStep, PollStep, PausedEndStep, WaitPollStep, WaitEndStep, AbandonedStep,
   BuildDoneStep, SpacingPollStep, SpacingEndStep, FinalStep, DeliverStep,
   CloseDrawStep, StillStep DEF Next

-----------------------------------------------------------------------------
(* What follows *)

\* Whatever arrives in the middle of a cycle, every variable keeps its type.
THEOREM TypeCorrect == Spec => []TypeOK
<1>1. IInv => TypeOK
  BY DEF IInv
<1> QED BY IInvInit, IInvStep, <1>1, PTL DEF Spec

\* Where a draw is over before its height has a child, no commit splices a
\* block onto a sibling of its parent, though _commit does not look.
THEOREM LinkedIfPacedAlways == Spec => []LinkedIfPaced
<1>1. IInv => LinkedIfPaced
  BY ChainFacts DEF IInv, InPace, LinkedIfPaced, Linked
<1> QED BY IInvInit, IInvStep, <1>1, PTL DEF Spec

\* In every network: what was adopted during the evaluation and the spacing is
\* noticed before our block goes out, which is a child of the tip held then.
THEOREM PublishedOnTipAlways == Spec => PublishedOnTip
<1>1. IInv /\ [Next]_vars => [\A b \in spread' \ spread : Extends(b, chain)]_vars
  <2> SUFFICES ASSUME IInv, Next, spread' # spread
               PROVE  \A b \in spread' \ spread : Extends(b, chain)
    OBVIOUS
  <2>1. SpacingEnd
    BY DEF Next, StartCycle, Poll, PausedEnd, WaitPoll, WaitEnd, Abandoned, BuildDone,
           SpacingPoll, Final, Deliver, CloseDraw
  <2> QED BY <2>1, SpacingEndStep
<1> QED BY IInvInit, IInvStep, <1>1, PTL DEF Spec, PublishedOnTip
=============================================================================
