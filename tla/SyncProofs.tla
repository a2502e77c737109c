---------------------------- MODULE SyncProofs ----------------------------
(***************************************************************************)
(* Proofs about Sync: whatever a node copies, in however many passes and   *)
(* from however many peers, it holds a chain in good order and gives it up *)
(* for a better one only; and what a pass leaves behind is what the next   *)
(* one takes it for.                                                       *)
(***************************************************************************)
EXTENDS Sync, ForkChoiceProofs

-----------------------------------------------------------------------------
(* The inductive invariant *)

Probing   == [at : {"probe"}, peer : Peer, hinted : BOOLEAN, height : Int,
              late : BOOLEAN, calm : BOOLEAN]
Searching == [at : {"search"}, peer : Peer, hinted : BOOLEAN, height : Int,
              late : BOOLEAN, calm : BOOLEAN,
              lo : Nat, hi : Int, best : Int, wide : BOOLEAN]
Fetching  == [at : {"fetch"}, peer : Peer, hinted : BOOLEAN, height : Int,
              pages : Nat, late : BOOLEAN, applied : BOOLEAN, calm : BOOLEAN,
              fork : Nat, tail : Seq(Block), h : Nat]
Rest      == [fork : Nat, anchor : Block, tail : Seq(Block), h : Nat]

PassTypeOK ==
  /\ pass \in {Idle} \cup Probing \cup Searching \cup Fetching
  /\ saved \in [Peer -> Rest \cup {None}]
  /\ refused \in BOOLEAN

\* A bisection stays within the chain held, and one that goes back to the
\* genesis block, which everybody has, has it still before it if it has found
\* nothing: so a fork point is never below that block.
Searched ==
  pass \in Searching =>
    /\ pass.hi <= TopOf(Mine) /\ -1 <= pass.best /\ pass.best <= TopOf(Mine)
    /\ pass.wide /\ pass.best < 0 => pass.lo = 0 /\ pass.hi >= 0

\* The blocks of t follow one another, the first on a, and lead from a fork to h.
Linked(a, t) == \A i \in 1..Len(t) : Parent[t[i]] = IF i = 1 THEN a ELSE t[i - 1]
Leads(fork, a, t, h) == h = fork + Len(t) /\ Linked(a, t)

\* A pass reads on from a block of the chain held.
Landing ==
  pass \in Fetching =>
    /\ 1 <= pass.fork /\ pass.fork <= Len(Mine)
    /\ ~ refused => Leads(pass.fork, Mine[pass.fork], pass.tail, pass.h)

Left ==
  \A p \in Peer : Kept(p) /\ ~ refused =>
    Leads(saved[p].fork, saved[p].anchor, saved[p].tail, saved[p].h)

PassInv == PassTypeOK /\ Searched /\ Landing /\ Left
IInv    == TypeOK /\ PassInv

\* What no step does to a chain.
OnlyBetter ==
  \A n \in Node : chain'[n] # chain[n] => IsBetter(chain'[n], chain[n])

-----------------------------------------------------------------------------
(* Chains *)

\* A sequence of blocks in good order is within the bound, as heights are.
LEMMA InGoodOrder ==
  ASSUME NEW c \in Seq(Block), IsChain(c)
  PROVE  c \in Chains
<1>1. Len(c) \in Nat /\ Len(c) > 0
  BY DEF IsChain
<1>2. Len(c) \in 1..Len(c) /\ c[Len(c)] \in Block
  BY <1>1
<1>3. Height[c[Len(c)]] = Len(c) - 1
  BY <1>2 DEF IsChain
<1>4. Height[c[Len(c)]] \in 0..(MaxChain - 1)
  BY <1>2, BlockAssumption
<1>5. Len(c) <= MaxChain
  BY <1>1, <1>3, <1>4, BlockAssumption
<1> QED BY <1>5, IsInChains

\* A chain with a block more is a chain, and better.
LEMMA AppendIsBetter ==
  ASSUME NEW c \in Chains, NEW b, Extends(b, c)
  PROVE  Append(c, b) \in Chains /\ IsBetter(Append(c, b), c)
<1>1. /\ c \in Seq(Block) /\ Len(c) \in 1..MaxChain /\ b \in Block
      /\ Height[Tip(c)] = Len(c) - 1
  BY ChainFacts DEF Extends
<1>2. Height[b] = Len(c) /\ Height[b] \in 0..(MaxChain - 1)
  BY <1>1, BlockAssumption DEF Extends
<1>3. Len(c) < MaxChain
  BY <1>1, <1>2, BlockAssumption
<1>4. Append(c, b) \in Chains
  BY <1>1, <1>3, AppendIsChain
<1>5. Len(c) < Len(Append(c, b)) /\ \A i \in 1..Len(c) : c[i] = Append(c, b)[i]
  BY <1>1, AppendProperties
<1>6. Work(ProvenBlocks(c)) < Work(ProvenBlocks(Append(c, b)))
  <2> PICK d : d = Append(c, b)
    OBVIOUS
  <2> QED BY <1>4, <1>5, WorkGrows
<1>7. Work(ProvenBlocks(c)) \in Nat /\ Work(ProvenBlocks(Append(c, b))) \in Nat
  <2>1. Append(c, b) \in Seq(Block)
    BY <1>4, ChainFacts
  <2> QED BY <1>1, <2>1, WorkType
<1> QED BY <1>4, <1>6, <1>7 DEF IsBetter, BetterBy

\* What the other nodes do to one another's chains.
LEMMA NetworkStep ==
  ASSUME TypeOK, NEW n \in Node,
         (\E b \in Block : Build(n, b)) \/ (\E m \in Node : Fetch(n, m)) \/ Adopt(n)
  PROVE  TypeOK' /\ OnlyBetter /\ \A m \in Node \ {n} : chain'[m] = chain[m]
<1>1. ASSUME NEW b \in Block, Build(n, b)
      PROVE  TypeOK' /\ OnlyBetter /\ \A m \in Node \ {n} : chain'[m] = chain[m]
  <2>1. chain[n] \in Chains /\ Extends(b, chain[n])
    BY <1>1 DEF TypeOK, Build
  <2>2. PICK d : d = Append(chain[n], b)
    OBVIOUS
  <2>3. d \in Chains /\ IsBetter(d, chain[n])
    BY <2>1, <2>2, AppendIsBetter
  <2>4. chain' = [chain EXCEPT ![n] = d] /\ fetched' = fetched
    BY <1>1, <2>2 DEF Build
  <2> QED BY <2>3, <2>4 DEF TypeOK, OnlyBetter
<1>2. ASSUME NEW m \in Node, Fetch(n, m)
      PROVE  TypeOK' /\ OnlyBetter /\ \A k \in Node \ {n} : chain'[k] = chain[k]
  <2>1. chain' = chain /\ fetched' = [fetched EXCEPT ![n] = chain[m]]
    BY <1>2 DEF Fetch
  <2> QED BY <2>1 DEF TypeOK, OnlyBetter
<1>3. ASSUME Adopt(n)
      PROVE  TypeOK' /\ OnlyBetter /\ \A m \in Node \ {n} : chain'[m] = chain[m]
  <2>1. fetched[n] \in Chains
    BY <1>3 DEF TypeOK, Adopt
  <2>2. fetched' = [fetched EXCEPT ![n] = NoChain]
    BY <1>3 DEF Adopt
  <2>3. CASE chain' = chain
    BY <2>2, <2>3 DEF TypeOK, OnlyBetter
  <2>4. CASE chain' = [chain EXCEPT ![n] = fetched[n]] /\ IsBetter(fetched[n], chain[n])
    BY <2>1, <2>2, <2>4 DEF TypeOK, OnlyBetter
  <2> QED BY <1>3, <2>3, <2>4 DEF Adopt
<1> QED BY <1>1, <1>2, <1>3

\* The node exchanges its own chain.
LEMMA SwapStep ==
  ASSUME TypeOK, NEW c \in Chains, IsBetter(c, Mine), Swap(c), fetched' = fetched
  PROVE  /\ TypeOK' /\ OnlyBetter
         /\ Mine' = c /\ \A m \in Node \ {Me} : chain'[m] = chain[m]
<1>1. Me \in Node /\ chain' = [chain EXCEPT ![Me] = c]
  BY SyncAssumption DEF Swap
<1> QED BY <1>1 DEF TypeOK, OnlyBetter, Mine

\* The chain held.
LEMMA MineFacts ==
  ASSUME TypeOK
  PROVE  /\ Me \in Node /\ Mine \in Chains /\ Mine \in Seq(Block) /\ IsChain(Mine)
         /\ Len(Mine) \in Nat /\ Len(Mine) > 0 /\ TopOf(Mine) \in Nat /\ TopOf(Mine) = Len(Mine) - 1
<1>1. Me \in Node /\ Mine \in Chains
  BY SyncAssumption DEF TypeOK, Mine
<1> QED BY <1>1, ChainFacts DEF TopOf

LEMMA PeerFacts ==
  ASSUME TypeOK, NEW p \in Peer
  PROVE  /\ p \in Node \ {Me} /\ chain[p] \in Chains /\ chain[p] \in Seq(Block)
         /\ IsChain(chain[p]) /\ Len(chain[p]) \in Nat /\ Len(chain[p]) > 0
         /\ TopOf(chain[p]) \in Nat
<1>1. p \in Node \ {Me} /\ chain[p] \in Chains
  BY DEF TypeOK, Peer
<1> QED BY <1>1, ChainFacts DEF TopOf

\* When no pass is under way only what is left of earlier ones counts.
LEMMA IdleKeeps ==
  ASSUME pass' = Idle, saved' \in [Peer -> Rest \cup {None}], refused' \in BOOLEAN,
         \A p \in Peer : saved'[p] # None /\ ~ refused' =>
           Leads(saved'[p].fork, saved'[p].anchor, saved'[p].tail, saved'[p].h)
  PROVE  PassInv'
<1>1. pass' \notin Searching' /\ pass' \notin Fetching'
  BY DEF Idle, Searching, Fetching
<1> QED BY <1>1 DEF PassInv, PassTypeOK, Searched, Landing, Left, Kept

\* It stays as it was when a pass begins, ends or goes on without what is left.
LEMMA LeftKeeps ==
  ASSUME PassInv, saved' = saved, refused' = refused
  PROVE  /\ saved' \in [Peer -> Rest \cup {None}] /\ refused' \in BOOLEAN
         /\ \A p \in Peer : saved'[p] # None /\ ~ refused' =>
              Leads(saved'[p].fork, saved'[p].anchor, saved'[p].tail, saved'[p].h)
BY DEF PassInv, PassTypeOK, Left, Kept

-----------------------------------------------------------------------------
(* What goes on beside a pass *)

LEMMA HearStep ==
  ASSUME IInv, NEW p \in Peer, Hear(p)
  PROVE  IInv' /\ OnlyBetter
<1>1. TypeOK /\ fetched' = fetched
  BY DEF IInv, Hear
<1>2. PassInv'
  <2>1. pass' = Idle /\ saved' = saved /\ refused' = refused
    BY DEF Hear
  <2> QED BY <2>1, LeftKeeps, IdleKeeps DEF IInv
<1>3. PICK top : top = Tip(chain[p])
  OBVIOUS
<1>4. ASSUME Extends(top, Mine), Swap(Append(Mine, top))
      PROVE  TypeOK' /\ OnlyBetter
  <2>1. Append(Mine, top) \in Chains /\ IsBetter(Append(Mine, top), Mine)
    BY <1>1, <1>4, MineFacts, AppendIsBetter
  <2> QED BY <1>1, <1>4, <2>1, SwapStep
<1>5. ASSUME Len(Mine) > 1, Extends(top, Front(Mine)), NEW rival, rival = Append(Front(Mine), top),
             IsBetter(rival, Mine), Swap(rival)
      PROVE  TypeOK' /\ OnlyBetter
  <2>1. Front(Mine) \in Chains
    <3>1. Len(Mine) - 1 \in 1..Len(Mine) /\ Mine \in Chains
      BY <1>1, <1>5, MineFacts
    <3> QED BY <3>1, PrefixIsChain DEF Front
  <2>2. rival \in Chains
    BY <1>5, <2>1, AppendIsBetter
  <2> QED BY <1>1, <1>5, <2>2, SwapStep
<1>6. ASSUME chain' = chain
      PROVE  TypeOK' /\ OnlyBetter
  BY <1>1, <1>6 DEF TypeOK, OnlyBetter
<1>7. TypeOK' /\ OnlyBetter
  <2>1. \/ Extends(top, Mine) /\ Swap(Append(Mine, top))
        \/ /\ Len(Mine) > 1 /\ Extends(top, Front(Mine))
           /\ IsBetter(Append(Front(Mine), top), Mine) /\ Swap(Append(Front(Mine), top))
        \/ chain' = chain
    BY <1>3 DEF Hear
  <2> QED BY <1>4, <1>5, <1>6, <2>1
<1> QED BY <1>2, <1>7 DEF IInv

LEMMA WinStep ==
  ASSUME IInv, NEW b \in Block, Win(b)
  PROVE  IInv' /\ OnlyBetter
<1>1. PassInv'
  <2>1. pass' = Idle /\ saved' = saved /\ refused' = refused
    BY DEF Win, others
  <2> QED BY <2>1, LeftKeeps, IdleKeeps DEF IInv
<1>2. Me \in Node /\ Build(Me, b)
  BY SyncAssumption DEF Win
<1> QED BY <1>1, <1>2, NetworkStep DEF IInv

\* A pass goes on as it was when only its lateness and its history change.
LEMMA BusyKeeps ==
  ASSUME PassInv, pass # Idle, Mine' = Mine, saved' = saved, refused' = refused,
         NEW late \in BOOLEAN, pass' = [[pass EXCEPT !.late = late] EXCEPT !.calm = FALSE]
  PROVE  PassInv'
<1>1. CASE pass \in Probing
  <2>1. pass' \in Probing' /\ pass'.at = "probe"
    BY <1>1 DEF Probing
  <2>2. pass' \notin Searching' /\ pass' \notin Fetching'
    BY <2>1 DEF Searching, Fetching
  <2> QED BY <2>1, <2>2, LeftKeeps DEF PassInv, PassTypeOK, Searched, Landing, Left, Kept
<1>2. CASE pass \in Searching
  <2>1. /\ pass' \in Searching' /\ pass'.at = "search" /\ pass'.hi = pass.hi
        /\ pass'.best = pass.best /\ pass'.wide = pass.wide /\ pass'.lo = pass.lo
    BY <1>2 DEF Searching
  <2>2. Searched'
    BY <1>2, <2>1 DEF PassInv, Searched, TopOf
  <2>3. pass' \notin Fetching'
    BY <2>1 DEF Fetching
  <2> QED BY <2>1, <2>2, <2>3, LeftKeeps DEF PassInv, PassTypeOK, Landing, Left, Kept
<1>3. CASE pass \in Fetching
  <2>1. /\ pass' \in Fetching' /\ pass'.at = "fetch" /\ pass'.fork = pass.fork
        /\ pass'.tail = pass.tail /\ pass'.h = pass.h
    BY <1>3 DEF Fetching
  <2>2. Landing'
    BY <1>3, <2>1 DEF PassInv, Landing
  <2>3. pass' \notin Searching'
    BY <2>1 DEF Searching
  <2> QED BY <2>1, <2>2, <2>3, LeftKeeps DEF PassInv, PassTypeOK, Searched, Left, Kept
<1> QED BY <1>1, <1>2, <1>3 DEF PassInv, PassTypeOK

\* And as it was when it stays the same.
LEMMA SameKeeps ==
  ASSUME PassInv, Mine' = Mine, saved' = saved, refused' = refused, pass' = pass
  PROVE  PassInv'
BY DEF PassInv, PassTypeOK, Searched, Landing, Left, Kept, TopOf, Probing, Searching, Fetching

LEMMA ElsewhereStep ==
  ASSUME IInv, NEW p \in Peer, Elsewhere(p)
  PROVE  IInv' /\ OnlyBetter
<1>1. p \in Node /\ p # Me /\ Me \in Node
  BY SyncAssumption DEF Peer
<1>2. TypeOK' /\ OnlyBetter /\ Mine' = Mine
  <2>1. TypeOK' /\ OnlyBetter /\ \A m \in Node \ {p} : chain'[m] = chain[m]
    BY <1>1, NetworkStep DEF IInv, Elsewhere
  <2> QED BY <1>1, <2>1 DEF Mine
<1>3. saved' = saved /\ refused' = refused
  BY DEF Elsewhere, Beside, others
<1>4. CASE pass' = pass
  BY <1>2, <1>3, <1>4, SameKeeps DEF IInv
<1>5. CASE pass # Idle /\ pass' = [pass EXCEPT !.calm = FALSE]
  <2>1. pass.late \in BOOLEAN /\ pass = [pass EXCEPT !.late = pass.late]
    BY <1>5 DEF IInv, PassInv, PassTypeOK, Probing, Searching, Fetching
  <2>2. pass' = [[pass EXCEPT !.late = pass.late] EXCEPT !.calm = FALSE]
    BY <1>5, <2>1
  <2> QED BY <1>2, <1>3, <1>5, <2>1, <2>2, BusyKeeps DEF IInv
<1> QED BY <1>4, <1>5 DEF Elsewhere, Beside

-----------------------------------------------------------------------------
(* A pass begins and ends *)

LEMMA StillStep ==
  ASSUME TypeOK, vars' = vars
  PROVE  TypeOK' /\ OnlyBetter /\ Mine' = Mine
BY DEF TypeOK, OnlyBetter, Mine, vars

LEMMA AskStep ==
  ASSUME IInv, NEW p \in Peer, Ask(p)
  PROVE  IInv' /\ OnlyBetter
<1>1. TypeOK' /\ OnlyBetter /\ Mine' = Mine
  BY StillStep DEF IInv, Ask
<1>2. saved' = saved /\ refused' = refused
  BY DEF Ask
<1>3. ASSUME pass' = Idle PROVE PassInv'
  BY <1>2, <1>3, LeftKeeps, IdleKeeps DEF IInv
<1>4. ASSUME NEW hinted \in BOOLEAN, NEW calm \in BOOLEAN,
             pass' = [at |-> "probe", peer |-> p, hinted |-> hinted,
                      height |-> TopOf(chain[p]), late |-> FALSE, calm |-> calm]
      PROVE  PassInv'
  <2>1. TopOf(chain[p]) \in Int
    BY PeerFacts DEF IInv
  <2>2. pass' \in Probing' /\ pass'.at = "probe"
    BY <1>4, <2>1 DEF Probing
  <2>3. pass' \notin Searching' /\ pass' \notin Fetching'
    BY <2>2 DEF Searching, Fetching
  <2> QED BY <1>2, <2>2, <2>3, LeftKeeps DEF IInv, PassInv, PassTypeOK, Searched, Landing, Left, Kept
<1>5. PassInv'
  <2>1. CASE pass' = Idle
    BY <1>3, <2>1
  <2>2. CASE pass' # Idle
    <3>1. PICK hinted : hinted = (hint.peer = p)
      OBVIOUS
    <3>2. PICK calm : calm = (\/ saved[p] = None
                              \/ (/\ saved[p].fork < Len(chain[p])
                                  /\ IsPrefix(saved[p].tail,
                                       SubSeq(chain[p], saved[p].fork + 1, Len(chain[p])))))
      OBVIOUS
    <3>3. hinted \in BOOLEAN /\ calm \in BOOLEAN
      BY <3>1, <3>2
    <3>4. pass' = [at |-> "probe", peer |-> p, hinted |-> hinted,
                   height |-> TopOf(chain[p]), late |-> FALSE, calm |-> calm]
      BY <2>2, <3>1, <3>2, Zenon DEF Ask, Return
    <3> QED BY <1>4, <3>3, <3>4
  <2> QED BY <2>1, <2>2
<1> QED BY <1>1, <1>5 DEF IInv

LEMMA DropKeeps ==
  ASSUME PassInv, Drop, refused' = refused
  PROVE  /\ saved' \in [Peer -> Rest \cup {None}] /\ refused' \in BOOLEAN
         /\ \A p \in Peer : saved'[p] # None /\ ~ refused' =>
              Leads(saved'[p].fork, saved'[p].anchor, saved'[p].tail, saved'[p].h)
<1>1. saved' \in [Peer -> Rest \cup {None}] /\ refused' \in BOOLEAN
  BY DEF Drop, PassInv, PassTypeOK
<1>2. ASSUME NEW p \in Peer, saved'[p] # None
      PROVE  saved'[p] = saved[p] /\ saved[p] # None
  BY <1>2 DEF Drop, PassInv, PassTypeOK
<1> QED BY <1>1, <1>2 DEF PassInv, Left, Kept

\* A pass ends with what is left of earlier ones as it was, or without its own.
LEMMA EndStep ==
  ASSUME IInv, vars' = vars, refused' = refused, pass' = Idle, saved' = saved \/ Drop
  PROVE  IInv' /\ OnlyBetter
<1>1. TypeOK' /\ OnlyBetter
  BY StillStep DEF IInv
<1>2. CASE saved' = saved
  BY <1>1, <1>2, LeftKeeps, IdleKeeps DEF IInv
<1>3. CASE Drop
  BY <1>1, <1>3, DropKeeps, IdleKeeps DEF IInv
<1> QED BY <1>2, <1>3

LEMMA QuietStep ==
  ASSUME IInv,
         \/ \E p \in Peer : AskInVain(p)
         \/ pass # Idle /\ (Unfound \/ Finish \/ Silence)
         \/ \E page \in Pages : Reject(page)
         \/ UNCHANGED syncVars
  PROVE  IInv' /\ OnlyBetter
<1>1. ASSUME NEW p \in Peer, AskInVain(p)
      PROVE  IInv' /\ OnlyBetter
  BY <1>1, EndStep DEF AskInVain, Chosen
<1>2. ASSUME Unfound \/ Finish \/ Silence
      PROVE  IInv' /\ OnlyBetter
  <2>1. vars' = vars /\ refused' = refused /\ pass' = Idle /\ (saved' = saved \/ Drop)
    BY <1>2 DEF Unfound, Finish, Silence, End, Return
  <2> QED BY <2>1, EndStep
<1>3. ASSUME NEW page \in Pages, Reject(page)
      PROVE  IInv' /\ OnlyBetter
  <2>1. vars' = vars /\ refused' = refused /\ pass' = Idle /\ Drop
    BY <1>3 DEF Reject, End, Return
  <2> QED BY <2>1, EndStep
<1>4. ASSUME UNCHANGED syncVars
      PROVE  IInv' /\ OnlyBetter
  <2>1. TypeOK' /\ OnlyBetter /\ Mine' = Mine
    BY <1>4, StillStep DEF IInv, syncVars
  <2>2. pass' = pass /\ saved' = saved /\ refused' = refused
    BY <1>4 DEF syncVars, others
  <2> QED BY <2>1, <2>2, SameKeeps DEF IInv
<1> QED BY <1>1, <1>2, <1>3, <1>4

-----------------------------------------------------------------------------
(* The search for the fork *)

LEMMA SearchBegins ==
  ASSUME IInv, vars' = vars, saved' = saved, refused' = refused,
         pass \in Probing \/ pass \in Searching, NEW lo \in Nat, Search(lo)
  PROVE  IInv' /\ OnlyBetter
<1>1. TypeOK' /\ OnlyBetter /\ Mine' = Mine
  BY StillStep DEF IInv
<1>2. TopOf(Mine) \in Nat
  BY MineFacts DEF IInv
<1>3. /\ pass.peer \in Peer /\ pass.hinted \in BOOLEAN /\ pass.height \in Int
      /\ pass.late \in BOOLEAN /\ pass.calm \in BOOLEAN
  BY DEF Probing, Searching
<1>4. PICK wide : wide = (lo = 0)
  OBVIOUS
<1>5. pass' = [at |-> "search", peer |-> pass.peer, hinted |-> pass.hinted,
               height |-> pass.height, late |-> pass.late, calm |-> pass.calm,
               lo |-> lo, hi |-> TopOf(Mine), best |-> -1, wide |-> wide]
  BY <1>4, Zenon DEF Search
<1>6. pass' \in Searching' /\ pass'.at = "search"
  BY <1>2, <1>3, <1>4, <1>5 DEF Searching
<1>7. pass' \notin Fetching'
  BY <1>6 DEF Fetching
<1>8. pass'.hi = TopOf(Mine) /\ pass'.best = -1 /\ pass'.lo = lo /\ pass'.wide = (lo = 0)
  BY <1>4, <1>5
<1>9. Searched'
  <2>1. TopOf(Mine)' = TopOf(Mine)
    BY <1>1 DEF TopOf
  <2>2. pass'.wide => pass'.lo = 0
    BY <1>8
  <2>3. pass'.hi <= TopOf(Mine)' /\ -1 <= pass'.best /\ pass'.best <= TopOf(Mine)' /\ pass'.hi >= 0
    BY <1>2, <1>8, <2>1
  <2> QED BY <2>2, <2>3 DEF Searched
<1> QED BY <1>1, <1>6, <1>7, <1>9, LeftKeeps DEF IInv, PassInv, PassTypeOK, Landing, Left, Kept

\* Reading goes on from the fork, with the tail of an earlier pass if that one
\* was pinned to the same block.
LEMMA ReadingBegins ==
  ASSUME IInv, vars' = vars, saved' = saved, refused' = refused,
         pass \in Probing \/ pass \in Searching,
         NEW fork \in Nat, 1 <= fork, fork <= Len(Mine), FetchFrom(fork)
  PROVE  IInv' /\ OnlyBetter
<1>1. TypeOK' /\ OnlyBetter /\ Mine' = Mine
  BY StillStep DEF IInv
<1>2. /\ pass.peer \in Peer /\ pass.hinted \in BOOLEAN /\ pass.height \in Int
      /\ pass.late \in BOOLEAN /\ pass.calm \in BOOLEAN
  BY DEF Probing, Searching
<1>3. Anchor(fork) = Mine[fork]
  BY DEF Anchor
<1>4. PICK old : old = saved[pass.peer]
  OBVIOUS
<1>5. PICK tail, h : /\ tail = IF old # None /\ old.fork = fork /\ old.anchor = Anchor(fork)
                               THEN old.tail ELSE << >>
                     /\ h = IF old # None /\ old.fork = fork /\ old.anchor = Anchor(fork)
                            THEN old.h ELSE fork
  OBVIOUS
<1>6. tail \in Seq(Block) /\ h \in Nat /\ (~ refused => Leads(fork, Mine[fork], tail, h))
  <2>1. CASE old # None /\ old.fork = fork /\ old.anchor = Anchor(fork)
    <3>1. old \in Rest
      BY <1>2, <1>4, <2>1 DEF IInv, PassInv, PassTypeOK
    <3>2. ~ refused => Leads(old.fork, old.anchor, old.tail, old.h)
      BY <1>2, <1>4, <2>1 DEF IInv, PassInv, Left, Kept
    <3>3. tail = old.tail /\ h = old.h
      BY <1>5, <2>1
    <3> QED BY <1>3, <2>1, <3>1, <3>2, <3>3 DEF Rest
  <2>2. CASE ~ (old # None /\ old.fork = fork /\ old.anchor = Anchor(fork))
    <3>1. tail = << >> /\ h = fork
      BY <1>5, <2>2
    <3> QED BY <3>1 DEF Leads, Linked
  <2> QED BY <2>1, <2>2
<1>7. pass' = [at |-> "fetch", peer |-> pass.peer, hinted |-> pass.hinted,
               height |-> pass.height, pages |-> 0, late |-> pass.late,
               applied |-> FALSE, calm |-> pass.calm,
               fork |-> fork, tail |-> tail, h |-> h]
  BY <1>4, <1>5, Zenon DEF FetchFrom
<1>8. pass' \in Fetching' /\ pass'.at = "fetch"
  BY <1>2, <1>6, <1>7 DEF Fetching
<1>9. pass' \notin Searching'
  BY <1>8 DEF Searching
<1>10. pass'.fork = fork /\ pass'.tail = tail /\ pass'.h = h
  BY <1>7
<1>11. Landing'
  BY <1>1, <1>6, <1>10 DEF Landing
<1> QED BY <1>1, <1>8, <1>9, <1>11, LeftKeeps DEF IInv, PassInv, PassTypeOK, Searched, Left, Kept

\* At which stage a pass is shows what is known of it.
LEMMA StageOf ==
  ASSUME PassTypeOK
  PROVE  /\ pass.at = "probe" => pass \in Probing
         /\ pass.at = "search" => pass \in Searching
         /\ pass.at = "fetch" => pass \in Fetching
         /\ pass \in Probing => pass.at = "probe"
         /\ pass \in Searching => pass.at = "search"
         /\ pass \in Fetching => pass.at = "fetch"
BY DEF PassTypeOK, Idle, Probing, Searching, Fetching

LEMMA ProbeStep ==
  ASSUME IInv, Probe
  PROVE  IInv' /\ OnlyBetter
<1>1. /\ vars' = vars /\ saved' = saved /\ refused' = refused
      /\ pass \in Probing
  BY StageOf DEF Probe, others, IInv, PassInv
<1>2. Len(Mine) \in Nat /\ Len(Mine) >= 1 /\ TopOf(Mine) \in Nat /\ Window \in Nat
  BY MineFacts, SyncAssumption DEF IInv
<1>3. CASE FetchFrom(Len(Mine))
  BY <1>1, <1>2, <1>3, ReadingBegins
<1>4. ASSUME NEW lo, lo = IF TopOf(Mine) > Window THEN TopOf(Mine) - Window ELSE 0, Search(lo)
      PROVE  IInv' /\ OnlyBetter
  <2>1. lo \in Nat
    BY <1>2, <1>4
  <2> QED BY <1>1, <1>4, <2>1, SearchBegins
<1> QED BY <1>3, <1>4 DEF Probe

\* Everybody has the genesis block.
LEMMA GenesisIsCommon ==
  ASSUME TypeOK, pass.peer \in Peer
  PROVE  Common(0)
<1>1. Len(chain[pass.peer]) > 0 /\ IsChain(chain[pass.peer]) /\ IsChain(Mine)
  BY PeerFacts, MineFacts
<1> QED BY <1>1 DEF Common, IsChain

LEMMA HalveStep ==
  ASSUME IInv, Halve
  PROVE  IInv' /\ OnlyBetter
<1>1. /\ vars' = vars /\ saved' = saved /\ refused' = refused /\ pass \in Searching
      /\ pass.lo <= pass.hi
  BY StageOf DEF Halve, others, IInv, PassInv
<1>2. TypeOK' /\ OnlyBetter /\ Mine' = Mine
  BY <1>1, StillStep DEF IInv
<1>3. /\ pass.hi <= TopOf(Mine) /\ -1 <= pass.best /\ pass.best <= TopOf(Mine)
      /\ pass.wide /\ pass.best < 0 => pass.lo = 0 /\ pass.hi >= 0
      /\ pass.lo \in Nat /\ pass.hi \in Int /\ pass.best \in Int /\ TopOf(Mine) \in Nat
  BY <1>1, MineFacts DEF IInv, PassInv, Searched, Searching
<1>4. PICK mid : mid = (pass.lo + pass.hi) \div 2
  OBVIOUS
<1>5. mid \in Nat /\ pass.lo <= mid /\ mid <= pass.hi
  BY <1>1, <1>3, <1>4
<1>6. CASE pass' = [pass EXCEPT !.best = mid, !.lo = mid + 1]
  <2>1. pass' \in Searching' /\ pass'.at = "search"
    <3>1. PICK q : q = [pass EXCEPT !.best = mid]
      OBVIOUS
    <3>2. q \in Searching
      BY <1>1, <1>5, <3>1 DEF Searching
    <3>3. mid + 1 \in Nat /\ pass' = [q EXCEPT !.lo = mid + 1]
      BY <1>5, <1>6, <3>1
    <3> QED BY <3>2, <3>3 DEF Searching
  <2>2. pass'.best = mid /\ pass'.hi = pass.hi
    BY <1>1, <1>6 DEF Searching
  <2>3. Searched'
    BY <1>2, <1>3, <1>5, <2>2 DEF Searched, TopOf
  <2>4. pass' \notin Fetching'
    BY <2>1 DEF Fetching
  <2> QED BY <1>1, <1>2, <2>1, <2>3, <2>4, LeftKeeps DEF IInv, PassInv, PassTypeOK, Landing, Left, Kept
<1>7. CASE pass' = [pass EXCEPT !.hi = mid - 1] /\ ~ Common(mid)
  <2>1. /\ pass' \in Searching' /\ pass'.at = "search" /\ pass'.best = pass.best
        /\ pass'.lo = pass.lo /\ pass'.hi = mid - 1 /\ pass'.wide = pass.wide
    BY <1>1, <1>5, <1>7 DEF Searching
  <2>2. mid # 0
    <3>1. Common(0)
      BY <1>1, GenesisIsCommon DEF IInv, Searching
    <3> QED BY <1>7, <3>1
  <2>3. Searched'
    BY <1>2, <1>3, <1>5, <2>1, <2>2 DEF Searched, TopOf
  <2>4. pass' \notin Fetching'
    BY <2>1 DEF Fetching
  <2> QED BY <1>1, <1>2, <2>1, <2>3, <2>4, LeftKeeps DEF IInv, PassInv, PassTypeOK, Landing, Left, Kept
<1> QED BY <1>4, <1>6, <1>7 DEF Halve

LEMMA FoundStep ==
  ASSUME IInv, Found
  PROVE  IInv' /\ OnlyBetter
<1>1. /\ vars' = vars /\ saved' = saved /\ refused' = refused /\ pass \in Searching
      /\ pass.lo > pass.hi \/ pass.late
  BY StageOf DEF Found, others, IInv, PassInv
<1>2. /\ -1 <= pass.best /\ pass.best <= TopOf(Mine)
      /\ pass.wide /\ pass.best < 0 => pass.lo = 0 /\ pass.hi >= 0
      /\ pass.lo \in Nat /\ pass.hi \in Int /\ pass.best \in Int
      /\ TopOf(Mine) = Len(Mine) - 1 /\ Len(Mine) \in Nat
  BY <1>1, MineFacts DEF IInv, PassInv, Searched, Searching
<1>3. CASE Search(0)
  BY <1>1, <1>3, SearchBegins
<1>4. CASE /\ ~ (pass.best < 0 /\ ~ pass.wide /\ ~ pass.late)
           /\ ~ (pass.best < 0 /\ pass.late) /\ FetchFrom(pass.best + 1)
  <2>1. pass.best >= 0
    BY <1>1, <1>2, <1>4
  <2>2. pass.best + 1 \in Nat /\ 1 <= pass.best + 1 /\ pass.best + 1 <= Len(Mine)
    BY <1>2, <2>1
  <2> QED BY <1>1, <1>4, <2>2, ReadingBegins
<1> QED BY <1>3, <1>4 DEF Found

-----------------------------------------------------------------------------
(* Reading *)

LEMMA PageType ==
  ASSUME TypeOK, pass \in Fetching, NEW page \in Pages
  PROVE  page \in Seq(Block)
<1>1. PICK c : c = chain[pass.peer]
  OBVIOUS
<1>2. c \in Seq(Block) /\ Len(c) \in Nat /\ pass.h \in Nat /\ pass.height \in Int
  BY <1>1, PeerFacts DEF Fetching
<1>3. PICK n \in 1..PageMax :
        page = SubSeq(c, pass.h + 1, Smaller(pass.h + n, Smaller(pass.height + 1, Len(c))))
  BY <1>1 DEF Pages
<1>4. PICK e : e = Smaller(pass.h + n, Smaller(pass.height + 1, Len(c)))
  OBVIOUS
<1>5. e \in Int /\ e <= Len(c)
  BY <1>2, <1>4, SyncAssumption DEF Smaller
<1>6. page = SubSeq(c, pass.h + 1, e)
  BY <1>3, <1>4
<1>7. CASE e <= pass.h
  <2>1. page = << >>
    BY <1>2, <1>5, <1>6, <1>7
  <2> QED BY <2>1
<1>8. CASE e > pass.h
  <2>1. pass.h + 1 \in 1..(Len(c) + 1) /\ e \in (pass.h + 1 - 1)..Len(c)
    BY <1>2, <1>5, <1>8
  <2> QED BY <1>2, <1>6, <2>1, SubSeqProperties
<1> QED BY <1>2, <1>5, <1>7, <1>8

\* A page lands behind the blocks there.
LEMMA LandedFacts ==
  ASSUME pass \in Fetching, NEW page \in Seq(Block)
  PROVE  /\ Landed(page) \in Fetching /\ Landed(page).fork = pass.fork
         /\ Landed(page).tail = pass.tail \o page /\ Landed(page).h = pass.h + Len(page)
         /\ pass.tail \o page \in Seq(Block)
         /\ Len(pass.tail \o page) = Len(pass.tail) + Len(page)
<1>1. /\ pass.tail \in Seq(Block) /\ pass.tail \o page \in Seq(Block)
      /\ pass.h + Len(page) \in Nat /\ pass.pages + 1 \in Nat
      /\ Len(pass.tail \o page) = Len(pass.tail) + Len(page)
  BY DEF Fetching
<1>2. PICK q : q = [pass EXCEPT !.pages = pass.pages + 1]
  OBVIOUS
<1>3. q \in Fetching /\ q.fork = pass.fork /\ q.tail = pass.tail /\ q.h = pass.h
  BY <1>1, <1>2 DEF Fetching
<1>4. PICK r : r = [q EXCEPT !.tail = pass.tail \o page]
  OBVIOUS
<1>5. r \in Fetching /\ r.fork = pass.fork /\ r.tail = pass.tail \o page /\ r.h = pass.h
  BY <1>1, <1>3, <1>4 DEF Fetching
<1>6. Landed(page) = [r EXCEPT !.h = pass.h + Len(page)]
  BY <1>2, <1>3, <1>4, <1>5 DEF Landed
<1> QED BY <1>1, <1>5, <1>6 DEF Fetching

\* Where the items of two sequences are once they are joined.
LEMMA Joined ==
  ASSUME NEW S, NEW s \in Seq(S), NEW t \in Seq(S), NEW f \in Nat, Len(s) = f
  PROVE  /\ s \o t \in Seq(S) /\ Len(t) \in Nat /\ Len(s \o t) = f + Len(t)
         /\ \A i \in 1..f : (s \o t)[i] = s[i]
         /\ \A i \in 1..Len(t) : (s \o t)[f + i] = t[i]
<1>1. Len(t) \in Nat
  BY LenProperties
<1>2. /\ s \o t \in Seq(S) /\ Len(s \o t) = f + Len(t)
      /\ \A i \in 1..(f + Len(t)) : (s \o t)[i] = IF i <= f THEN s[i] ELSE t[i - f]
  BY ConcatProperties
<1>3. ASSUME NEW i \in 1..f
      PROVE  (s \o t)[i] = s[i]
  <2>1. i \in 1..(f + Len(t)) /\ i <= f
    BY <1>1
  <2> QED BY <1>2, <2>1
<1>4. ASSUME NEW i \in 1..Len(t)
      PROVE  (s \o t)[f + i] = t[i]
  <2>1. f + i \in 1..(f + Len(t)) /\ ~ (f + i <= f) /\ (f + i) - f = i
    BY <1>1
  <2> QED BY <1>2, <2>1
<1> QED BY <1>1, <1>2, <1>3, <1>4

\* The chain a pass has read so far, when it is in good order.
LEMMA WithFacts ==
  ASSUME IInv, pass \in Fetching, NEW t \in Seq(Block), IsChain(With(t))
  PROVE  /\ With(t) \in Chains /\ pass.fork <= Len(With(t))
         /\ With(t)[pass.fork] = Mine[pass.fork]
         /\ Linked(Mine[pass.fork], t)
<1>1. PICK f \in Nat : f = pass.fork /\ 1 <= f /\ f <= Len(Mine)
  BY DEF IInv, PassInv, Landing, Fetching
<1>2. Mine \in Seq(Block) /\ Len(Mine) \in Nat
  BY MineFacts DEF IInv
<1>3. PICK s : s = SubSeq(Mine, 1, f)
  OBVIOUS
<1>4. s \in Seq(Block) /\ Len(s) = f /\ \A i \in 1..f : s[i] = Mine[i]
  BY <1>1, <1>2, <1>3, SubSeqProperties
<1>5. PICK w : w = With(t)
  OBVIOUS
<1>6. w = s \o t
  BY <1>1, <1>3, <1>5 DEF With
<1>7. /\ w \in Seq(Block) /\ Len(w) = f + Len(t) /\ Len(t) \in Nat
      /\ \A i \in 1..f : w[i] = s[i]
      /\ \A i \in 1..Len(t) : w[f + i] = t[i]
  BY <1>4, <1>6, Joined
<1>8. w \in Chains
  BY <1>5, <1>7, InGoodOrder
<1>9. f <= Len(w) /\ w[f] = Mine[f]
  <2>1. f \in 1..f /\ f <= f + Len(t)
    BY <1>1, <1>7
  <2>2. w[f] = s[f] /\ s[f] = Mine[f]
    BY <1>4, <1>7, <2>1
  <2> QED BY <1>7, <2>1, <2>2
<1>10. ASSUME NEW i \in 1..Len(t)
       PROVE  Parent[t[i]] = IF i = 1 THEN Mine[f] ELSE t[i - 1]
  <2>1. f + i \in 2..Len(w)
    BY <1>1, <1>7
  <2>2. Parent[w[f + i]] = w[(f + i) - 1]
    BY <1>5, <2>1 DEF IsChain
  <2>3. w[f + i] = t[i]
    BY <1>7
  <2>4. CASE i = 1
    <3>1. (f + i) - 1 = f
      BY <1>1, <2>4
    <3> QED BY <1>9, <2>2, <2>3, <2>4, <3>1
  <2>5. CASE i # 1
    <3>1. i - 1 \in 1..Len(t) /\ (f + i) - 1 = f + (i - 1)
      <4>1. i \in 1..Len(t) /\ Len(t) \in Nat /\ f \in Nat
        BY <1>7
      <4> HIDE <1>1
      <4> QED BY <4>1, <2>5
    <3>2. w[f + (i - 1)] = t[i - 1]
      BY <1>7, <3>1
    <3> QED BY <2>2, <2>3, <2>5, <3>1, <3>2
  <2> QED BY <2>4, <2>5
<1> QED BY <1>1, <1>5, <1>8, <1>9, <1>10 DEF Linked

LEMMA GatherStep ==
  ASSUME IInv, pass \in Fetching, NEW page \in Pages, Gather(page)
  PROVE  IInv' /\ OnlyBetter
<1>1. /\ vars' = vars /\ saved' = saved /\ refused' = refused
      /\ pass' = Landed(page) /\ IsChain(With(pass.tail \o page))
  BY DEF Gather, others
<1>2. TypeOK' /\ OnlyBetter /\ Mine' = Mine
  BY <1>1, StillStep DEF IInv
<1>3. page \in Seq(Block)
  BY PageType DEF IInv
<1>4. /\ pass' \in Fetching /\ pass'.fork = pass.fork
      /\ pass'.tail = pass.tail \o page /\ pass'.h = pass.h + Len(page)
      /\ pass.tail \o page \in Seq(Block)
      /\ Len(pass.tail \o page) = Len(pass.tail) + Len(page)
  BY <1>1, <1>3, LandedFacts
<1>5. Linked(Mine[pass.fork], pass.tail \o page)
  BY <1>1, <1>4, WithFacts
<1>6. /\ 1 <= pass.fork /\ pass.fork <= Len(Mine)
      /\ ~ refused => pass.h = pass.fork + Len(pass.tail)
  BY DEF IInv, PassInv, Landing, Leads
<1>7. pass.fork \in Nat /\ Len(pass.tail) \in Nat /\ Len(page) \in Nat
  BY <1>3 DEF Fetching
<1>8. Landing'
  <2>1. ~ refused => pass'.h = pass'.fork + Len(pass'.tail)
    BY <1>4, <1>6, <1>7
  <2> QED BY <1>1, <1>2, <1>4, <1>5, <1>6, <2>1 DEF Landing, Leads
<1>9. pass' \notin Searching' /\ pass' \in Fetching'
  BY <1>4 DEF Fetching, Searching
<1> QED BY <1>1, <1>2, <1>8, <1>9, LeftKeeps DEF IInv, PassInv, PassTypeOK, Searched, Left, Kept

LEMMA ApplyStep ==
  ASSUME IInv, pass \in Fetching, NEW page \in Pages, Apply(page)
  PROVE  IInv' /\ OnlyBetter
<1>1. /\ fetched' = fetched /\ Drop /\ refused' = refused
      /\ pass' = [Landed(page) EXCEPT !.applied = TRUE]
      /\ IsChain(With(pass.tail \o page)) /\ IsBetter(With(pass.tail \o page), Mine)
      /\ Swap(With(pass.tail \o page))
  BY DEF Apply
<1>2. page \in Seq(Block)
  BY PageType DEF IInv
<1>3. /\ Landed(page) \in Fetching /\ Landed(page).fork = pass.fork
      /\ Landed(page).tail = pass.tail \o page /\ Landed(page).h = pass.h + Len(page)
      /\ pass.tail \o page \in Seq(Block)
      /\ Len(pass.tail \o page) = Len(pass.tail) + Len(page)
  BY <1>2, LandedFacts
<1>4. PICK w : w = With(pass.tail \o page)
  OBVIOUS
<1>5. /\ w \in Chains /\ pass.fork <= Len(w) /\ w[pass.fork] = Mine[pass.fork]
      /\ Linked(Mine[pass.fork], pass.tail \o page)
  BY <1>1, <1>3, <1>4, WithFacts
<1>6. TypeOK' /\ OnlyBetter /\ Mine' = w
  BY <1>1, <1>4, <1>5, SwapStep DEF IInv
<1>7. /\ pass' \in Fetching /\ pass'.fork = pass.fork
      /\ pass'.tail = pass.tail \o page /\ pass'.h = pass.h + Len(page)
  BY <1>1, <1>3 DEF Fetching
<1>8. /\ 1 <= pass.fork
      /\ ~ refused => pass.h = pass.fork + Len(pass.tail)
  BY DEF IInv, PassInv, Landing, Leads
<1>9. pass.fork \in Nat /\ Len(pass.tail) \in Nat /\ Len(page) \in Nat
  BY <1>2 DEF Fetching
<1>10. Landing'
  <2>1. ~ refused => pass'.h = pass'.fork + Len(pass'.tail)
    BY <1>3, <1>7, <1>8, <1>9
  <2> QED BY <1>1, <1>5, <1>6, <1>7, <1>8, <2>1 DEF Landing, Leads
<1>11. pass' \notin Searching' /\ pass' \in Fetching'
  BY <1>7 DEF Fetching, Searching
<1> QED BY <1>1, <1>6, <1>10, <1>11, DropKeeps DEF IInv, PassInv, PassTypeOK, Searched, Left, Kept

LEMMA PauseStep ==
  ASSUME IInv, pass \in Fetching, Pause
  PROVE  IInv' /\ OnlyBetter
<1>1. TypeOK' /\ OnlyBetter
  BY StillStep DEF IInv, Pause
<1>2. pass' = Idle /\ refused' = refused
  BY DEF Pause, End, Return
<1>3. PICK s : s = [fork |-> pass.fork, anchor |-> Anchor(pass.fork),
                    tail |-> pass.tail, h |-> pass.h]
  OBVIOUS
<1>4. saved' = [saved EXCEPT ![pass.peer] = s] \/ saved' = [saved EXCEPT ![pass.peer] = None]
  BY <1>3, Zenon DEF Pause
<1>5. /\ 1 <= pass.fork /\ pass.fork <= Len(Mine) /\ pass.fork \in Nat
      /\ ~ refused => Leads(pass.fork, Mine[pass.fork], pass.tail, pass.h)
      /\ Mine \in Seq(Block) /\ Len(Mine) \in Nat
  BY MineFacts DEF IInv, PassInv, Landing, Fetching
<1>6. Anchor(pass.fork) = Mine[pass.fork] /\ Mine[pass.fork] \in Block
  BY <1>5 DEF Anchor
<1>7. /\ s \in Rest /\ s.fork = pass.fork /\ s.anchor = Mine[pass.fork]
      /\ s.tail = pass.tail /\ s.h = pass.h
  BY <1>3, <1>6 DEF Rest, Fetching
<1>8. ~ refused => Leads(s.fork, s.anchor, s.tail, s.h)
  BY <1>5, <1>7
<1>9. /\ saved' \in [Peer -> Rest \cup {None}]
      /\ \A p \in Peer : saved'[p] \in {saved[p], s, None}
  BY <1>4, <1>7 DEF IInv, PassInv, PassTypeOK
<1>10. \A p \in Peer : saved'[p] # None /\ ~ refused' =>
         Leads(saved'[p].fork, saved'[p].anchor, saved'[p].tail, saved'[p].h)
  <2> TAKE p \in Peer
  <2>1. CASE saved'[p] = s
    BY <1>2, <1>8, <2>1
  <2>2. CASE saved'[p] = saved[p]
    BY <1>2, <2>2 DEF IInv, PassInv, Left, Kept
  <2> QED BY <1>9, <2>1, <2>2
<1>11. refused' \in BOOLEAN
  BY <1>2 DEF IInv, PassInv, PassTypeOK
<1> QED BY <1>1, <1>2, <1>9, <1>10, <1>11, IdleKeeps DEF IInv

LEMMA DiskFailsStep ==
  ASSUME IInv, pass \in Fetching, NEW page \in Pages, DiskFails(page)
  PROVE  IInv' /\ OnlyBetter
<1>1. TypeOK' /\ OnlyBetter
  BY StillStep DEF IInv, DiskFails
<1>2. pass' = Idle /\ refused' = TRUE
  BY DEF DiskFails
<1>3. page \in Seq(Block) /\ pass.peer \in Peer
  BY PageType DEF IInv, Fetching
<1>4. pass.tail \o page \in Seq(Block)
  BY <1>3, LandedFacts
<1>5. PICK old : old = saved[pass.peer]
  OBVIOUS
<1>6. \/ old # None /\ saved' = [saved EXCEPT ![pass.peer] = [old EXCEPT !.tail = pass.tail \o page]]
      \/ saved' = [saved EXCEPT ![pass.peer] = old]
  BY <1>5, Zenon DEF DiskFails
<1>7. old \in Rest \cup {None} /\ saved \in [Peer -> Rest \cup {None}]
  BY <1>3, <1>5 DEF IInv, PassInv, PassTypeOK
<1>8. old # None => [old EXCEPT !.tail = pass.tail \o page] \in Rest
  BY <1>4, <1>7 DEF Rest
<1>9. saved' \in [Peer -> Rest \cup {None}]
  BY <1>6, <1>7, <1>8
<1> QED BY <1>1, <1>2, <1>9, IdleKeeps DEF IInv

LEMMA DelayStep ==
  ASSUME IInv, pass # Idle, Delay
  PROVE  IInv' /\ OnlyBetter
<1>1. TypeOK' /\ OnlyBetter /\ Mine' = Mine
  BY StillStep DEF IInv, Delay
<1>2. saved' = saved /\ refused' = refused
  BY DEF Delay, others
<1>3. pass' = [[pass EXCEPT !.late = TRUE] EXCEPT !.calm = FALSE]
  BY DEF Delay
<1> QED BY <1>1, <1>2, <1>3, BusyKeeps DEF IInv

-----------------------------------------------------------------------------
(* The theorems *)

LEMMA IInvInit == SyncInit => IInv
<1> SUFFICES ASSUME SyncInit PROVE IInv
  OBVIOUS
<1>1. TypeOK
  BY GenesisIsChain DEF SyncInit, Init, TypeOK
<1>2. pass = Idle /\ saved = [p \in Peer |-> None] /\ refused = FALSE
  BY DEF SyncInit
<1>3. pass \notin Searching /\ pass \notin Fetching
  BY <1>2 DEF Idle, Searching, Fetching
<1> QED BY <1>1, <1>2, <1>3 DEF IInv, PassInv, PassTypeOK, Searched, Landing, Left, Kept

LEMMA IInvStep == IInv /\ [SyncNext]_syncVars => IInv' /\ OnlyBetter
<1> SUFFICES ASSUME IInv, [SyncNext]_syncVars PROVE IInv' /\ OnlyBetter
  OBVIOUS
<1>1. ASSUME NEW p \in Peer, Hear(p) \/ Elsewhere(p) \/ Ask(p) \/ AskInVain(p)
      PROVE  IInv' /\ OnlyBetter
  BY <1>1, HearStep, ElsewhereStep, AskStep, QuietStep
<1>2. ASSUME NEW b \in Block, Win(b)
      PROVE  IInv' /\ OnlyBetter
  BY <1>2, WinStep
<1>3. ASSUME pass # Idle, Working \/ Delay \/ Silence
      PROVE  IInv' /\ OnlyBetter
  <2>1. CASE Probe \/ Halve \/ Found
    BY <2>1, ProbeStep, HalveStep, FoundStep
  <2>2. CASE Unfound \/ Finish \/ Silence
    BY <1>3, <2>2, QuietStep
  <2>3. CASE Pause
    BY <2>3, PauseStep, StageOf DEF Pause, More, IInv, PassInv
  <2>4. ASSUME MayFetch, NEW page \in Pages, Apply(page) \/ Gather(page) \/ Reject(page)
        PROVE  IInv' /\ OnlyBetter
    <3>1. pass \in Fetching
      BY <2>4, StageOf DEF MayFetch, More, IInv, PassInv
    <3> QED BY <2>4, <3>1, ApplyStep, GatherStep, QuietStep
  <2>5. CASE Delay
    BY <1>3, <2>5, DelayStep
  <2> QED BY <1>3, <2>1, <2>2, <2>3, <2>4, <2>5 DEF Working
<1>4. ASSUME MayFetch, NEW page \in Pages, DiskFails(page)
      PROVE  IInv' /\ OnlyBetter
  <2>1. pass \in Fetching
    BY <1>4, StageOf DEF MayFetch, More, IInv, PassInv
  <2> QED BY <1>4, <2>1, DiskFailsStep
<1>5. ASSUME UNCHANGED syncVars
      PROVE  IInv' /\ OnlyBetter
  BY <1>5, QuietStep
<1> QED BY <1>1, <1>2, <1>3, <1>4, <1>5 DEF SyncNext

LEMMA IInvAlways == SyncSpec => []IInv
<1>1. IInv /\ [SyncNext]_syncVars => IInv'
  BY IInvStep
<1> QED BY <1>1, IInvInit, PTL DEF SyncSpec

\* Every node holds a chain from the genesis block at all times, and what it
\* has read of a peer's and not judged yet is one.
THEOREM ChainsAlways == SyncSpec => []TypeOK
<1>1. IInv => TypeOK
  BY DEF IInv
<1> QED BY <1>1, IInvAlways, PTL

\* On all chains nodes come to hold the binary search of _fork_point stops
\* where the linear scan of _evaluate_remote_chain does.
THEOREM SearchFindsForkAlways == SyncSpec => []SearchFindsFork
<1>1. TypeOK => SearchFindsFork
  BY SearchIsFork DEF TypeOK, SearchFindsFork
<1> QED BY <1>1, ChainsAlways, PTL

\* Of any two nodes on different tips exactly one is to give way, whoever asks,
\* and none if and only if the tips are two blocks on one proof.
THEOREM ExactlyOneWinsAlways == SyncSpec => []ExactlyOneWins
<1>1. TypeOK => ExactlyOneWins
  <2> SUFFICES ASSUME TypeOK, NEW n \in Node, NEW m \in Node, Tip(chain[n]) # Tip(chain[m]),
                      NEW c, c = chain[n], NEW d, d = chain[m]
               PROVE  IF OneProof(Tip(c), Tip(d)) THEN ~ IsBetter(c, d) /\ ~ IsBetter(d, c)
                                                  ELSE IsBetter(c, d) # IsBetter(d, c)
    BY DEF ExactlyOneWins
  <2>1. c \in Chains /\ d \in Chains
    BY DEF TypeOK
  <2>2. CASE OneProof(Tip(c), Tip(d))
    <3>1. OneProof(Tip(d), Tip(c))
      BY <2>2 DEF OneProof
    <3>2. Iters[Tip(c)] = Iters[Tip(d)]
      BY <2>2, KeyAssumption DEF OneProof
    <3> QED BY <2>1, <2>2, <3>1, <3>2, OneProofIsTie
  <2>3. CASE ~ OneProof(Tip(c), Tip(d))
    <3>1. IsBetter(c, d) \/ IsBetter(d, c)
      BY <2>1, <2>3, AtLeastOneWins, KeyAssumption
    <3>2. ~ (IsBetter(c, d) /\ IsBetter(d, c))
      BY <2>1, AtMostOneWins
    <3> QED BY <2>3, <3>1, <3>2 DEF IsBetter, BetterBy
  <2> QED BY <2>2, <2>3
<1> QED BY <1>1, ChainsAlways, PTL

\* No node gives up proven work, or a chain it would prefer to the new one.
THEOREM NeverWorseAlways == SyncSpec => NeverWorse
<1>1. IInv /\ [SyncNext]_syncVars =>
        [\A n \in Node : chain'[n] # chain[n] =>
           /\ Work(ProvenBlocks(chain'[n])) >= Work(ProvenBlocks(chain[n]))
           /\ ~ IsBetter(chain[n], chain'[n])]_vars
  <2> SUFFICES ASSUME IInv, [SyncNext]_syncVars, NEW n \in Node, chain'[n] # chain[n]
               PROVE  /\ Work(ProvenBlocks(chain'[n])) >= Work(ProvenBlocks(chain[n]))
                      /\ ~ IsBetter(chain[n], chain'[n])
    OBVIOUS
  <2>1. IInv' /\ IsBetter(chain'[n], chain[n])
    BY IInvStep DEF OnlyBetter
  <2>2. chain[n] \in Chains /\ chain'[n] \in Chains
    BY <2>1 DEF IInv, TypeOK
  <2>3. Work(ProvenBlocks(chain'[n])) \in Nat /\ Work(ProvenBlocks(chain[n])) \in Nat
    BY <2>2, ChainFacts, WorkType
  <2>4. Work(ProvenBlocks(chain'[n])) >= Work(ProvenBlocks(chain[n]))
    BY <2>1, <2>3 DEF IsBetter, BetterBy
  <2> QED BY <2>1, <2>2, <2>4, AtMostOneWins
<1> QED BY <1>1, IInvAlways, PTL DEF SyncSpec, NeverWorse

\* What is left of a pass is what the next one takes it for.
THEOREM TailFitsAlways == SyncSpec => []TailFits
<1>1. IInv => TailFits
  <2> SUFFICES ASSUME IInv, NEW p \in Peer, Kept(p), ~ refused,
                      NEW s, s = saved[p], NEW whole, whole = <<s.anchor>> \o s.tail
               PROVE  /\ s.h = s.fork + Len(s.tail)
                      /\ \A i \in 2..Len(whole) : Parent[whole[i]] = whole[i-1]
    BY DEF TailFits
  <2>1. s \in Rest /\ Leads(s.fork, s.anchor, s.tail, s.h)
    BY DEF IInv, PassInv, PassTypeOK, Left, Kept
  <2>2. /\ s.tail \in Seq(Block) /\ <<s.anchor>> \in Seq(Block) /\ Len(<<s.anchor>>) = 1
        /\ <<s.anchor>>[1] = s.anchor
    BY <2>1 DEF Rest
  <2>3. /\ Len(whole) = 1 + Len(s.tail) /\ Len(s.tail) \in Nat /\ whole[1] = s.anchor
        /\ \A i \in 1..Len(s.tail) : whole[1 + i] = s.tail[i]
    BY <2>2, ConcatProperties
  <2>4. ASSUME NEW i \in 2..Len(whole)
        PROVE  Parent[whole[i]] = whole[i-1]
    <3>1. PICK k \in 1..Len(s.tail) : i = 1 + k
      BY <2>3
    <3>2. whole[i] = s.tail[k] /\ Parent[s.tail[k]] = IF k = 1 THEN s.anchor ELSE s.tail[k - 1]
      BY <2>1, <2>3, <3>1 DEF Leads, Linked
    <3>3. CASE k = 1
      BY <2>3, <3>1, <3>2, <3>3
    <3>4. CASE k # 1
      <4>1. k - 1 \in 1..Len(s.tail) /\ 1 + (k - 1) = k /\ i - 1 = k
        BY <2>3, <3>1, <3>4
      <4>2. whole[k] = s.tail[k - 1]
        BY <2>3, <4>1
      <4> QED BY <3>2, <3>4, <4>1, <4>2
    <3> QED BY <3>3, <3>4
  <2> QED BY <2>1, <2>4 DEF Leads
<1> QED BY <1>1, IInvAlways, PTL
=============================================================================
