-------------------------- MODULE ChainStoreProofs --------------------------
(***************************************************************************)
(* Proofs about ChainStore, for every tree of blocks, every ledger and     *)
(* every number of crashes: the invariants of one node's chain in memory   *)
(* and on disk, and that its stored chain implements DurableChain.         *)
(***************************************************************************)
EXTENDS ChainStore, ForkChoiceProofs

-----------------------------------------------------------------------------
(* Ledgers *)

\* Before any block nobody has a row and nothing is minted.
LEMMA LedgerOfNothing ==
  ASSUME NEW rows \in [Addr -> Row], NEW minted
  PROVE  IsLedgerOf(rows, minted, << >>) <=> rows = EmptyRows /\ minted = {}
<1>1. \A a \in Addr : IsRowAfter(<< >>, a, rows[a]) <=> rows[a] = NoRow
  BY DEF IsRowAfter
<1>2. ProvenBlocks(<< >>) = {}
  BY DEF ProvenBlocks
<1>3. rows = EmptyRows <=> \A a \in Addr : rows[a] = NoRow
  BY DEF EmptyRows
<1> QED
  BY <1>1, <1>2, <1>3 DEF IsLedgerOf

\* Genesis moves no balance and has no proof.
LEMMA LedgerOfGenesis ==
  /\ IsLedgerOf(EmptyRows, {}, <<Genesis>>)
  /\ ProvenBlocks(<<Genesis>>) = {}
<1>1. ProvenBlocks(<<Genesis>>) = {}
  BY DEF ProvenBlocks
<1>2. \A a \in Addr : IsRowAfter(<<Genesis>>, a, NoRow)
  BY StoreAssumption DEF IsRowAfter
<1> QED
  BY <1>1, <1>2 DEF IsLedgerOf, EmptyRows

\* The blocks whose iterations count, after one more block.
LEMMA ProvenBlocksAppend ==
  ASSUME NEW c \in Seq(Block), NEW b \in Block, c # << >>
  PROVE  ProvenBlocks(Append(c, b)) = ProvenBlocks(c) \cup {b}
<1> DEFINE d == Append(c, b)
<1>1. /\ d \in Seq(Block) /\ Len(d) = Len(c) + 1 /\ d[Len(c) + 1] = b
      /\ \A i \in 1..Len(c) : d[i] = c[i]
  BY AppendProperties
<1>2. Len(c) \in Nat /\ Len(c) > 0
  OBVIOUS
<1> HIDE DEF d
<1>3. ProvenBlocks(d) = {d[i] : i \in 2..(Len(c) + 1)}
  BY <1>1 DEF ProvenBlocks
<1>4. 2..(Len(c) + 1) = 2..Len(c) \cup {Len(c) + 1}
  BY <1>2
<1>5. \A i \in 2..Len(c) : d[i] = c[i]
  BY <1>1, <1>2
<1>6. ProvenBlocks(d) = {c[i] : i \in 2..Len(c)} \cup {b}
  BY <1>1, <1>3, <1>4, <1>5
<1> QED
  BY <1>6 DEF ProvenBlocks, d

\* Applying a block to the ledger of a chain gives the ledger of the longer
\* chain (ApplyBlock).
LEMMA LedgerAppend ==
  ASSUME NEW c \in Seq(Block), c # << >>, NEW b \in Block,
         NEW rows \in [Addr -> Row], NEW minted, IsLedgerOf(rows, minted, c)
  PROVE  IsLedgerOf([a \in Addr |-> IF a \in Touch[b] THEN b ELSE rows[a]],
                    minted \cup {b}, Append(c, b))
<1> DEFINE d == Append(c, b)
           new == [a \in Addr |-> IF a \in Touch[b] THEN b ELSE rows[a]]
           n == Len(c)
<1>1. /\ d \in Seq(Block) /\ Len(d) = n + 1 /\ d[n + 1] = b
      /\ \A i \in 1..n : d[i] = c[i]
  BY AppendProperties
<1>2. n \in Nat
  OBVIOUS
<1>3. ProvenBlocks(d) = minted \cup {b}
  BY ProvenBlocksAppend DEF IsLedgerOf
<1> HIDE DEF d, n
<1>4. ASSUME NEW a \in Addr PROVE IsRowAfter(d, a, new[a])
  <2>1. CASE a \in Touch[b]
    <3>1. new[a] = b
      BY <2>1
    <3>2. a \in Touch[d[n + 1]] /\ new[a] = d[n + 1] /\ n + 1 \in 1..Len(d)
      BY <1>1, <1>2, <2>1, <3>1
    <3>3. \A j \in 1..Len(d) : j > n + 1 => a \notin Touch[d[j]]
      BY <1>1, <1>2
    <3> HIDE DEF new
    <3> QED
      BY <3>2, <3>3 DEF IsRowAfter
  <2>2. CASE a \notin Touch[b]
    <3>1. new[a] = rows[a] /\ IsRowAfter(c, a, rows[a])
      BY <2>2 DEF IsLedgerOf
    <3> HIDE DEF new
    <3>2. CASE rows[a] = NoRow /\ \A i \in 1..n : a \notin Touch[c[i]]
      <4>1. \A i \in 1..Len(d) : a \notin Touch[d[i]]
        BY <1>1, <1>2, <2>2, <3>2
      <4> QED
        BY <3>1, <3>2, <4>1 DEF IsRowAfter
    <3>3. CASE \E i \in 1..n :
                 /\ a \in Touch[c[i]] /\ rows[a] = c[i]
                 /\ \A j \in 1..n : j > i => a \notin Touch[c[j]]
      <4>1. PICK i \in 1..n :
                 /\ a \in Touch[c[i]] /\ rows[a] = c[i]
                 /\ \A j \in 1..n : j > i => a \notin Touch[c[j]]
        BY <3>3
      <4>2. i \in 1..Len(d) /\ a \in Touch[d[i]] /\ new[a] = d[i]
        BY <1>1, <1>2, <3>1, <4>1
      <4>3. \A j \in 1..Len(d) : j > i => a \notin Touch[d[j]]
        BY <1>1, <1>2, <2>2, <4>1
      <4> QED
        BY <4>2, <4>3 DEF IsRowAfter
    <3> QED
      BY <3>1, <3>2, <3>3 DEF IsRowAfter, n
  <2> QED
    BY <2>1, <2>2
<1>5. IsLedgerOf(new, minted \cup {b}, d)
  <2> HIDE DEF new
  <2> QED BY <1>3, <1>4 DEF IsLedgerOf
<1> QED
  BY <1>5 DEF d

-----------------------------------------------------------------------------
(* Chains in memory *)

\* A ChainState whose state and proven blocks are those of its chain.
Good(c) ==
  /\ c \in ChainState
  /\ c.chain \in Chains
  /\ IsLedgerOf(c.st.rows, c.st.minted, c.chain)
  /\ c.proven = ProvenBlocks(c.chain)

\* A node that starts afresh is in good order.
LEMMA FromGenesisGood == Good(FromGenesis)
<1>1. EmptyRows \in [Addr -> Row] /\ {} \in SUBSET Block /\ {} \in SUBSET Addr
  BY DEF EmptyRows, Row
<1>2. EmptyState \in State
  BY <1>1 DEF EmptyState, State
<1>3. <<Genesis>> \in Seq(Block)
  BY GenesisIsChain, ChainFacts
<1>4. FromGenesis \in ChainState
  BY <1>1, <1>2, <1>3 DEF FromGenesis, ChainState
<1> QED
  BY <1>4, GenesisIsChain, LedgerOfGenesis DEF Good, FromGenesis, EmptyState

\* apply_block keeps chain, state and proven blocks together.
LEMMA ApplyBlockGood ==
  ASSUME NEW c, Good(c), NEW b \in Block, Append(c.chain, b) \in Chains
  PROVE  Good(ApplyBlock(c, b))
<1>1. /\ c \in ChainState /\ c.st \in State /\ c.st.rows \in [Addr -> Row]
      /\ c.st.minted \in SUBSET Block /\ c.st.dirty \in SUBSET Addr
      /\ c.proven \in SUBSET Block
      /\ c.chain \in Seq(Block) /\ c.chain # << >>
  BY ChainFacts DEF Good, ChainState, State
<1> DEFINE rows == [a \in Addr |-> IF a \in Touch[b] THEN b ELSE c.st.rows[a]]
<1>2. rows \in [Addr -> Row]
  BY <1>1 DEF Row
<1>3. IsLedgerOf(rows, c.st.minted \cup {b}, Append(c.chain, b))
  BY <1>1, LedgerAppend DEF Good
<1>4. c.proven \cup {b} = ProvenBlocks(Append(c.chain, b))
  BY <1>1, ProvenBlocksAppend DEF Good
<1>5. c.st.dirty \cup Touch[b] \in SUBSET Addr
  BY <1>1, StoreAssumption
<1>6. Append(c.chain, b) \in Seq(Block)
  BY <1>1, AppendProperties
<1> HIDE DEF rows
<1> DEFINE st == [rows |-> rows, minted |-> c.st.minted \cup {b},
                  dirty |-> c.st.dirty \cup Touch[b]]
           new == [chain |-> Append(c.chain, b), st |-> st,
                   proven |-> c.proven \cup {b}]
<1>7. st \in State
  BY <1>1, <1>2, <1>5 DEF State
<1>8. new \in ChainState
  <2> HIDE DEF st
  <2> QED BY <1>1, <1>6, <1>7 DEF ChainState
<1>9. Good(new)
  BY <1>3, <1>4, <1>8 DEF Good
<1> QED
  BY <1>9 DEF ApplyBlock, rows

\* mark_persisted changes the dirty set and nothing else.
LEMMA PersistedGood ==
  ASSUME NEW c, Good(c)
  PROVE  /\ Good(Persisted(c))
         /\ Persisted(c).chain = c.chain
         /\ Persisted(c).st.rows = c.st.rows
<1>1. c \in ChainState
  BY DEF Good
<1>2. /\ Persisted(c) \in ChainState
      /\ Persisted(c).chain = c.chain
      /\ Persisted(c).st.rows = c.st.rows
      /\ Persisted(c).st.minted = c.st.minted
      /\ Persisted(c).proven = c.proven
  BY <1>1 DEF Persisted, ChainState, State
<1> QED
  BY <1>2 DEF Good

-----------------------------------------------------------------------------
(* The tables *)

\* The Block table has the blocks of c and no other row.
Holds(d, c) ==
  \A h \in Heights : d.block[h] = IF h < Len(c) THEN c[h + 1] ELSE NoBlock

\* What load_all_blocks reads back from such a table.
LEMMA LoadedHolds ==
  ASSUME NEW d, NEW c \in Seq(Block), Len(c) <= MaxChain, Holds(d, c)
  PROVE  Stored(d) = 0..(Len(c) - 1) /\ LoadedChain(d) = c
<1> DEFINE n == Len(c)
<1>1. n \in Nat /\ MaxChain \in Nat /\ n <= MaxChain
  BY BlockAssumption
<1>2. \A h \in Heights : h < n => d.block[h] = c[h + 1] /\ c[h + 1] \in Block
  BY <1>1 DEF Holds, Heights
<1>3. \A h \in Heights : ~ (h < n) => d.block[h] = NoBlock
  BY DEF Holds
<1>4. Stored(d) = {h \in Heights : h < n}
  BY <1>2, <1>3, StoreAssumption DEF Stored
<1> HIDE DEF n
<1>5. {h \in Heights : h < n} = 0..(n - 1)
  BY <1>1 DEF Heights
<1>6. Stored(d) = 0..(n - 1)
  BY <1>4, <1>5
<1>7. Cardinality(Stored(d)) = n
  BY <1>1, <1>6, FS_Interval
<1>8. ASSUME NEW i \in 1..n
      PROVE  d.block[CHOOSE h \in Stored(d) :
                       Cardinality({g \in Stored(d) : g < h}) = i - 1] = c[i]
  <2>1. \A h \in Stored(d) : Cardinality({g \in Stored(d) : g < h}) = h
    <3> SUFFICES ASSUME NEW h \in Stored(d)
                 PROVE  Cardinality({g \in Stored(d) : g < h}) = h
      OBVIOUS
    <3>1. h \in Nat /\ {g \in Stored(d) : g < h} = 0..(h - 1)
      BY <1>1, <1>6
    <3>2. Cardinality(0..(h - 1)) = h
      BY <3>1, FS_Interval
    <3> QED
      BY <3>1, <3>2
  <2>2. i - 1 \in Stored(d) /\ i - 1 \in Heights /\ i - 1 < n
    BY <1>1, <1>6 DEF Heights
  <2>3. (CHOOSE h \in Stored(d) :
           Cardinality({g \in Stored(d) : g < h}) = i - 1) = i - 1
    BY <2>1, <2>2
  <2>4. d.block[i - 1] = c[i]
    BY <1>2, <2>2
  <2> QED
    BY <2>3, <2>4
<1>9. c = [i \in 1..n |-> c[i]]
  BY DEF n
<1>10. LoadedChain(d) = [i \in 1..n |-> c[i]]
  BY <1>7, <1>8 DEF LoadedChain
<1> QED
  BY <1>6, <1>9, <1>10 DEF n

-----------------------------------------------------------------------------
(* The recent-state cache *)

Cache == [Heights -> Entry \cup {NoEntry}]

\* Every entry of the cache ca is the state of the chain c at its height.
Fits(ca, c) ==
  \A h \in Heights : ca[h] # NoEntry =>
    /\ h < Len(c)
    /\ IsLedgerOf(ca[h].st.rows, ca[h].st.minted, SubSeq(c, 1, h + 1))
    /\ ca[h].proven = ProvenBlocks(SubSeq(c, 1, h + 1))

\* An empty cache fits every chain.
LEMMA EmptyCacheFits ==
  ASSUME NEW c
  PROVE  EmptyCache \in Cache /\ Fits(EmptyCache, c)
BY DEF EmptyCache, Cache, Fits

\* A cache of one chain fits another one that agrees with it up to the highest
\* entry.
LEMMA FitsOther ==
  ASSUME NEW ca, NEW c, NEW d, Fits(ca, c),
         \A h \in Heights : ca[h] # NoEntry =>
           h < Len(d) /\ SubSeq(c, 1, h + 1) = SubSeq(d, 1, h + 1)
  PROVE  Fits(ca, d)
BY DEF Fits

\* _forget_states_from leaves only entries of what two chains share.
LEMMA ForgetFits ==
  ASSUME NEW ca \in Cache, NEW c, Fits(ca, c), NEW fork \in Nat
  PROVE  /\ Forget(ca, fork) \in Cache
         /\ Fits(Forget(ca, fork), c)
         /\ \A h \in Heights : Forget(ca, fork)[h] # NoEntry => h < fork
<1>1. \A h \in Heights : Forget(ca, fork)[h] = IF h >= fork THEN NoEntry ELSE ca[h]
  BY DEF Forget
<1>2. Forget(ca, fork) \in Cache
  BY DEF Forget, Cache
<1>3. \A h \in Heights : Forget(ca, fork)[h] # NoEntry =>
        h < fork /\ Forget(ca, fork)[h] = ca[h]
  BY <1>1 DEF Heights
<1> QED
  BY <1>2, <1>3 DEF Fits

\* Remembering the state of a chain keeps the cache in good order.
LEMMA RememberFits ==
  ASSUME NEW ca \in Cache, NEW c, Good(c), Fits(ca, c.chain)
  PROVE  Remember(ca, c) \in Cache /\ Fits(Remember(ca, c), c.chain)
<1> DEFINE e == [st |-> c.st, proven |-> c.proven]
           added == [ca EXCEPT ![HeightOf(c)] = e]
           new == Remember(ca, c)
           ch == c.chain
<1>1. /\ c.st \in State /\ c.proven \in SUBSET Block /\ ch \in Seq(Block)
      /\ HeightOf(c) = Len(ch) - 1 /\ Len(ch) \in 1..MaxChain
  BY ChainFacts DEF Good, ChainState, HeightOf
<1>2. HeightOf(c) \in Heights /\ e \in Entry
  BY <1>1, BlockAssumption DEF Heights, Entry
<1>3. added \in Cache
  BY <1>2 DEF Cache
<1>4. /\ added[HeightOf(c)] = e
      /\ \A h \in Heights : h # HeightOf(c) => added[h] = ca[h]
  BY <1>2 DEF Cache
<1> HIDE DEF e, added
<1>5. \A h \in Heights : new[h] = NoEntry \/ new[h] = added[h]
  BY DEF Remember, added, e
<1>6. new \in Cache
  <2>1. new = [h \in Heights |-> new[h]]
    BY DEF Remember
  <2>2. \A h \in Heights : new[h] \in Entry \cup {NoEntry}
    BY <1>3, <1>5 DEF Cache
  <2> HIDE DEF new
  <2> QED BY <2>1, <2>2 DEF Cache
<1> HIDE DEF new
<1>7. ASSUME NEW h \in Heights, new[h] # NoEntry
      PROVE  /\ h < Len(ch)
             /\ IsLedgerOf(new[h].st.rows, new[h].st.minted, SubSeq(ch, 1, h + 1))
             /\ new[h].proven = ProvenBlocks(SubSeq(ch, 1, h + 1))
  <2>1. CASE h # HeightOf(c)
    <3>1. new[h] = ca[h]
      BY <1>4, <1>5, <1>7, <2>1
    <3> QED
      BY <1>7, <3>1 DEF Fits
  <2>2. CASE h = HeightOf(c)
    <3>1. new[h] = e
      BY <1>4, <1>5, <1>7, <2>2
    <3>2. new[h].st = c.st /\ new[h].proven = c.proven
      BY <3>1 DEF e
    <3>3. h + 1 = Len(ch) /\ h < Len(ch)
      BY <1>1, <2>2
    <3>4. SubSeq(ch, 1, h + 1) = ch
      BY <1>1, <3>3, SubSeqFull
    <3> QED
      BY <3>2, <3>3, <3>4 DEF Good
  <2> QED
    BY <2>1, <2>2
<1>8. Fits(new, ch)
  BY <1>7 DEF Fits
<1> QED
  BY <1>6, <1>8 DEF new

-----------------------------------------------------------------------------
(* The inductive invariant *)

\* The stored chain is c and the State table is its ledger.
OnDisk(c) == Holds(disk, c) /\ IsLedgerOf(disk.rows, disk.minted, c)

\* Every row of the State table that is not c's is in c's dirty set.
Covers(c) == \A a \in Addr : disk.rows[a] # c.st.rows[a] => a \in c.st.dirty

AllButTip(c) == SubSeq(c, 1, Len(c) - 1)

MemoryGood == Good(cs) /\ Good(rcs)

\* The blocks still to be applied complete the candidate to a chain.
CandidateGood ==
  /\ pc \in {"load", "replay"} => rcs.chain \o todo \in Chains
  /\ pc \notin {"load", "replay"} => todo = << >>

DiskGood ==
  /\ pc = "down" => \E c \in Chains \cup {<< >>} : OnDisk(c)
  /\ pc = "load" => OnDisk(rcs.chain \o todo)
  /\ pc \in {"idle", "publish", "replay", "replace"} => OnDisk(cs.chain)
  /\ pc = "save" => Len(cs.chain) > 1 /\ OnDisk(AllButTip(cs.chain))
  /\ pc = "swap" => OnDisk(rcs.chain)

RowsGood ==
  /\ pc \in {"idle", "save", "publish", "replay", "replace"} => Covers(cs)
  /\ pc = "load" => Covers(rcs)
  /\ pc = "swap" => disk.rows = rcs.st.rows

CacheGood ==
  /\ Fits(cache, cs.chain)
  /\ pc \in {"down", "load"} => cache = EmptyCache

ViewGood ==
  /\ pc \in {"idle", "replay", "replace", "swap"} => view = cs.chain
  /\ pc \in {"save", "publish"} => Len(cs.chain) > 1 /\ view = AllButTip(cs.chain)

BetterGood == pc \in {"replace", "swap"} => IsBetter(rcs.chain, cs.chain)

IInv ==
  /\ TypeOK
  /\ MemoryGood /\ CandidateGood /\ DiskGood
  /\ RowsGood /\ CacheGood /\ ViewGood /\ BetterGood

\* The invariant holds before the first start.
LEMMA InitIInv == Init => IInv
<1> SUFFICES ASSUME Init PROVE IInv
  OBVIOUS
<1>1. Good(cs) /\ Good(rcs)
  BY FromGenesisGood DEF Init
<1>2. /\ disk.block = [h \in Heights |-> NoBlock]
      /\ disk.rows = EmptyRows /\ disk.minted = {} /\ disk \in Tables
  BY DEF Init, Tables, EmptyRows, Row
<1>3. OnDisk(<< >>)
  <2>1. EmptyRows \in [Addr -> Row]
    BY DEF EmptyRows, Row
  <2>2. IsLedgerOf(disk.rows, disk.minted, << >>)
    BY <1>2, <2>1, LedgerOfNothing
  <2>3. Holds(disk, << >>)
    BY <1>2 DEF Holds, Heights
  <2> QED BY <2>2, <2>3 DEF OnDisk
<1>4. TypeOK
  <2>1. cs \in ChainState /\ rcs \in ChainState
    BY <1>1 DEF Good
  <2>2. cache \in [Heights -> Entry \cup {NoEntry}]
    BY EmptyCacheFits DEF Init, Cache
  <2> QED
    BY <1>2, <2>1, <2>2, StoreAssumption DEF Init, TypeOK
<1>5. CandidateGood /\ DiskGood /\ RowsGood /\ ViewGood /\ BetterGood
  BY <1>3 DEF Init, CandidateGood, DiskGood, RowsGood, ViewGood, BetterGood
<1>6. CacheGood
  BY EmptyCacheFits DEF Init, CacheGood
<1> QED
  BY <1>1, <1>4, <1>5, <1>6 DEF IInv, MemoryGood

-----------------------------------------------------------------------------
(* Every step keeps the invariant *)

\* What the tables hold while the process is down.
LEMMA DiskWhileDown ==
  ASSUME IInv, pc = "down"
  PROVE  /\ Stored(disk) = {} => /\ OnDisk(<< >>)
                                 /\ disk.rows = EmptyRows /\ disk.minted = {}
         /\ Stored(disk) # {} => LoadedChain(disk) \in Chains
                                 /\ OnDisk(LoadedChain(disk))
<1>1. PICK c \in Chains \cup {<< >>} : OnDisk(c)
  BY DEF IInv, DiskGood
<1>2. c \in Seq(Block) /\ Len(c) <= MaxChain
  <2>1. CASE c = << >>
    BY <2>1, BlockAssumption
  <2>2. CASE c \in Chains
    BY <2>2, ChainFacts, BlockAssumption
  <2> QED BY <2>1, <2>2
<1>3. Stored(disk) = 0..(Len(c) - 1) /\ LoadedChain(disk) = c
  BY <1>1, <1>2, LoadedHolds DEF OnDisk
<1>4. Stored(disk) = {} <=> c = << >>
  <2>1. Len(c) \in Nat /\ (Len(c) = 0 <=> c = << >>)
    BY <1>2
  <2>2. \A n \in Nat : 0..(n - 1) = {} <=> n = 0
    OBVIOUS
  <2> QED BY <1>3, <2>1, <2>2
<1>5. ASSUME c = << >> PROVE disk.rows = EmptyRows /\ disk.minted = {}
  <2>1. disk.rows \in [Addr -> Row]
    BY DEF IInv, TypeOK, Tables
  <2> QED
    BY <1>1, <1>5, <2>1, LedgerOfNothing DEF OnDisk
<1> QED
  BY <1>1, <1>3, <1>4, <1>5

\* _load_cs on an empty database keeps the invariant.
LEMMA StartFreshStep == IInv /\ StartFresh => IInv'
<1> SUFFICES ASSUME IInv, StartFresh PROVE IInv'
  OBVIOUS
<1>1. /\ OnDisk(<< >>) /\ disk.rows = EmptyRows /\ disk.minted = {}
      /\ disk \in Tables
  BY DiskWhileDown DEF StartFresh, IInv, TypeOK
<1>2. /\ disk'.block = [disk.block EXCEPT ![0] = Genesis]
      /\ disk'.rows = EmptyRows /\ disk'.minted = {} /\ disk' \in Tables
  <2>1. Height[Genesis] = 0 /\ Genesis \in Block
    BY BlockAssumption
  <2> QED
    BY <1>1, <2>1 DEF StartFresh, Tables
<1>3. Good(cs)' /\ Good(rcs)' /\ cs'.chain = <<Genesis>> /\ cs' = FromGenesis
  BY FromGenesisGood DEF StartFresh, IInv, MemoryGood, FromGenesis, Good
<1>4. Holds(disk', <<Genesis>>)
  <2>1. /\ \A h \in Heights : disk.block[h] = NoBlock
        /\ disk.block \in [Heights -> Block \cup {NoBlock}]
    BY <1>1 DEF OnDisk, Holds, Tables, Heights
  <2>2. 0 \in Heights
    BY BlockAssumption DEF Heights
  <2>3. \A h \in Heights : disk'.block[h] = IF h = 0 THEN Genesis ELSE NoBlock
    BY <1>2, <2>1, <2>2
  <2>4. \A h \in Heights : h < 1 <=> h = 0
    BY DEF Heights
  <2> QED BY <2>3, <2>4 DEF Holds
<1>5. OnDisk(cs.chain)'
  BY <1>2, <1>3, <1>4, LedgerOfGenesis DEF OnDisk
<1>6. Covers(cs)'
  BY <1>2, <1>3 DEF Covers, FromGenesis, EmptyState
<1>7. CacheGood'
  BY EmptyCacheFits DEF StartFresh, IInv, CacheGood
<1>8. CandidateGood' /\ DiskGood' /\ RowsGood' /\ ViewGood' /\ BetterGood'
  BY <1>3, <1>5, <1>6
     DEF StartFresh, IInv, CandidateGood, DiskGood, RowsGood, ViewGood, BetterGood
<1>9. TypeOK'
  <2>1. <<Genesis>> \in Seq(Block)
    BY GenesisIsChain, ChainFacts
  <2> QED BY <1>2, <1>3, <2>1 DEF StartFresh, IInv, TypeOK, Good
<1> QED
  BY <1>3, <1>7, <1>8, <1>9 DEF IInv, MemoryGood

\* _load_cs from the State table keeps the invariant.
LEMMA StartFromStateStep == IInv /\ StartFromState => IInv'
<1> SUFFICES ASSUME IInv, StartFromState PROVE IInv'
  OBVIOUS
<1> DEFINE c == LoadedChain(disk)
           st == [rows |-> disk.rows, minted |-> disk.minted, dirty |-> {}]
           new == [chain |-> c, st |-> st, proven |-> ProvenBlocks(c)]
<1>1. c \in Chains /\ OnDisk(c) /\ disk \in Tables
  BY DiskWhileDown DEF StartFromState, IInv, TypeOK
<1>2. cs' = new /\ view' = c /\ UNCHANGED <<cache, rcs, todo, disk, crashes, fails>>
      /\ pc = "down" /\ pc' = "idle"
  BY DEF StartFromState
<1> HIDE DEF c
<1>3. c \in Seq(Block) /\ ProvenBlocks(c) \in SUBSET Block
  BY <1>1, ChainFacts DEF ProvenBlocks
<1>4. st \in State
  BY <1>1 DEF Tables, State
<1>5. Good(new)
  BY <1>1, <1>3, <1>4 DEF Good, ChainState, OnDisk
<1>6. Good(cs)' /\ Good(rcs)' /\ cs'.chain = c /\ cs'.st.rows = disk.rows
  BY <1>2, <1>5 DEF IInv, MemoryGood, Good
<1>7. OnDisk(cs.chain)' /\ Covers(cs)'
  BY <1>1, <1>2, <1>6 DEF OnDisk, Covers
<1>8. CacheGood'
  BY <1>2, EmptyCacheFits DEF IInv, CacheGood
<1>9. CandidateGood' /\ DiskGood' /\ RowsGood' /\ ViewGood' /\ BetterGood'
  BY <1>2, <1>6, <1>7
     DEF IInv, CandidateGood, DiskGood, RowsGood, ViewGood, BetterGood
<1>10. TypeOK'
  BY <1>2, <1>3, <1>6 DEF IInv, TypeOK, Good
<1> QED
  BY <1>6, <1>8, <1>9, <1>10 DEF IInv, MemoryGood

\* _load_cs beginning a replay keeps the invariant.
LEMMA StartReplayStep == IInv /\ StartReplay => IInv'
<1> SUFFICES ASSUME IInv, StartReplay PROVE IInv'
  OBVIOUS
<1> DEFINE c == LoadedChain(disk)
<1>1. c \in Chains /\ OnDisk(c) /\ ~ StateExists(disk)
  BY DiskWhileDown DEF StartReplay
<1>2. /\ rcs' = FromGenesis /\ todo' = Tail(c) /\ pc = "down" /\ pc' = "load"
      /\ UNCHANGED <<cs, view, cache, disk, crashes, fails>>
  BY DEF StartReplay
<1> HIDE DEF c
<1>3. c \in Seq(Block) /\ c # << >> /\ c[1] = Genesis
  BY <1>1, ChainFacts DEF IsChain
<1>4. <<Genesis>> \o Tail(c) = c /\ Tail(c) \in Seq(Block)
  <2>1. SubSeq(c, 1, Len(c)) = <<c[1]>> \o SubSeq(c, 2, Len(c))
    BY <1>3, SubSeqRecursiveFirst
  <2> QED
    BY <1>3, <2>1, SubSeqFull, TailIsSubSeq, HeadTailProperties
<1>5. rcs'.chain \o todo' = c
  BY <1>2, <1>4 DEF FromGenesis
<1>6. Good(cs)' /\ Good(rcs)'
  BY <1>2, FromGenesisGood DEF IInv, MemoryGood, Good
<1>7. Covers(rcs)'
  BY <1>1, <1>2 DEF Covers, StateExists, FromGenesis, EmptyState, EmptyRows
<1>8. CandidateGood' /\ DiskGood' /\ RowsGood' /\ ViewGood' /\ BetterGood'
  BY <1>1, <1>2, <1>5, <1>7
     DEF IInv, CandidateGood, DiskGood, RowsGood, ViewGood, BetterGood, OnDisk
<1>9. CacheGood'
  BY <1>2 DEF IInv, CacheGood
<1>10. TypeOK'
  BY <1>2, <1>4, <1>6 DEF IInv, TypeOK, Good
<1> QED
  BY <1>6, <1>8, <1>9, <1>10 DEF IInv, MemoryGood

\* Moving one block from the rest to the candidate leaves the whole the same.
LEMMA MoveOne ==
  ASSUME NEW p \in Seq(Block), NEW t \in Seq(Block), t # << >>,
         p \o t \in Chains
  PROVE  /\ Append(p, Head(t)) \in Chains
         /\ Append(p, Head(t)) \o Tail(t) = p \o t
         /\ Head(t) \in Block /\ Tail(t) \in Seq(Block)
<1> DEFINE a == Append(p, Head(t))
           w == p \o t
           n == Len(p) + 1
<1>1. Head(t) \in Block /\ Tail(t) \in Seq(Block) /\ Head(t) = t[1] /\ Len(t) > 0
  BY HeadTailProperties
<1>2. /\ a \in Seq(Block) /\ Len(a) = n /\ a[n] = t[1]
      /\ \A i \in 1..Len(p) : a[i] = p[i]
  BY <1>1, AppendProperties
<1>3. /\ w \in Seq(Block) /\ Len(w) = Len(p) + Len(t)
      /\ \A i \in 1..Len(w) : w[i] = IF i <= Len(p) THEN p[i] ELSE t[i - Len(p)]
  BY ConcatProperties
<1>4. a \o Tail(t) = w
  BY <1>1
<1> HIDE DEF a, w
<1>5. n \in 1..Len(w) /\ w[n] = t[1] /\ \A i \in 1..Len(p) : w[i] = p[i]
  BY <1>1, <1>3
<1>6. SubSeq(w, 1, n) \in Chains
  BY <1>5, PrefixIsChain DEF w
<1> DEFINE q == SubSeq(w, 1, n)
<1>7. q \in Seq(Block) /\ Len(q) = n /\ \A i \in 1..n : q[i] = w[i]
  BY <1>3, <1>5, SubSeqProperties
<1> HIDE DEF q
<1>8. \A i \in 1..n : q[i] = a[i]
  BY <1>2, <1>5, <1>7
<1>9. q = a
  BY <1>2, <1>7, <1>8, SeqEqual
<1> QED
  BY <1>1, <1>4, <1>6, <1>9 DEF a, w, q

\* One block of a replay keeps the invariant.
LEMMA ApplyNextStep == IInv /\ ApplyNext => IInv'
<1> SUFFICES ASSUME IInv, ApplyNext PROVE IInv'
  OBVIOUS
<1> DEFINE b == Head(todo)
           w == rcs.chain \o todo
<1>1. /\ rcs' = ApplyBlock(rcs, b) /\ todo' = Tail(todo) /\ todo # << >>
      /\ pc \in {"load", "replay"}
      /\ UNCHANGED <<pc, cs, view, cache, disk, crashes, fails>>
  BY DEF ApplyNext
<1>2. Good(rcs) /\ rcs.chain \in Seq(Block) /\ todo \in Seq(Block) /\ w \in Chains
  BY <1>1 DEF IInv, MemoryGood, CandidateGood, TypeOK, Good, ChainState
<1>3. /\ b \in Block /\ todo' \in Seq(Block)
      /\ Append(rcs.chain, b) \in Chains /\ Append(rcs.chain, b) \o todo' = w
  BY <1>1, <1>2, MoveOne
<1>4. Good(ApplyBlock(rcs, b))
  BY <1>2, <1>3, ApplyBlockGood
<1>5. Good(cs)' /\ Good(rcs)' /\ rcs'.chain \o todo' = w
  BY <1>1, <1>3, <1>4 DEF IInv, MemoryGood, Good, ApplyBlock
<1>6. pc = "load" => Covers(rcs)'
  <2> SUFFICES ASSUME pc = "load", NEW a \in Addr, disk.rows[a] # rcs'.st.rows[a]
               PROVE  a \in rcs'.st.dirty
    BY <1>1 DEF Covers
  <2>1. /\ rcs'.st.rows[a] = IF a \in Touch[b] THEN b ELSE rcs.st.rows[a]
        /\ rcs'.st.dirty = rcs.st.dirty \cup Touch[b]
    BY <1>1 DEF ApplyBlock
  <2>2. disk.rows[a] # rcs.st.rows[a] => a \in rcs.st.dirty
    BY DEF IInv, RowsGood, Covers
  <2> QED
    BY <2>1, <2>2
<1> HIDE DEF w
<1>7. CandidateGood' /\ DiskGood' /\ RowsGood' /\ ViewGood' /\ BetterGood'
  BY <1>1, <1>2, <1>5, <1>6
     DEF IInv, CandidateGood, DiskGood, RowsGood, ViewGood, BetterGood,
         OnDisk, Covers, w
<1>8. CacheGood'
  BY <1>1 DEF IInv, CacheGood
<1>9. TypeOK'
  BY <1>1, <1>3, <1>5 DEF IInv, TypeOK, Good
<1> QED
  BY <1>5, <1>7, <1>8, <1>9 DEF IInv, MemoryGood

\* The end of a replay at start keeps the invariant.
LEMMA LoadedStep == IInv /\ Loaded => IInv'
<1> SUFFICES ASSUME IInv, Loaded PROVE IInv'
  OBVIOUS
<1>1. /\ pc = "load" /\ pc' = "idle" /\ todo = << >>
      /\ cs' = rcs /\ view' = rcs.chain /\ rcs' = FromGenesis
      /\ UNCHANGED <<cache, todo, disk, crashes, fails>>
  BY DEF Loaded
<1>2. Good(rcs) /\ rcs.chain \in Seq(Block)
  BY DEF IInv, MemoryGood, Good, ChainState
<1>3. rcs.chain \o todo = rcs.chain
  BY <1>1, <1>2
<1>4. Good(cs)' /\ Good(rcs)'
  BY <1>1, <1>2, FromGenesisGood DEF Good
<1>5. OnDisk(cs.chain)' /\ Covers(cs)'
  BY <1>1, <1>3 DEF IInv, DiskGood, RowsGood, OnDisk, Covers
<1>6. CandidateGood' /\ DiskGood' /\ RowsGood' /\ ViewGood' /\ BetterGood'
  BY <1>1, <1>5
     DEF IInv, CandidateGood, DiskGood, RowsGood, ViewGood, BetterGood
<1>7. CacheGood'
  BY <1>1, EmptyCacheFits DEF IInv, CacheGood
<1>8. TypeOK'
  BY <1>1, <1>2, <1>4 DEF IInv, TypeOK, Good
<1> QED
  BY <1>4, <1>6, <1>7, <1>8 DEF IInv, MemoryGood

\* Appending a block leaves the prefixes alone.
LEMMA AppendPrefix ==
  ASSUME NEW c \in Seq(Block), NEW b \in Block, c # << >>
  PROVE  /\ \A n \in 1..Len(c) : SubSeq(Append(c, b), 1, n) = SubSeq(c, 1, n)
         /\ AllButTip(Append(c, b)) = c
         /\ Len(Append(c, b)) = Len(c) + 1
<1>1. Append(c, b) = c \o <<b>> /\ Len(Append(c, b)) = Len(c) + 1
  BY AppendIsConcat, AppendProperties
<1>2. Len(c) \in 1..Len(c) /\ <<b>> \in Seq(Block) /\ 1 \in 1..Len(c)
  OBVIOUS
<1>3. \A n \in 1..Len(c) : SubSeq(c \o <<b>>, 1, n) = SubSeq(c, 1, n)
  BY <1>2, SubSeqOfConcat1
<1>4. AllButTip(Append(c, b)) = SubSeq(Append(c, b), 1, Len(c))
  BY <1>1 DEF AllButTip
<1>5. SubSeq(c, 1, Len(c)) = c
  BY SubSeqFull
<1> QED
  BY <1>1, <1>2, <1>3, <1>4, <1>5

\* _commit, up to the storage call, keeps the invariant.
LEMMA CommitInMemoryStep ==
  ASSUME NEW b \in Block
  PROVE  IInv /\ CommitInMemory(b) => IInv'
<1> SUFFICES ASSUME IInv, CommitInMemory(b) PROVE IInv'
  OBVIOUS
<1> DEFINE c == cs.chain
           new == ApplyBlock(cs, b)
<1>1. /\ cs' = new /\ cache' = Remember(cache, new)
      /\ pc = "idle" /\ pc' = "save" /\ Len(c) < MaxChain /\ Extends(b, c)
      /\ UNCHANGED <<view, rcs, todo, disk, crashes, fails>>
  BY DEF CommitInMemory
<1>2. /\ Good(cs) /\ c \in Chains /\ c \in Seq(Block) /\ c # << >>
      /\ Len(c) \in Nat /\ Len(c) > 0
  BY ChainFacts DEF IInv, MemoryGood, Good
<1>3. Append(c, b) \in Chains
  BY <1>1, <1>2, AppendIsChain
<1>4. Good(new) /\ new.chain = Append(c, b)
  BY <1>2, <1>3, ApplyBlockGood DEF ApplyBlock
<1>5. /\ Len(new.chain) = Len(c) + 1 /\ AllButTip(new.chain) = c
      /\ \A n \in 1..Len(c) : SubSeq(new.chain, 1, n) = SubSeq(c, 1, n)
  BY <1>2, <1>4, AppendPrefix
<1>6. Covers(cs)'
  <2> SUFFICES ASSUME NEW a \in Addr, disk.rows[a] # cs'.st.rows[a]
               PROVE  a \in cs'.st.dirty
    BY <1>1 DEF Covers
  <2>1. /\ cs'.st.rows[a] = IF a \in Touch[b] THEN b ELSE cs.st.rows[a]
        /\ cs'.st.dirty = cs.st.dirty \cup Touch[b]
    BY <1>1 DEF ApplyBlock
  <2>2. disk.rows[a] # cs.st.rows[a] => a \in cs.st.dirty
    BY <1>1 DEF IInv, RowsGood, Covers
  <2> QED
    BY <2>1, <2>2
<1> HIDE DEF c, new
<1>7. Good(cs)' /\ Good(rcs)'
  BY <1>1, <1>4 DEF IInv, MemoryGood, Good
<1>8. cache' \in Cache /\ Fits(cache', cs'.chain)
  <2>1. cache \in Cache /\ Fits(cache, c)
    BY DEF IInv, TypeOK, Cache, CacheGood, c
  <2>2. \A h \in Heights : cache[h] # NoEntry =>
          h < Len(new.chain) /\ SubSeq(c, 1, h + 1) = SubSeq(new.chain, 1, h + 1)
    <3> SUFFICES ASSUME NEW h \in Heights, h < Len(c)
                 PROVE  h < Len(new.chain)
                        /\ SubSeq(c, 1, h + 1) = SubSeq(new.chain, 1, h + 1)
      BY <2>1 DEF Fits
    <3>1. h + 1 \in 1..Len(c) /\ h < Len(new.chain)
      BY <1>2, <1>5 DEF Heights
    <3> QED BY <1>5, <3>1
  <2>3. Fits(cache, new.chain)
    BY <2>1, <2>2, FitsOther
  <2> QED BY <1>1, <1>4, <2>1, <2>3, RememberFits
<1>9. OnDisk(AllButTip(cs.chain))' /\ view' = AllButTip(cs'.chain) /\ Len(cs'.chain) > 1
  <2>1. OnDisk(c) /\ view = c
    BY <1>1 DEF IInv, DiskGood, ViewGood, c
  <2>2. AllButTip(cs'.chain) = c /\ Len(cs'.chain) > 1
    BY <1>1, <1>2, <1>5
  <2>3. Holds(disk', c) /\ IsLedgerOf(disk'.rows, disk'.minted, c)
    BY <1>1, <2>1 DEF OnDisk
  <2> QED
    BY <1>1, <2>1, <2>2, <2>3 DEF OnDisk
<1>10. CandidateGood' /\ DiskGood' /\ RowsGood' /\ ViewGood' /\ BetterGood'
  BY <1>1, <1>6, <1>9
     DEF IInv, CandidateGood, DiskGood, RowsGood, ViewGood, BetterGood
<1>11. CacheGood'
  BY <1>1, <1>8 DEF CacheGood
<1>12. TypeOK'
  BY <1>1, <1>7, <1>8 DEF IInv, TypeOK, Good, Cache
<1> QED
  BY <1>7, <1>10, <1>11, <1>12 DEF IInv, MemoryGood

\* save_block_and_state keeps the invariant.
LEMMA SaveStep == IInv /\ Save => IInv'
<1> SUFFICES ASSUME IInv, Save PROVE IInv'
  OBVIOUS
<1> DEFINE c == cs.chain
<1>1. /\ disk' = SavedBlock(disk, cs) /\ cs' = Persisted(cs)
      /\ pc = "save" /\ pc' = "publish"
      /\ UNCHANGED <<view, cache, rcs, todo, crashes, fails>>
  BY DEF Save
<1>2. /\ Good(cs) /\ c \in Chains /\ c \in Seq(Block) /\ Len(c) \in 1..MaxChain
      /\ HeightOf(cs) = Len(c) - 1 /\ Tip(c) = c[Len(c)] /\ Tip(c) \in Block
      /\ cs.st.rows \in [Addr -> Row] /\ cs.st.minted \in SUBSET Block
  BY ChainFacts
     DEF IInv, MemoryGood, Good, HeightOf, Tip, ChainState, State
<1>3. /\ Good(cs)' /\ Good(rcs)' /\ cs'.chain = c /\ cs'.st.rows = cs.st.rows
  BY <1>1, <1>2, PersistedGood DEF IInv, MemoryGood, Good
<1>4. disk \in Tables /\ OnDisk(AllButTip(c)) /\ Len(c) > 1
  BY <1>1 DEF IInv, TypeOK, DiskGood
<1>5. disk'.rows = cs.st.rows
  <2>1. disk.rows \in [Addr -> Row]
    BY <1>4 DEF Tables
  <2>2. \A a \in Addr : disk.rows[a] # cs.st.rows[a] => a \in cs.st.dirty
    BY <1>1 DEF IInv, RowsGood, Covers
  <2>3. disk'.rows = [a \in Addr |-> IF a \in cs.st.dirty THEN cs.st.rows[a]
                                     ELSE disk.rows[a]]
    BY <1>1 DEF SavedBlock
  <2>4. \A a \in Addr : disk'.rows[a] = cs.st.rows[a]
    BY <2>2, <2>3
  <2> QED BY <1>2, <2>3, <2>4
<1>6. /\ disk'.block = [disk.block EXCEPT ![Len(c) - 1] = Tip(c)]
      /\ disk'.minted = cs.st.minted
  BY <1>1, <1>2 DEF SavedBlock
<1>7. disk' \in Tables
  BY <1>1, <1>2, <1>4, <1>5, <1>6 DEF Tables, SavedBlock
<1> HIDE DEF c
<1>8. Holds(disk', c)
  <2>1. disk.block \in [Heights -> Block \cup {NoBlock}]
    BY <1>4 DEF Tables
  <2>2. Len(c) - 1 \in Heights
    BY <1>2, BlockAssumption DEF Heights
  <2> DEFINE p == AllButTip(c)
  <2>3. Len(p) = Len(c) - 1 /\ \A i \in 1..(Len(c) - 1) : p[i] = c[i]
    <3>1. Len(c) - 1 \in Int /\ 1 <= Len(c) - 1
          /\ \A i \in 1..(Len(c) - 1) : c[i] \in Block
      BY <1>2, <1>4
    <3>2. p = SubSeq(c, 1, Len(c) - 1)
      BY DEF AllButTip
    <3> HIDE DEF p
    <3> QED BY <3>1, <3>2, SubSeqProperties
  <2>4. \A h \in Heights : disk.block[h] = IF h < Len(p) THEN p[h + 1] ELSE NoBlock
    BY <1>4 DEF OnDisk, Holds
  <2> HIDE DEF p
  <2>5. ASSUME NEW h \in Heights
        PROVE  disk'.block[h] = IF h < Len(c) THEN c[h + 1] ELSE NoBlock
    <3>1. h \in Nat
      BY DEF Heights
    <3>2. CASE h = Len(c) - 1
      BY <1>2, <1>6, <2>1, <2>2, <3>2
    <3>3. CASE h < Len(c) - 1
      <4>1. h + 1 \in 1..(Len(c) - 1)
        BY <1>2, <3>1, <3>3
      <4> QED BY <1>2, <1>6, <2>1, <2>3, <2>4, <3>1, <3>3, <4>1
    <3>4. CASE h > Len(c) - 1
      BY <1>2, <1>6, <2>1, <2>3, <2>4, <3>1, <3>4
    <3> QED BY <1>2, <3>1, <3>2, <3>3, <3>4
  <2> QED BY <2>5 DEF Holds
<1>9. OnDisk(cs.chain)' /\ Covers(cs)'
  <2>1. IsLedgerOf(cs.st.rows, cs.st.minted, c)
    BY <1>2 DEF Good, c
  <2> QED BY <1>3, <1>5, <1>6, <1>8, <2>1 DEF OnDisk, Covers
<1>10. CandidateGood' /\ DiskGood' /\ RowsGood' /\ ViewGood' /\ BetterGood'
  BY <1>1, <1>3, <1>9
     DEF IInv, CandidateGood, DiskGood, RowsGood, ViewGood, BetterGood, c
<1>11. CacheGood'
  BY <1>1, <1>3 DEF IInv, CacheGood, c
<1>12. TypeOK'
  BY <1>1, <1>3, <1>7 DEF IInv, TypeOK, Good
<1> QED
  BY <1>3, <1>10, <1>11, <1>12 DEF IInv, MemoryGood

\* Publishing the view keeps the invariant.
LEMMA PublishStep == IInv /\ Publish => IInv'
<1> SUFFICES ASSUME IInv, Publish PROVE IInv'
  OBVIOUS
<1>1. /\ view' = cs.chain /\ pc = "publish" /\ pc' = "idle"
      /\ UNCHANGED <<cs, cache, rcs, todo, disk, crashes, fails>>
  BY DEF Publish
<1>2. Good(cs)' /\ Good(rcs)' /\ cs.chain \in Seq(Block)
  BY <1>1 DEF IInv, MemoryGood, Good, ChainState
<1>3. CandidateGood' /\ DiskGood' /\ RowsGood' /\ ViewGood' /\ BetterGood'
  BY <1>1 DEF IInv, CandidateGood, DiskGood, RowsGood, ViewGood, BetterGood,
              OnDisk, Covers
<1>4. CacheGood' /\ TypeOK'
  BY <1>1, <1>2 DEF IInv, CacheGood, TypeOK
<1> QED
  BY <1>2, <1>3, <1>4 DEF IInv, MemoryGood

\* Wherever _resume_point resumes from, it is a good state of a prefix of the
\* candidate.
LEMMA ResumeGood ==
  ASSUME IInv, NEW c \in Chains
  PROVE  LET base == ResumePoint(ForkPoint(cs.chain, c), c)
         IN  /\ Good(base)
             /\ Len(base.chain) \in 1..Len(c)
             /\ base.chain = SubSeq(c, 1, Len(base.chain))
<1> DEFINE f == ForkPoint(cs.chain, c)
           d == cs.chain
           base == ResumePoint(f, c)
           e == cache[f - 1]
           cached == [chain |-> SubSeq(c, 1, f), st |-> e.st, proven |-> e.proven]
<1>1. /\ c \in Seq(Block) /\ Len(c) \in 1..MaxChain /\ c # << >> /\ c[1] = Genesis
      /\ Good(cs) /\ d \in Seq(Block) /\ Len(d) \in Nat /\ Len(d) > 0
  BY ChainFacts DEF IInv, MemoryGood, Good, IsChain
<1>2. f \in 0..Len(c) /\ f \in 0..Len(d)
  BY <1>1, ForkPointProperties
<1>3. f > 0 => SubSeq(d, 1, f) = SubSeq(c, 1, f)
  <2> SUFFICES ASSUME f > 0 PROVE SubSeq(d, 1, f) = SubSeq(c, 1, f)
    OBVIOUS
  <2>1. f \in 1..ForkPoint(d, c)
    BY <1>2
  <2> QED BY <1>1, <2>1, SharedPrefix
<1>4. base = IF f = Len(d) THEN cs
             ELSE IF f > 1 /\ e # NoEntry THEN cached ELSE FromGenesis
  BY DEF ResumePoint
<1> HIDE DEF f, base
<1>5. CASE f = Len(d)
  <2>1. base = cs /\ SubSeq(d, 1, Len(d)) = d
    BY <1>1, <1>4, <1>5, SubSeqFull
  <2> QED
    BY <1>1, <1>2, <1>3, <1>5, <2>1 DEF base, f
<1>6. CASE f # Len(d) /\ f > 1 /\ e # NoEntry
  <2>1. base = cached
    BY <1>4, <1>6
  <2>2. f - 1 \in Heights /\ f - 1 + 1 = f
    BY <1>1, <1>2, <1>6, BlockAssumption DEF Heights
  <2>3. e \in Entry
    BY <1>6, <2>2 DEF IInv, TypeOK
  <2>4. IsLedgerOf(e.st.rows, e.st.minted, SubSeq(d, 1, f))
        /\ e.proven = ProvenBlocks(SubSeq(d, 1, f))
    BY <1>6, <2>2 DEF IInv, CacheGood, Fits
  <2>5. SubSeq(c, 1, f) \in Chains
    BY <1>2, <1>6, PrefixIsChain
  <2>6. SubSeq(c, 1, f) \in Seq(Block) /\ Len(SubSeq(c, 1, f)) = f
    <3>1. \A i \in 1..f : c[i] \in Block
      BY <1>1, <1>2
    <3>2. f \in Int /\ 1 <= f
      BY <1>2, <1>6
    <3> QED BY <3>1, <3>2, SubSeqProperties
  <2> HIDE DEF e
  <2>7. cached \in ChainState /\ cached.chain = SubSeq(c, 1, f)
        /\ cached.st = e.st /\ cached.proven = e.proven
    BY <2>3, <2>6 DEF Entry, ChainState
  <2> HIDE DEF cached
  <2>8. Good(cached)
    <3>1. SubSeq(d, 1, f) = SubSeq(c, 1, f)
      BY <1>2, <1>3, <1>6
    <3>2. IsLedgerOf(cached.st.rows, cached.st.minted, cached.chain)
          /\ cached.proven = ProvenBlocks(cached.chain)
      BY <2>4, <2>7, <3>1
    <3> QED BY <2>5, <2>7, <3>2 DEF Good
  <2> QED
    BY <1>2, <1>6, <2>1, <2>6, <2>7, <2>8 DEF base, f
<1>7. CASE f # Len(d) /\ ~ (f > 1 /\ e # NoEntry)
  <2>1. base = FromGenesis /\ base.chain = <<Genesis>>
    BY <1>4, <1>7 DEF FromGenesis
  <2>2. Len(<<Genesis>>) = 1
    OBVIOUS
  <2>3. SubSeq(c, 1, 1) = <<Genesis>>
    <3>1. 1 \in 1..Len(c)
      BY <1>1
    <3>2. SubSeq(c, 1, 1) = <<c[1]>> \o SubSeq(c, 2, 1)
      BY <1>1, <3>1, SubSeqRecursiveFirst
    <3>3. SubSeq(c, 2, 1) = << >>
      BY SubSeqEmpty
    <3>4. <<Genesis>> \o << >> = <<Genesis>>
      OBVIOUS
    <3> QED BY <1>1, <3>2, <3>3, <3>4
  <2> QED
    BY <1>1, <2>1, <2>2, <2>3, FromGenesisGood DEF base, f
<1> QED
  BY <1>5, <1>6, <1>7

\* Beginning to judge a chain keeps the invariant.
LEMMA EvaluateStep ==
  ASSUME NEW c \in Chains
  PROVE  IInv /\ Evaluate(c) => IInv'
<1> SUFFICES ASSUME IInv, Evaluate(c) PROVE IInv'
  OBVIOUS
<1> DEFINE base == ResumePoint(ForkPoint(cs.chain, c), c)
           k == Len(base.chain)
<1>1. /\ rcs' = base /\ todo' = SubSeq(c, k + 1, Len(c))
      /\ pc = "idle" /\ pc' = "replay"
      /\ UNCHANGED <<cs, view, cache, disk, crashes, fails>>
  BY DEF Evaluate
<1>2. Good(base) /\ k \in 1..Len(c) /\ base.chain = SubSeq(c, 1, k)
  BY ResumeGood
<1> HIDE DEF base, k
<1>3. c \in Seq(Block) /\ Len(c) \in Nat
  BY ChainFacts
<1>4. todo' \in Seq(Block)
  <2>1. \A i \in (k + 1)..Len(c) : c[i] \in Block
    BY <1>2, <1>3
  <2> QED BY <1>1, <1>2, <1>3, <2>1, SubSeqProperties
<1>5. rcs'.chain \o todo' = c
  <2>1. 1 \in 1..(Len(c) + 1) /\ k \in (1 - 1)..Len(c) /\ Len(c) \in k..Len(c)
    BY <1>2, <1>3
  <2>2. SubSeq(c, 1, k) \o SubSeq(c, k + 1, Len(c)) = SubSeq(c, 1, Len(c))
    BY <1>3, <2>1, ConcatAdjacentSubSeq
  <2> QED BY <1>1, <1>2, <1>3, <2>2, SubSeqFull
<1>6. Good(cs)' /\ Good(rcs)'
  BY <1>1, <1>2 DEF IInv, MemoryGood, Good
<1>7. CandidateGood' /\ DiskGood' /\ RowsGood' /\ ViewGood' /\ BetterGood'
  BY <1>1, <1>5
     DEF IInv, CandidateGood, DiskGood, RowsGood, ViewGood, BetterGood,
         OnDisk, Covers
<1>8. CacheGood'
  BY <1>1 DEF IInv, CacheGood
<1>9. TypeOK'
  BY <1>1, <1>4, <1>6 DEF IInv, TypeOK, Good
<1> QED
  BY <1>6, <1>7, <1>8, <1>9 DEF IInv, MemoryGood

\* is_better_than, whichever way it decides, keeps the invariant.
LEMMA JudgeStep == IInv /\ Judge => IInv'
<1> SUFFICES ASSUME IInv, Judge PROVE IInv'
  OBVIOUS
<1>1. /\ pc = "replay" /\ todo = << >>
      /\ UNCHANGED <<cs, view, cache, todo, disk, crashes, fails>>
      /\ \/ /\ pc' = "replace" /\ rcs' = rcs
            /\ BetterBy(rcs.chain, rcs.proven, cs.chain, cs.proven)
         \/ pc' = "idle" /\ rcs' = FromGenesis
  BY DEF Judge
<1>2. Good(cs)' /\ Good(rcs)'
  BY <1>1, FromGenesisGood DEF IInv, MemoryGood, Good
<1>3. BetterGood'
  BY <1>1 DEF IInv, MemoryGood, Good, BetterGood, IsBetter
<1>4. CandidateGood' /\ DiskGood' /\ RowsGood' /\ ViewGood'
  BY <1>1 DEF IInv, CandidateGood, DiskGood, RowsGood, ViewGood, OnDisk, Covers
<1>5. CacheGood' /\ TypeOK'
  BY <1>1, <1>2 DEF IInv, CacheGood, TypeOK, Good
<1> QED
  BY <1>2, <1>3, <1>4, <1>5 DEF IInv, MemoryGood

\* replace_chain_and_state keeps the invariant.
LEMMA ReplaceStep == IInv /\ Replace => IInv'
<1> SUFFICES ASSUME IInv, Replace PROVE IInv'
  OBVIOUS
<1> DEFINE f == ForkPoint(cs.chain, rcs.chain)
           c == rcs.chain
<1>1. /\ disk' = ReplacedChain(disk, f, rcs) /\ rcs' = Persisted(rcs)
      /\ pc = "replace" /\ pc' = "swap"
      /\ UNCHANGED <<cs, view, cache, todo, crashes, fails>>
  BY DEF Replace
<1>2. /\ Good(cs) /\ Good(rcs) /\ cs.chain \in Seq(Block) /\ c \in Seq(Block)
      /\ Len(c) \in 1..MaxChain /\ disk \in Tables /\ OnDisk(cs.chain)
      /\ rcs.st.rows \in [Addr -> Row] /\ rcs.st.minted \in SUBSET Block
  BY <1>1, ChainFacts
     DEF IInv, MemoryGood, DiskGood, Good, ChainState, State, TypeOK
<1>3. /\ f \in 0..Len(cs.chain) /\ f \in 0..Len(c)
      /\ \A j \in 1..f : cs.chain[j] = c[j]
  BY <1>2, ForkPointProperties
<1>4. /\ Good(cs)' /\ Good(rcs)' /\ rcs'.chain = c /\ rcs'.st.rows = rcs.st.rows
  BY <1>1, <1>2, PersistedGood DEF Good
<1>5. /\ disk'.block = [h \in Heights |-> IF h < f THEN disk.block[h]
                                          ELSE IF h < Len(c) THEN c[h + 1]
                                          ELSE NoBlock]
      /\ disk'.rows = rcs.st.rows /\ disk'.minted = rcs.st.minted
      /\ disk' = [block |-> disk'.block, rows |-> disk'.rows,
                  minted |-> disk'.minted]
  BY <1>1 DEF ReplacedChain
<1> HIDE DEF f, c
<1>6. Holds(disk', c)
  <2> SUFFICES ASSUME NEW h \in Heights
               PROVE  disk'.block[h] = IF h < Len(c) THEN c[h + 1] ELSE NoBlock
    BY DEF Holds
  <2>1. h \in Nat
    BY DEF Heights
  <2>2. CASE h < f
    <3>1. h + 1 \in 1..f /\ h < Len(c) /\ h < Len(cs.chain)
      BY <1>2, <1>3, <2>1, <2>2
    <3>2. disk.block[h] = cs.chain[h + 1]
      BY <1>2, <3>1 DEF OnDisk, Holds
    <3> QED BY <1>3, <1>5, <2>2, <3>1, <3>2
  <2>3. CASE ~ (h < f)
    BY <1>5, <2>3
  <2> QED BY <2>2, <2>3
<1>7. disk' \in Tables
  <2>1. \A h \in Heights : disk'.block[h] \in Block \cup {NoBlock}
    <3> SUFFICES ASSUME NEW h \in Heights
                 PROVE  disk'.block[h] \in Block \cup {NoBlock}
      OBVIOUS
    <3>1. h < Len(c) => c[h + 1] \in Block
      BY <1>2 DEF Heights
    <3> QED BY <1>6, <3>1 DEF Holds
  <2>2. disk'.block \in [Heights -> Block \cup {NoBlock}]
    BY <1>5, <2>1
  <2> QED BY <1>2, <1>5, <2>2 DEF Tables
<1>8. OnDisk(rcs.chain)'
  <2>1. IsLedgerOf(rcs.st.rows, rcs.st.minted, c)
    BY <1>2 DEF Good, c
  <2> QED BY <1>4, <1>5, <1>6, <2>1 DEF OnDisk
<1>9. CandidateGood' /\ DiskGood' /\ RowsGood' /\ ViewGood' /\ BetterGood'
  BY <1>1, <1>4, <1>5, <1>8
     DEF IInv, CandidateGood, DiskGood, RowsGood, ViewGood, BetterGood, c
<1>10. CacheGood' /\ TypeOK'
  BY <1>1, <1>4, <1>7 DEF IInv, CacheGood, TypeOK, Good
<1> QED
  BY <1>4, <1>9, <1>10 DEF IInv, MemoryGood

\* A replacement that raises keeps the invariant.
LEMMA ReplaceFailsStep == IInv /\ ReplaceFails => IInv'
<1> SUFFICES ASSUME IInv, ReplaceFails PROVE IInv'
  OBVIOUS
<1>1. /\ pc = "replace" /\ pc' = "idle" /\ rcs' = FromGenesis
      /\ UNCHANGED <<cs, view, cache, todo, disk, crashes, fails>>
  BY DEF ReplaceFails
<1>2. Good(cs)' /\ Good(rcs)'
  BY <1>1, FromGenesisGood DEF IInv, MemoryGood, Good
<1>3. CandidateGood' /\ DiskGood' /\ RowsGood' /\ ViewGood' /\ BetterGood'
  BY <1>1 DEF IInv, CandidateGood, DiskGood, RowsGood, ViewGood, BetterGood,
              OnDisk, Covers
<1>4. CacheGood' /\ TypeOK'
  BY <1>1, <1>2 DEF IInv, CacheGood, TypeOK, Good
<1> QED
  BY <1>2, <1>3, <1>4 DEF IInv, MemoryGood

\* The exchange of self.cs and the cache keeps the invariant.
LEMMA SwapStep == IInv /\ Swap => IInv'
<1> SUFFICES ASSUME IInv, Swap PROVE IInv'
  OBVIOUS
<1> DEFINE f == ForkPoint(cs.chain, rcs.chain)
           kept == Forget(cache, f)
           c == rcs.chain
<1>1. /\ cache' = Remember(kept, rcs) /\ cs' = rcs /\ view' = c
      /\ rcs' = FromGenesis /\ pc = "swap" /\ pc' = "idle"
      /\ UNCHANGED <<todo, disk, crashes, fails>>
  BY DEF Swap
<1>2. /\ Good(rcs) /\ cs.chain \in Seq(Block) /\ c \in Seq(Block)
      /\ cache \in Cache /\ Fits(cache, cs.chain)
  BY ChainFacts
     DEF IInv, MemoryGood, Good, ChainState, TypeOK, CacheGood, Cache
<1>3. f \in Nat /\ f <= Len(c)
  BY <1>2, ForkPointProperties
<1>4. /\ kept \in Cache /\ Fits(kept, cs.chain)
      /\ \A h \in Heights : kept[h] # NoEntry => h < f
  BY <1>2, <1>3, ForgetFits
<1> HIDE DEF kept
<1>5. ASSUME NEW h \in Heights, kept[h] # NoEntry
      PROVE  h < Len(c) /\ SubSeq(cs.chain, 1, h + 1) = SubSeq(c, 1, h + 1)
  <2>1. h < f /\ h \in Nat
    BY <1>4, <1>5 DEF Heights
  <2>2. h + 1 \in 1..ForkPoint(cs.chain, c) /\ h < Len(c)
    BY <1>2, <1>3, <2>1
  <2> QED
    BY <1>2, <2>2, SharedPrefix
<1>6. Fits(kept, c)
  BY <1>4, <1>5, FitsOther
<1>7. cache' \in Cache /\ Fits(cache', c)
  BY <1>1, <1>2, <1>4, <1>6, RememberFits
<1>8. Good(cs)' /\ Good(rcs)'
  BY <1>1, <1>2, FromGenesisGood DEF Good
<1>9. OnDisk(cs.chain)' /\ Covers(cs)'
  BY <1>1 DEF IInv, DiskGood, RowsGood, OnDisk, Covers
<1>10. CandidateGood' /\ DiskGood' /\ RowsGood' /\ ViewGood' /\ BetterGood'
  BY <1>1, <1>9
     DEF IInv, CandidateGood, DiskGood, RowsGood, ViewGood, BetterGood
<1>11. CacheGood' /\ TypeOK'
  BY <1>1, <1>2, <1>7, <1>8 DEF IInv, CacheGood, TypeOK, Good, Cache
<1> QED
  BY <1>8, <1>10, <1>11 DEF IInv, MemoryGood

\* A crash keeps the invariant.
LEMMA CrashStep == IInv /\ Crash => IInv'
<1> SUFFICES ASSUME IInv, Crash PROVE IInv'
  OBVIOUS
<1>1. /\ pc # "down" /\ pc' = "down" /\ crashes < MaxCrashes
      /\ cs' = FromGenesis /\ rcs' = FromGenesis /\ view' = << >>
      /\ cache' = EmptyCache /\ todo' = << >> /\ crashes' = crashes + 1
      /\ UNCHANGED <<disk, fails>>
  BY DEF Crash
<1>2. Good(cs)' /\ Good(rcs)'
  BY <1>1, FromGenesisGood DEF Good
<1>3. \E c \in Chains : OnDisk(c)
  <2>1. cs.chain \in Chains /\ rcs.chain \in Chains
    BY DEF IInv, MemoryGood, Good
  <2>2. CASE pc = "load"
    BY <2>2 DEF IInv, CandidateGood, DiskGood
  <2>3. CASE pc \in {"idle", "publish", "replay", "replace"}
    BY <2>1, <2>3 DEF IInv, DiskGood
  <2>4. CASE pc = "swap"
    BY <2>1, <2>4 DEF IInv, DiskGood
  <2>5. CASE pc = "save"
    <3>1. Len(cs.chain) > 1 /\ OnDisk(AllButTip(cs.chain))
      BY <2>5 DEF IInv, DiskGood
    <3>2. Len(cs.chain) - 1 \in 1..Len(cs.chain)
      BY <2>1, <3>1, ChainFacts
    <3>3. AllButTip(cs.chain) \in Chains
      BY <2>1, <3>2, PrefixIsChain DEF AllButTip
    <3> QED BY <3>1, <3>3
  <2> QED
    BY <1>1, <2>2, <2>3, <2>4, <2>5 DEF IInv, TypeOK
<1>4. CandidateGood' /\ DiskGood' /\ RowsGood' /\ ViewGood' /\ BetterGood'
  BY <1>1, <1>3 DEF CandidateGood, DiskGood, RowsGood, ViewGood, BetterGood, OnDisk
<1>5. CacheGood'
  BY <1>1, EmptyCacheFits DEF CacheGood
<1>6. TypeOK'
  <2>1. cache' \in Cache
    BY <1>1, EmptyCacheFits
  <2>2. crashes' \in 0..MaxCrashes
    BY <1>1, StoreAssumption DEF IInv, TypeOK
  <2> QED BY <1>1, <1>2, <2>1, <2>2 DEF IInv, TypeOK, Good, Cache
<1> QED
  BY <1>2, <1>4, <1>5, <1>6 DEF IInv, MemoryGood

\* A step that changes nothing keeps the invariant.
LEMMA StutterStep == IInv /\ UNCHANGED vars => IInv'
<1> SUFFICES ASSUME IInv, UNCHANGED vars PROVE IInv'
  OBVIOUS
<1>1. UNCHANGED <<pc, cs, view, cache, rcs, todo, disk, crashes, fails>>
  BY DEF vars
<1>2. TypeOK' /\ MemoryGood' /\ CandidateGood' /\ CacheGood' /\ ViewGood'
  BY <1>1 DEF IInv, TypeOK, MemoryGood, Good, CandidateGood, CacheGood, ViewGood
<1>3. DiskGood' /\ RowsGood' /\ BetterGood'
  BY <1>1 DEF IInv, DiskGood, OnDisk, RowsGood, Covers, BetterGood
<1> QED
  BY <1>2, <1>3 DEF IInv

\* The inductive invariant holds in every reachable state: one lemma per action
\* of the node loop, the crash included.
THEOREM IInvIsInvariant == Spec => []IInv
<1>1. Init => IInv
  BY InitIInv
<1>2. IInv /\ [Next]_vars => IInv'
  <2> SUFFICES ASSUME IInv, [Next]_vars PROVE IInv'
    OBVIOUS
  <2>1. CASE StartFresh
    BY <2>1, StartFreshStep
  <2>2. CASE StartFromState
    BY <2>2, StartFromStateStep
  <2>3. CASE StartReplay
    BY <2>3, StartReplayStep
  <2>4. CASE ApplyNext
    BY <2>4, ApplyNextStep
  <2>5. CASE Loaded
    BY <2>5, LoadedStep
  <2>6. CASE \E b \in Block : CommitInMemory(b)
    BY <2>6, CommitInMemoryStep
  <2>7. CASE Save
    BY <2>7, SaveStep
  <2>8. CASE Publish
    BY <2>8, PublishStep
  <2>9. CASE \E c \in Chains : Evaluate(c)
    BY <2>9, EvaluateStep
  <2>10. CASE Judge
    BY <2>10, JudgeStep
  <2>11. CASE Replace
    BY <2>11, ReplaceStep
  <2>12. CASE ReplaceFails
    BY <2>12, ReplaceFailsStep
  <2>13. CASE Swap
    BY <2>13, SwapStep
  <2>14. CASE Crash
    BY <2>14, CrashStep
  <2>15. CASE UNCHANGED vars
    BY <2>15, StutterStep
  <2> QED
    BY <2>1, <2>2, <2>3, <2>4, <2>5, <2>6, <2>7, <2>8, <2>9, <2>10, <2>11,
       <2>12, <2>13, <2>14, <2>15 DEF Next
<1> QED
  BY <1>1, <1>2, PTL DEF Spec

-----------------------------------------------------------------------------
(* What the invariant gives *)

\* load_all_blocks returns the chain the tables hold.
LEMMA LoadedNow ==
  ASSUME IInv, NEW c \in Chains, OnDisk(c)
  PROVE  /\ LoadedChain(disk) = c /\ Stored(disk) = 0..(Len(c) - 1)
         /\ IsLedgerOf(disk.rows, disk.minted, c)
<1>1. c \in Seq(Block) /\ Len(c) <= MaxChain
  BY ChainFacts, BlockAssumption
<1> QED
  BY <1>1, LoadedHolds DEF OnDisk

\* A chain without its tip is a chain.
LEMMA AllButTipIsChain ==
  ASSUME NEW c \in Chains, Len(c) > 1
  PROVE  AllButTip(c) \in Chains
<1>1. Len(c) - 1 \in 1..Len(c)
  BY ChainFacts
<1> QED
  BY <1>1, PrefixIsChain DEF AllButTip

\* At any point of the node loop the tables hold some chain, or nothing yet.
LEMMA SomethingOnDisk ==
  ASSUME IInv
  PROVE  Stored(disk) # {} => \E c \in Chains : OnDisk(c)
<1>1. cs.chain \in Chains /\ rcs.chain \in Chains
  BY DEF IInv, MemoryGood, Good
<1>2. CASE pc = "down"
  BY <1>2, DiskWhileDown
<1>3. CASE pc = "load"
  BY <1>3 DEF IInv, CandidateGood, DiskGood
<1>4. CASE pc \in {"idle", "publish", "replay", "replace"}
  BY <1>1, <1>4 DEF IInv, DiskGood
<1>5. CASE pc = "swap"
  BY <1>1, <1>5 DEF IInv, DiskGood
<1>6. CASE pc = "save"
  BY <1>1, <1>6, AllButTipIsChain DEF IInv, DiskGood
<1> QED
  BY <1>2, <1>3, <1>4, <1>5, <1>6 DEF IInv, TypeOK

\* The invariant says enough of the tables for DiskWhole.
LEMMA IInvDiskWhole == IInv => DiskWhole
<1> SUFFICES ASSUME IInv, Stored(disk) # {}
             PROVE  /\ \E n \in 1..MaxChain : Stored(disk) = 0..(n - 1)
                    /\ IsChain(LoadedChain(disk))
                    /\ IsLedgerOf(disk.rows, disk.minted, LoadedChain(disk))
  BY DEF DiskWhole
<1>1. PICK c \in Chains : OnDisk(c)
  BY SomethingOnDisk
<1>2. /\ LoadedChain(disk) = c /\ Stored(disk) = 0..(Len(c) - 1)
      /\ IsLedgerOf(disk.rows, disk.minted, c)
  BY <1>1, LoadedNow
<1>3. Len(c) \in 1..MaxChain /\ IsChain(c)
  BY ChainFacts
<1> QED
  BY <1>2, <1>3

\* The invariant says enough of the view for ViewDurable.
LEMMA IInvViewDurable == IInv => ViewDurable
<1> SUFFICES ASSUME IInv, Running
             PROVE  CASE pc = "publish" ->
                           LoadedChain(disk) = cs.chain
                           /\ view = SubSeq(cs.chain, 1, Len(cs.chain) - 1)
                      [] pc = "swap" -> LoadedChain(disk) = rcs.chain
                                        /\ view = cs.chain
                      [] OTHER -> LoadedChain(disk) = view
  BY DEF ViewDurable
<1>1. cs.chain \in Chains /\ rcs.chain \in Chains
  BY DEF IInv, MemoryGood, Good
<1>2. CASE pc = "publish"
  <2>1. LoadedChain(disk) = cs.chain
    BY <1>1, <1>2, LoadedNow DEF IInv, DiskGood
  <2> QED BY <1>2, <2>1 DEF IInv, ViewGood, AllButTip
<1>3. CASE pc = "swap"
  <2>1. LoadedChain(disk) = rcs.chain
    BY <1>1, <1>3, LoadedNow DEF IInv, DiskGood
  <2> QED BY <1>3, <2>1 DEF IInv, ViewGood
<1>4. CASE pc \in {"idle", "replay", "replace"}
  <2>1. LoadedChain(disk) = cs.chain
    BY <1>1, <1>4, LoadedNow DEF IInv, DiskGood
  <2> QED BY <1>4, <2>1 DEF IInv, ViewGood
<1>5. CASE pc = "save"
  <2>1. AllButTip(cs.chain) \in Chains /\ OnDisk(AllButTip(cs.chain))
    BY <1>1, <1>5, AllButTipIsChain DEF IInv, DiskGood
  <2>2. LoadedChain(disk) = AllButTip(cs.chain)
    BY <2>1, LoadedNow
  <2> QED BY <1>5, <2>2 DEF IInv, ViewGood
<1> QED
  BY <1>2, <1>3, <1>4, <1>5 DEF IInv, TypeOK, Running

\* Every variable stays in its type.
THEOREM TypeCorrect == Spec => []TypeOK
<1>1. IInv => TypeOK
  BY DEF IInv
<1> QED
  BY <1>1, IInvIsInvariant, PTL

\* Chain and state in memory are consistent with each other, however the node
\* came by them: by committing, by resuming a reorganisation from memory, from
\* a cached state or from genesis, by loading the State table or by a replay.
THEOREM StateIsReplayHolds == Spec => []StateIsReplay
<1>1. IInv => StateIsReplay
  BY DEF IInv, MemoryGood, Good, StateIsReplay
<1> QED
  BY <1>1, IInvIsInvariant, PTL

\* No cached state outlives the branch it belongs to.
THEOREM CacheIsPrefixHolds == Spec => []CacheIsPrefix
<1>1. IInv => CacheIsPrefix
  BY DEF IInv, CacheGood, Fits, CacheIsPrefix
<1> QED
  BY <1>1, IInvIsInvariant, PTL

\* The delta of the next save covers whatever the State table lacks.
THEOREM DirtyCoversHolds == Spec => []DirtyCovers
<1>1. IInv => DirtyCovers
  BY DEF IInv, TypeOK, RowsGood, Covers, DirtyCovers, Running
<1> QED
  BY <1>1, IInvIsInvariant, PTL

\* A crash at any instant finds a whole chain and its own ledger.
THEOREM DiskWholeHolds == Spec => []DiskWhole
BY IInvDiskWhole, IInvIsInvariant, PTL

\* Other threads never see a block that a crash would take back.
THEOREM ViewDurableHolds == Spec => []ViewDurable
BY IInvViewDurable, IInvIsInvariant, PTL

-----------------------------------------------------------------------------
(* Refinement *)

\* The first state of the tables is the empty chain.
LEMMA InitImplements == Init => Abstract!Init
<1> SUFFICES ASSUME Init PROVE LoadedChain(disk) = << >>
  BY DEF Abstract!Init
<1>1. Holds(disk, << >>)
  BY DEF Init, Holds, Heights
<1>2. << >> \in Seq(Block) /\ Len(<< >>) <= MaxChain
  BY BlockAssumption
<1> QED
  BY <1>1, <1>2, LoadedHolds

\* Every step of the loop is a step of DurableChain or leaves the stored chain.
LEMMA StepImplements ==
  IInv /\ IInv' /\ [Next]_vars => [Abstract!Next]_(LoadedChain(disk))
<1> SUFFICES ASSUME IInv, IInv', [Next]_vars
             PROVE  Abstract!Next \/ LoadedChain(disk)' = LoadedChain(disk)
  OBVIOUS
<1>1. /\ cs.chain \in Chains /\ rcs.chain \in Chains
      /\ cs'.chain \in Chains /\ rcs'.chain \in Chains
  BY DEF IInv, MemoryGood, Good
<1>2. CASE StartFresh
  <2>1. LoadedChain(disk) = << >>
    <3>1. Holds(disk, << >>)
      BY <1>2, DiskWhileDown DEF StartFresh, OnDisk
    <3>2. << >> \in Seq(Block) /\ Len(<< >>) <= MaxChain
      BY BlockAssumption
    <3> QED BY <3>1, <3>2, LoadedHolds
  <2>2. LoadedChain(disk') = <<Genesis>>
    <3>1. Holds(disk', cs'.chain) /\ cs'.chain = <<Genesis>>
      BY <1>2 DEF StartFresh, IInv, DiskGood, OnDisk, FromGenesis
    <3>2. cs'.chain \in Seq(Block) /\ Len(cs'.chain) <= MaxChain
      BY <1>1, ChainFacts, BlockAssumption
    <3> QED BY <3>1, <3>2, LoadedHolds
  <2> QED BY <2>1, <2>2 DEF Abstract!Next, Abstract!Create
<1>3. CASE Save
  <2>1. /\ pc = "save" /\ pc' = "publish" /\ cs'.chain = cs.chain
    BY <1>3, PersistedGood DEF Save, IInv, MemoryGood
  <2>2. LoadedChain(disk) = AllButTip(cs.chain) /\ Len(cs.chain) > 1
    <3>1. Len(cs.chain) > 1 /\ OnDisk(AllButTip(cs.chain))
      BY <2>1 DEF IInv, DiskGood
    <3> QED BY <1>1, <3>1, AllButTipIsChain, LoadedNow
  <2>3. LoadedChain(disk') = cs.chain
    <3>1. Holds(disk', cs'.chain)
      BY <2>1 DEF IInv, DiskGood, OnDisk
    <3>2. cs'.chain \in Seq(Block) /\ Len(cs'.chain) <= MaxChain
      BY <1>1, ChainFacts, BlockAssumption
    <3> QED BY <2>1, <3>1, <3>2, LoadedHolds
  <2> QED BY <1>1, <2>2, <2>3 DEF Abstract!Next, Abstract!Extend, AllButTip
<1>4. CASE Replace
  <2>1. /\ pc = "replace" /\ pc' = "swap" /\ rcs'.chain = rcs.chain
    BY <1>4, PersistedGood DEF Replace, IInv, MemoryGood
  <2>2. LoadedChain(disk) = cs.chain
    BY <1>1, <2>1, LoadedNow DEF IInv, DiskGood
  <2>3. LoadedChain(disk') = rcs.chain
    <3>1. Holds(disk', rcs'.chain)
      BY <2>1 DEF IInv, DiskGood, OnDisk
    <3>2. rcs'.chain \in Seq(Block) /\ Len(rcs'.chain) <= MaxChain
      BY <1>1, ChainFacts, BlockAssumption
    <3> QED BY <2>1, <3>1, <3>2, LoadedHolds
  <2>4. IsBetter(rcs.chain, cs.chain)
    BY <2>1 DEF IInv, BetterGood
  <2> QED BY <1>1, <2>2, <2>3, <2>4 DEF Abstract!Next, Abstract!Switch
<1>5. CASE disk' = disk
  BY <1>5
<1> QED
  BY <1>2, <1>3, <1>4, <1>5
     DEF Next, vars, StartFromState, StartReplay, ApplyNext, Loaded,
         CommitInMemory, Publish, Evaluate, Judge, ReplaceFails, Swap, Crash

\* The stored chain is created, extended by a valid block or exchanged for a
\* better chain, and nothing else: memory, crashes and restarts do not show.
THEOREM ChainStoreImplements == Spec => Implements
<1>1. Spec => Abstract!Init /\ [][Abstract!Next]_(LoadedChain(disk))
  BY InitImplements, StepImplements, IInvIsInvariant, PTL DEF Spec
<1> QED
  BY <1>1 DEF Implements, Abstract!Spec
=============================================================================
