----------------------------- MODULE ChainStore -----------------------------
(***************************************************************************)
(* The chain of one node in memory and on disk: Node._commit,              *)
(* Node.apply_better_chain, Node._load_cs (src/src/node.py) with           *)
(* ChainState (chainstate.py), State's dirty set (state.py) and            *)
(* Storage (storage.py).                                                   *)
(*                                                                         *)
(* The ledger is kept as one row per address.  What a row holds after a    *)
(* chain is fixed by the last block of the chain that touched the address  *)
(* (a block commits to its whole ancestry), so that block stands for the   *)
(* row's balance and nonce, and the set of blocks whose rewards were       *)
(* minted stands for total_minted and total_board_posts.                   *)
(*                                                                         *)
(* Each step of pc is a place where the process can die or an exception    *)
(* can leave the function; blocks of a tail are applied one step each.     *)
(***************************************************************************)
EXTENDS ForkChoice

CONSTANTS Addr,        \* addresses of the ledger
          Touch,       \* Touch[b]: addresses whose balance or nonce b moves
          CacheSize,   \* RECENT_STATE_CACHE_SIZE
          NoRow,       \* an address without a row
          NoBlock,     \* a height without a row in the Block table
          NoEntry,     \* a height the cache does not hold
          MaxCrashes,  \* bound: crashes of the process
          MaxFails     \* bound: save_block_and_state raising

\* Every block but genesis pays its builder, so it touches somebody.
ASSUME StoreAssumption ==
  /\ Touch \in [Block -> SUBSET Addr]
  /\ Touch[Genesis] = {}
  /\ \A b \in Block \ {Genesis} : Touch[b] # {}
  /\ CacheSize \in Nat \ {0}
  /\ NoRow \notin Block /\ NoBlock \notin Block
  /\ NoEntry \notin [st : [rows : [Addr -> Block \cup {NoRow}],
                           minted : SUBSET Block, dirty : SUBSET Addr],
                     proven : SUBSET Block]
  /\ MaxCrashes \in Nat /\ MaxFails \in Nat

VARIABLES
  pc,       \* where the node loop is
  cs,       \* Node.cs: chain, state and the proven blocks it counts
  view,     \* Node.view.chain: what every other thread reads
  cache,    \* Node._recent_states, by height
  rcs,      \* remote_cs, the candidate being built, and
  todo,     \* the blocks of it still to be applied
  disk,     \* the Block, State and Emission tables
  crashes, fails

vars == <<pc, cs, view, cache, rcs, todo, disk, crashes, fails>>

Heights    == 0..(MaxChain - 1)
Row        == Block \cup {NoRow}
State      == [rows : [Addr -> Row], minted : SUBSET Block, dirty : SUBSET Addr]
ChainState == [chain : Seq(Block), st : State, proven : SUBSET Block]
Entry      == [st : State, proven : SUBSET Block]
Tables     == [block : [Heights -> Block \cup {NoBlock}],
               rows : [Addr -> Row], minted : SUBSET Block]

TypeOK ==
  /\ pc \in {"down", "load", "idle", "save", "publish",
             "replay", "replace", "swap"}
  /\ cs \in ChainState
  /\ view \in Seq(Block)
  /\ cache \in [Heights -> Entry \cup {NoEntry}]
  /\ rcs \in ChainState
  /\ todo \in Seq(Block)
  /\ disk \in Tables
  /\ crashes \in 0..MaxCrashes /\ fails \in 0..MaxFails

-----------------------------------------------------------------------------
(* ChainState and State *)

EmptyRows  == [a \in Addr |-> NoRow]
EmptyState == [rows |-> EmptyRows, minted |-> {}, dirty |-> {}]
EmptyCache == [h \in Heights |-> NoEntry]

\* ChainState.from_genesis.
FromGenesis == [chain |-> <<Genesis>>, st |-> EmptyState, proven |-> {}]

\* Mutant of ApplyBlock: balances are written past the dirty set.
ApplyBlockUnmarked(c, b) ==
  [chain  |-> Append(c.chain, b),
   st     |-> [rows   |-> [a \in Addr |-> IF a \in Touch[b] THEN b
                                          ELSE c.st.rows[a]],
               minted |-> c.st.minted \cup {b},
               dirty  |-> c.st.dirty],
   proven |-> c.proven \cup {b}]

\* apply_block and validate_and_apply: a copy of the state with the block's
\* transactions, fees and reward applied; self is left as it was.
ApplyBlock(c, b) ==
  [chain  |-> Append(c.chain, b),
   st     |-> [rows   |-> [a \in Addr |-> IF a \in Touch[b] THEN b
                                          ELSE c.st.rows[a]],
               minted |-> c.st.minted \cup {b},
               dirty  |-> c.st.dirty \cup Touch[b]],
   proven |-> c.proven \cup {b}]

\* State.mark_persisted.
Persisted(c) == [c EXCEPT !.st.dirty = {}]

-----------------------------------------------------------------------------
(* The recent-state cache *)

HeightOf(c) == Height[Tip(c.chain)]

\* _remember_state: at most one entry is over the limit, and as heights only
\* grow between two calls of _forget_states_from, the oldest is the lowest.
Remember(ca, c) ==
  LET added == [ca EXCEPT ![HeightOf(c)] = [st |-> c.st, proven |-> c.proven]]
      held  == {h \in Heights : added[h] # NoEntry}
  IN  [h \in Heights |->
         IF Cardinality(held) > CacheSize /\ \A g \in held : h <= g
         THEN NoEntry ELSE added[h]]

\* Mutant of Forget: entries of the abandoned branch stay.
ForgetNothing(ca, fork) == ca

\* Mutant of Forget: an off-by-one, the height of the fork itself stays.
ForgetAbove(ca, fork) == [h \in Heights |-> IF h > fork THEN NoEntry ELSE ca[h]]

\* _forget_states_from.
Forget(ca, fork) == [h \in Heights |-> IF h >= fork THEN NoEntry ELSE ca[h]]

-----------------------------------------------------------------------------
(* Storage: each operator is one transaction *)

Stored(d) == {h \in Heights : d.block[h] # NoBlock}

\* load_all_blocks: the rows in the order of their heights, one after another
\* whether or not a height is missing in between.
LoadedChain(d) ==
  [i \in 1..Cardinality(Stored(d)) |->
     d.block[CHOOSE h \in Stored(d) :
               Cardinality({g \in Stored(d) : g < h}) = i - 1]]

\* state_exists
StateExists(d) == \E a \in Addr : d.rows[a] # NoRow

\* save_block_and_state: upsert the block, write the dirty rows, the emission.
SavedBlock(d, c) ==
  [block  |-> [d.block EXCEPT ![HeightOf(c)] = Tip(c.chain)],
   rows   |-> [a \in Addr |-> IF a \in c.st.dirty THEN c.st.rows[a]
                              ELSE d.rows[a]],
   minted |-> c.st.minted]

\* Mutant of ReplacedChain: blocks above the new tip are left in the table.
ReplacedChainUpsert(d, fork, c) ==
  [block  |-> [h \in Heights |-> IF fork <= h /\ h < Len(c.chain)
                                 THEN c.chain[h + 1] ELSE d.block[h]],
   rows   |-> c.st.rows,
   minted |-> c.st.minted]

\* replace_chain_and_state: rows from the fork point on are deleted, the tail's
\* are inserted, every state row is rewritten.
ReplacedChain(d, fork, c) ==
  [block  |-> [h \in Heights |-> IF h < fork THEN d.block[h]
                                 ELSE IF h < Len(c.chain) THEN c.chain[h + 1]
                                 ELSE NoBlock],
   rows   |-> c.st.rows,
   minted |-> c.st.minted]

-----------------------------------------------------------------------------
(* The node loop *)

Init ==
  /\ pc = "down"
  /\ cs = FromGenesis /\ rcs = FromGenesis /\ view = << >>
  /\ cache = EmptyCache /\ todo = << >>
  /\ disk = [block |-> [h \in Heights |-> NoBlock], rows |-> EmptyRows,
             minted |-> {}]
  /\ crashes = 0 /\ fails = 0

\* _load_cs on an empty database: genesis is created and saved.
StartFresh ==
  /\ pc = "down" /\ Stored(disk) = {}
  /\ disk' = [disk EXCEPT !.block[Height[Genesis]] = Genesis]
  /\ cs' = FromGenesis /\ view' = <<Genesis>>
  /\ pc' = "idle"
  /\ UNCHANGED <<cache, rcs, todo, crashes, fails>>

\* _load_cs, from_storage: balances and nonces come from the State table.
StartFromState ==
  /\ pc = "down" /\ Stored(disk) # {} /\ StateExists(disk)
  /\ LET loaded == LoadedChain(disk)
     IN  /\ cs' = [chain  |-> loaded,
                   st     |-> [rows |-> disk.rows, minted |-> disk.minted,
                               dirty |-> {}],
                   proven |-> ProvenBlocks(loaded)]
         /\ view' = loaded
  /\ pc' = "idle"
  /\ UNCHANGED <<cache, rcs, todo, disk, crashes, fails>>

\* _load_cs, from_chain: no state row yet, so the blocks are replayed.
StartReplay ==
  /\ pc = "down" /\ Stored(disk) # {} /\ ~ StateExists(disk)
  /\ rcs' = FromGenesis
  /\ todo' = Tail(LoadedChain(disk))
  /\ pc' = "load"
  /\ UNCHANGED <<cs, view, cache, disk, crashes, fails>>

\* One round of from_chain's or _evaluate_remote_chain's loop over the blocks.
ApplyNext ==
  /\ pc \in {"load", "replay"} /\ todo # << >>
  /\ rcs' = ApplyBlock(rcs, Head(todo))
  /\ todo' = Tail(todo)
  /\ UNCHANGED <<pc, cs, view, cache, disk, crashes, fails>>

Loaded ==
  /\ pc = "load" /\ todo = << >>
  /\ cs' = rcs /\ view' = rcs.chain
  /\ rcs' = FromGenesis
  /\ pc' = "idle"
  /\ UNCHANGED <<cache, todo, disk, crashes, fails>>

\* Mutant of CommitInMemory: the view is published before the block is saved.
CommitPublishing(b) ==
  /\ pc = "idle" /\ Len(cs.chain) < MaxChain /\ Extends(b, cs.chain)
  /\ cs' = ApplyBlock(cs, b)
  /\ cache' = Remember(cache, ApplyBlock(cs, b))
  /\ view' = Append(cs.chain, b)
  /\ pc' = "save"
  /\ UNCHANGED <<rcs, todo, disk, crashes, fails>>

\* _commit up to the storage call: self.cs and the cache have moved already.
CommitInMemory(b) ==
  /\ pc = "idle" /\ Len(cs.chain) < MaxChain /\ Extends(b, cs.chain)
  /\ cs' = ApplyBlock(cs, b)
  /\ cache' = Remember(cache, ApplyBlock(cs, b))
  /\ pc' = "save"
  /\ UNCHANGED <<view, rcs, todo, disk, crashes, fails>>

Save ==
  /\ pc = "save"
  /\ disk' = SavedBlock(disk, cs)
  /\ cs' = Persisted(cs)
  /\ pc' = "publish"
  /\ UNCHANGED <<view, cache, rcs, todo, crashes, fails>>

\* The rest of _commit.
Publish ==
  /\ pc = "publish"
  /\ view' = cs.chain
  /\ pc' = "idle"
  /\ UNCHANGED <<cs, cache, rcs, todo, disk, crashes, fails>>

\* _resume_point: memory, genesis, or a cached state; _validate_tail otherwise.
ResumePoint(fork, c) ==
  IF fork = Len(cs.chain) THEN cs
  ELSE IF fork > 1 /\ cache[fork - 1] # NoEntry
       THEN [chain |-> SubSeq(c, 1, fork), st |-> cache[fork - 1].st,
             proven |-> cache[fork - 1].proven]
       ELSE FromGenesis

\* apply_better_chain is handed a chain by the syncer or by _reorg_to_sibling.
Evaluate(c) ==
  /\ pc = "idle"
  /\ LET base == ResumePoint(ForkPoint(cs.chain, c), c)
     IN  /\ rcs' = base
         /\ todo' = SubSeq(c, Len(base.chain) + 1, Len(c))
  /\ pc' = "replay"
  /\ UNCHANGED <<cs, view, cache, disk, crashes, fails>>

\* Mutant of Judge: any chain of at least our work will do.
JudgeByWork ==
  /\ pc = "replay" /\ todo = << >>
  /\ IF Work(rcs.proven) >= Work(cs.proven)
     THEN pc' = "replace" /\ UNCHANGED rcs
     ELSE pc' = "idle" /\ rcs' = FromGenesis
  /\ UNCHANGED <<cs, view, cache, todo, disk, crashes, fails>>

\* is_better_than, and the return on "remote chain not better".
Judge ==
  /\ pc = "replay" /\ todo = << >>
  /\ IF BetterBy(rcs.chain, rcs.proven, cs.chain, cs.proven)
     THEN pc' = "replace" /\ UNCHANGED rcs
     ELSE pc' = "idle" /\ rcs' = FromGenesis
  /\ UNCHANGED <<cs, view, cache, todo, disk, crashes, fails>>

Replace ==
  /\ pc = "replace"
  /\ disk' = ReplacedChain(disk, ForkPoint(cs.chain, rcs.chain), rcs)
  /\ rcs' = Persisted(rcs)
  /\ pc' = "swap"
  /\ UNCHANGED <<cs, view, cache, todo, crashes, fails>>

\* replace_chain_and_state raises: nothing in memory has been touched.
ReplaceFails ==
  /\ pc = "replace"
  /\ rcs' = FromGenesis
  /\ pc' = "idle"
  /\ UNCHANGED <<cs, view, cache, todo, disk, crashes, fails>>

\* The rest of apply_better_chain.
Swap ==
  /\ pc = "swap"
  /\ cache' = Remember(Forget(cache, ForkPoint(cs.chain, rcs.chain)), rcs)
  /\ cs' = rcs /\ view' = rcs.chain
  /\ rcs' = FromGenesis
  /\ pc' = "idle"
  /\ UNCHANGED <<todo, disk, crashes, fails>>

\* The process dies: memory is lost, the tables stay.
Crash ==
  /\ pc # "down" /\ crashes < MaxCrashes
  /\ pc' = "down"
  /\ cs' = FromGenesis /\ rcs' = FromGenesis /\ view' = << >>
  /\ cache' = EmptyCache /\ todo' = << >>
  /\ crashes' = crashes + 1
  /\ UNCHANGED <<disk, fails>>

Next ==
  \/ StartFresh \/ StartFromState \/ StartReplay \/ ApplyNext \/ Loaded
  \/ \E b \in Block : CommitInMemory(b)
  \/ Save \/ Publish
  \/ \E c \in Chains : Evaluate(c)
  \/ Judge \/ Replace \/ ReplaceFails \/ Swap
  \/ Crash

Spec == Init /\ [][Next]_vars

-----------------------------------------------------------------------------
(* save_block_and_state raising.  _commit has no handler: the exception      *)
(* reaches Node.start, which logs it, sleeps a second and starts a cycle.    *)

\* A write inside the transaction raises: rolled back, the dirty set is kept.
SaveFailsWriting ==
  /\ pc = "save" /\ fails < MaxFails
  /\ fails' = fails + 1
  /\ pc' = "idle"
  /\ UNCHANGED <<cs, view, cache, rcs, todo, disk, crashes>>

WriteFailSpec == Init /\ [][Next \/ SaveFailsWriting]_vars

-----------------------------------------------------------------------------
(* Properties *)

\* The row of address a after chain c: the last block that touched it.
IsRowAfter(c, a, r) ==
  \/ r = NoRow /\ \A i \in 1..Len(c) : a \notin Touch[c[i]]
  \/ \E i \in 1..Len(c) :
       /\ a \in Touch[c[i]] /\ r = c[i]
       /\ \A j \in 1..Len(c) : j > i => a \notin Touch[c[j]]

\* rows and minted are what replaying c from genesis produces.
IsLedgerOf(rows, minted, c) ==
  /\ \A a \in Addr : IsRowAfter(c, a, rows[a])
  /\ minted = ProvenBlocks(c)

Running == pc \notin {"down", "load"}

\* chain and state are always consistent with each other: whichever way the
\* node came by its state, it is the replay of its chain (ChainState).
StateIsReplay ==
  Running => /\ IsLedgerOf(cs.st.rows, cs.st.minted, cs.chain)
             /\ cs.proven = ProvenBlocks(cs.chain)

\* A later reorg may resume from any cached state: each is the state of our
\* own chain at its height, never of a branch that was left.
CacheIsPrefix ==
  \A h \in Heights : cache[h] # NoEntry =>
    /\ h < Len(cs.chain)
    /\ LET prefix == SubSeq(cs.chain, 1, h + 1)
       IN  /\ IsLedgerOf(cache[h].st.rows, cache[h].st.minted, prefix)
           /\ cache[h].proven = ProvenBlocks(prefix)

\* Whatever differs between the State table and memory is in the dirty set, so
\* the delta of the next save brings the table up to date.
DirtyCovers ==
  Running /\ pc # "swap" =>
    \A a \in Addr : disk.rows[a] # cs.st.rows[a] => a \in cs.st.dirty

\* At every instant a crash would find a whole chain and its own ledger.
DiskWhole ==
  Stored(disk) # {} =>
    /\ \E n \in 1..MaxChain : Stored(disk) = 0..(n - 1)
    /\ IsChain(LoadedChain(disk))
    /\ IsLedgerOf(disk.rows, disk.minted, LoadedChain(disk))

\* What other threads read has been stored: the view is the stored chain, or
\* the one being replaced by it in this very step of the loop.
ViewDurable ==
  Running =>
    CASE pc = "publish" -> LoadedChain(disk) = cs.chain
                           /\ view = SubSeq(cs.chain, 1, Len(cs.chain) - 1)
      [] pc = "swap"    -> LoadedChain(disk) = rcs.chain /\ view = cs.chain
      [] OTHER          -> LoadedChain(disk) = view

\* The stored chain is created, grows by a block or is exchanged for a better
\* one; crashes, restarts and failed replacements do not show.
Abstract == INSTANCE DurableChain
              WITH durable <- LoadedChain(disk), Chain <- Chains,
                   First <- <<Genesis>>, Better <- IsBetter
Implements == Abstract!Spec
=============================================================================
