----------------------------- MODULE BlockTree -----------------------------
(***************************************************************************)
(* The blocks of one network and the chains they form (src/src/block.py,   *)
(* src/src/chainstate.py).                                                 *)
(*                                                                         *)
(* A block's hash commits to its parent's hash, hence to its whole         *)
(* ancestry, so a block is an element of Block and its hash is itself.     *)
(* Only blocks that block.validate accepts on top of their parent are in   *)
(* Block: one that fails validation changes no state of the node.  A chain *)
(* is a sequence of blocks, chain[i] standing for height i - 1.            *)
(***************************************************************************)
EXTENDS Integers, Sequences, FiniteSets, FiniteSetsExt

CONSTANTS Block,      \* every valid block of the network
          Genesis,    \* block 0, create_genesis()
          Parent,     \* Parent[b]: the block previous_hash names
          Height,     \* Height[b]: the block's height field
          Key,        \* Key[b]: vdf_output, an integer; the lowest key wins
          Iters,      \* Iters[b]: vdf_iterations, proven work of the block
          MaxChain    \* bound on the length of a chain

ASSUME BlockAssumption ==
  /\ Genesis \in Block
  /\ Parent \in [Block \ {Genesis} -> Block]
  /\ Height \in [Block -> 0..(MaxChain - 1)] /\ Height[Genesis] = 0
  /\ Key \in [Block -> Nat]
  /\ Iters \in [Block -> Nat \ {0}]
  /\ MaxChain \in Nat \ {0}

Tip(c) == c[Len(c)]

\* _check_parent: b can be appended to c.
Extends(b, c) ==
  /\ b \in Block \ {Genesis}
  /\ Parent[b] = Tip(c)
  /\ Height[b] = Height[Tip(c)] + 1

\* A chain accepted from genesis: _check_parent held for every block of it.
IsChain(c) ==
  /\ Len(c) > 0
  /\ c[1] = Genesis
  /\ \A i \in 1..Len(c) : Height[c[i]] = i - 1
  /\ \A i \in 2..Len(c) : c[i] # Genesis /\ Parent[c[i]] = c[i-1]

Chains == {c \in UNION {[1..n -> Block] : n \in 1..MaxChain} : IsChain(c)}

\* ChainState._cumulative_iterations: genesis has no proof and counts nothing.
\* The sum is kept as the set of its summands: no block is twice in a chain.
ProvenBlocks(c) == {c[i] : i \in 2..Len(c)}
Work(blocks) == MapThenSumSet(LAMBDA b : Iters[b], blocks)
=============================================================================
