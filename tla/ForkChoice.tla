---------------------------- MODULE ForkChoice ----------------------------
(***************************************************************************)
(* ChainState.is_better_than: the fork choice rule, as pure operators.     *)
(***************************************************************************)
EXTENDS BlockTree

CONSTANT Digest   \* Digest[s]: sha256 of the concatenated keys s, an integer

\* The keys of the blocks of up to n heights.
KeyLists(n) == [1..n -> {Key[b] : b \in Block}]

ASSUME DigestAssumption ==
  \A n \in 0..(MaxChain - 1) : \A s \in KeyLists(n) : Digest[s] \in Nat

Smaller(m, n) == IF m < n THEN m ELSE n

\* How many leading blocks two chains share: the linear scan of
\* Node._evaluate_remote_chain.
ForkPoint(c, d) ==
  Cardinality({i \in 1..Smaller(Len(c), Len(d)) :
                 \A j \in 1..i : c[j] = d[j]})

\* Mutant of ForkSearch: the interval is taken for a closed one.
ForkSearchClosed(c, d) ==
  LET Bound == Smaller(Len(c), Len(d))
      search[range \in (0..Bound) \X (0..Bound)] ==
        LET lo  == range[1]
            hi  == range[2]
            mid == (lo + hi) \div 2
        IN  IF lo >= hi THEN lo
            ELSE IF c[mid + 1] = d[mid + 1] THEN search[<<mid + 1, hi>>]
            ELSE search[<<lo, mid - 1>>]
  IN  search[<<0, Bound>>]

\* chainstate._fork_point, the binary search over [lo, hi).  Heights are
\* zero-based in the code, so its chain[mid] is element mid + 1 here.
ForkSearch(c, d) ==
  LET Bound == Smaller(Len(c), Len(d))
      search[range \in (0..Bound) \X (0..Bound)] ==
        LET lo  == range[1]
            hi  == range[2]
            mid == (lo + hi) \div 2
        IN  IF lo >= hi THEN lo
            ELSE IF c[mid + 1] = d[mid + 1] THEN search[<<mid + 1, hi>>]
            ELSE search[<<lo, mid>>]
  IN  search[<<0, Bound>>]

\* Diverged heights both chains have: [fork_idx, end).
Contested(c, d) == (ForkSearch(c, d) + 1)..Smaller(Len(c), Len(d))

HeightsWon(c, d) == {i \in Contested(c, d) : Key[c[i]] < Key[d[i]]}

FallbackKey(c, d) ==
  LET f == ForkSearch(c, d)
  IN  Digest[[i \in 1..(Smaller(Len(c), Len(d)) - f) |-> Key[c[f + i]]]]

\* Mutant of WinsTieBreak: an even count of heights is a win for whoever asks.
WinsTieBreakEven(c, d) ==
  Cardinality(HeightsWon(c, d)) >= Cardinality(HeightsWon(d, c))

\* _wins_tie_break.
WinsTieBreak(c, d) ==
  LET self  == Cardinality(HeightsWon(c, d))
      other == Cardinality(HeightsWon(d, c))
  IN  \/ self > other
      \/ self = other /\ FallbackKey(c, d) < FallbackKey(d, c)

\* is_better_than.  The proven blocks are passed beside the chains because the
\* program carries the sum along (ChainState.cumulative_iterations) instead of
\* adding it up again; on a chain in good order they are ProvenBlocks(chain).
BetterBy(c, cProven, d, dProven) ==
  LET cWork == Work(cProven)
      dWork == Work(dProven)
  IN  \/ cWork > dWork
      \/ cWork = dWork /\ Tip(c) # Tip(d) /\ WinsTieBreak(c, d)

IsBetter(c, d) == BetterBy(c, ProvenBlocks(c), d, ProvenBlocks(d))

\* Two blocks with different contents on one and the same VDF proof: "content
\* stays swappable on top of a valid proof" (block.vdf_challenge).
OneProof(a, b) ==
  /\ a # b /\ {a, b} \subseteq Block \ {Genesis}
  /\ Parent[a] = Parent[b] /\ Key[a] = Key[b]
=============================================================================
