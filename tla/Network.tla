------------------------------ MODULE Network ------------------------------
(***************************************************************************)
(* Nodes that build blocks and copy each other's chains: what the fork     *)
(* choice rule of src/src/chainstate.py decides for a whole network.       *)
(*                                                                         *)
(* A node appends a block its own evaluation earned (Node._commit), reads  *)
(* the chain of a peer (Syncer.check_and_sync, or a sibling of its tip     *)
(* that reached it by gossip) and later swaps to it if it is better        *)
(* (Node.apply_better_chain).  Time passes between reading and swapping:   *)
(* both nodes may have moved on by then.                                   *)
(***************************************************************************)
EXTENDS ForkChoice

CONSTANTS Node,
          Builder,  \* Builder[b]: the node that puts block b together
          Wallet    \* Wallet[n]: the address n builds for; nodes may share one

ASSUME NodeAssumption ==
  /\ Builder \in [Block \ {Genesis} -> Node]
  /\ DOMAIN Wallet = Node

\* An output answers one challenge, sha256 of the parent and the builder, and
\* the parent's chain fixes how many iterations it takes; sha256 tells lists of
\* outputs apart.  The contents of a block are in neither, so two blocks of one
\* builder on one parent do have the same output (block.vdf_challenge).
ASSUME KeyAssumption ==
  /\ \A a, b \in Block \ {Genesis} :
       /\ Key[a] = Key[b] => /\ Parent[a] = Parent[b]
                            /\ Wallet[Builder[a]] = Wallet[Builder[b]]
       /\ Parent[a] = Parent[b] => Iters[a] = Iters[b]
  /\ \A n \in 0..(MaxChain - 1) : \A s, t \in KeyLists(n) : Digest[s] = Digest[t] => s = t

VARIABLES chain,    \* chain[n]: Node.cs.chain
          fetched   \* fetched[n]: the peer's chain n has read, or NoChain

vars == <<chain, fetched>>

NoChain == << >>

TypeOK ==
  /\ chain \in [Node -> Chains]
  /\ fetched \in [Node -> Chains \cup {NoChain}]

Init ==
  /\ chain = [n \in Node |-> <<Genesis>>]
  /\ fetched = [n \in Node |-> NoChain]

\* Own block: _run_cycle's evaluation of the tip finished and _commit appends.
Build(n, b) ==
  /\ Len(chain[n]) < MaxChain
  /\ Extends(b, chain[n]) /\ Builder[b] = n
  /\ chain' = [chain EXCEPT ![n] = Append(@, b)]
  /\ UNCHANGED fetched

\* check_and_sync: a peer with less work, or with the same tip, is left alone.
Fetch(n, m) ==
  /\ fetched[n] = NoChain /\ m # n
  /\ Work(ProvenBlocks(chain[m])) >= Work(ProvenBlocks(chain[n]))
  /\ Tip(chain[m]) # Tip(chain[n])
  /\ fetched' = [fetched EXCEPT ![n] = chain[m]]
  /\ UNCHANGED chain

\* Mutant of Adopt: what check_and_sync compared before fetching is trusted.
AdoptFetched(n) ==
  /\ fetched[n] # NoChain
  /\ chain' = [chain EXCEPT ![n] = fetched[n]]
  /\ fetched' = [fetched EXCEPT ![n] = NoChain]

\* apply_better_chain: compared against the chain held now, not when fetched.
Adopt(n) ==
  /\ fetched[n] # NoChain
  /\ chain' = IF IsBetter(fetched[n], chain[n])
              THEN [chain EXCEPT ![n] = fetched[n]]
              ELSE chain
  /\ fetched' = [fetched EXCEPT ![n] = NoChain]

Next ==
  \E n \in Node :
    \/ \E b \in Block : Build(n, b)
    \/ \E m \in Node : Fetch(n, m)
    \/ Adopt(n)

Spec == Init /\ [][Next]_vars

-----------------------------------------------------------------------------
\* Chains about: those held and those fetched and not judged yet.
About == ({chain[n] : n \in Node} \cup {fetched[n] : n \in Node}) \ {NoChain}

\* Three of them go round in a ring: each is better than the next.
Ring ==
  LET about == About IN
  \E c, d, e \in about :
    Cardinality({c, d, e}) = 3 /\ IsBetter(c, d) /\ IsBetter(d, e) /\ IsBetter(e, c)

\* Of two nodes on different tips exactly one is to give way, whoever asks and
\* whether work, the heights won or the fallback value decides; unless the tips
\* are two blocks on one proof: that is "a genuine, unbreakable tie: neither
\* is_better_than the other" (tests/test_chainstate.py:218), and the only one.
ExactlyOneWins ==
  \A n, m \in Node :
    LET c == chain[n]
        d == chain[m] IN
    Tip(c) # Tip(d) =>
      IF OneProof(Tip(c), Tip(d)) THEN ~ IsBetter(c, d) /\ ~ IsBetter(d, c)
                                  ELSE IsBetter(c, d) # IsBetter(d, c)

\* The binary search of _fork_point stops where the linear scan of
\* _evaluate_remote_chain does, on every pair of chains nodes come to hold.
SearchFindsFork ==
  \A n, m \in Node :
    ForkSearch(chain[n], chain[m]) = ForkPoint(chain[n], chain[m])

\* A node never gives up proven work, and when work stays equal the chain it
\* leaves was beaten at a majority of the contested heights or by the fallback,
\* never by a chain it would itself still be preferred to.
NeverWorse ==
  [][\A n \in Node : chain'[n] # chain[n] =>
       /\ Work(ProvenBlocks(chain'[n])) >= Work(ProvenBlocks(chain[n]))
       /\ ~ IsBetter(chain[n], chain'[n])]_vars

\* Once nobody builds any more, every node ends with the same work, and on one
\* and the same chain up to tips on one proof.  What can keep that from coming
\* is a ring of chains each better than the next, going round for ever: a
\* majority of heights is not transitive.
Agreement ==
  /\ <>[](\A n, m \in Node : Work(ProvenBlocks(chain[n])) = Work(ProvenBlocks(chain[m])))
  /\ \/ []<>Ring
     \/ <>[](\A n, m \in Node :
               chain[n] = chain[m] \/ OneProof(Tip(chain[n]), Tip(chain[m])))
=============================================================================
