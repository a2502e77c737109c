---------------------------- MODULE DurableChain ----------------------------
(***************************************************************************)
(* What a node promises about the chain it keeps on disk, whatever happens *)
(* to the process: it is created with the genesis block, it grows by one   *)
(* valid block, or it is exchanged in one piece for a better valid chain.  *)
(* Nothing else ever happens to it.                                        *)
(***************************************************************************)
EXTENDS Integers, Sequences

CONSTANTS Chain,        \* the valid chains
          First,        \* the chain that is only the genesis block
          Better(_, _)  \* the fork choice rule

VARIABLE durable   \* the stored chain, empty before the first start

Init == durable = << >>

Create == durable = << >> /\ durable' = First

Extend ==
  \E c \in Chain :
    /\ Len(c) > 1 /\ durable = SubSeq(c, 1, Len(c) - 1)
    /\ durable' = c

Switch ==
  \E c \in Chain : Better(c, durable) /\ durable' = c

Next == Create \/ Extend \/ Switch

Spec == Init /\ [][Next]_durable
=============================================================================
