------------------------------ MODULE Producer ------------------------------
(***************************************************************************)
(* The pending transactions of one node and the blocks it builds of them:  *)
(* Mempool (src/src/mempool.py), block.assemble (block.py) and the parts   *)
(* of Node (node.py) that put transactions in and take them out.           *)
(*                                                                         *)
(* The chain is the ledger below its last MaxDepth blocks, and those       *)
(* blocks.  Sizes are net of the empty block's header.  Which chain wins,  *)
(* and when a cycle ends, is DrawCycle's business.                         *)
(***************************************************************************)
EXTENDS Ledger

CONSTANTS Me, Builder,   \* our address; addresses that build blocks
          Size,          \* tx_size: what a transaction is priced by
          SigSize,       \* what its signature adds inside a block
          ProofSize,     \* what vdf_output, vdf_proof and tx_bytes add
          BlockLimit,    \* BLOCK_SIZE_LIMIT
          PoolLimit,     \* MEMPOOL_MAX_BYTES
          Calms,         \* the worlds to look at: calm, not calm, or both
          Wallets,       \* Wallets[calm]: the transactions made in that world
          MaxDepth,      \* bound: blocks a reorganisation can take back
          MaxTxs         \* bound: transactions in a peer's block

ASSUME ProducerAssumption ==
  /\ Me \in Builder /\ Builder \subseteq Addr
  /\ Size \in [Tx -> Nat \ {0}]
  /\ Calms \subseteq BOOLEAN /\ Wallets \in [Calms -> SUBSET Tx]
  /\ {SigSize, ProofSize, BlockLimit, PoolLimit, MaxDepth, MaxTxs} \subseteq Nat

(***************************************************************************)
(* In a calm world transactions leave one another alone: they have room in *)
(* the pool together, no sender has two of the same nonce, none is a board *)
(* post, whose price can rise while it waits, and no choice of them fills  *)
(* a block so far that its proof does not fit in.                          *)
(***************************************************************************)
ASSUME CalmAssumption ==
  TRUE \in Calms =>
    LET all == Wallets[TRUE]
        inBlock == [t \in Tx |-> Size[t] + SigSize]
        weight(P) == MapThenSumSet(LAMBDA t : inBlock[t], P)
    IN  /\ IsFiniteSet(all)
        /\ MapThenSumSet(LAMBDA t : Size[t], all) <= PoolLimit
        /\ \A s, t \in all : From[s] = From[t] /\ Nonce[s] = Nonce[t] => s = t
        /\ all \cap Board = {}
        /\ \A P \in SUBSET all :
             weight(P) <= BlockLimit => weight(P) + ProofSize <= BlockLimit

VARIABLES base,    \* the ledger below recent
          recent,  \* the last blocks of self.cs.chain
          pool,    \* Mempool._pool, in the order of insertion
          pc,      \* "idle" between cycles, "building" inside one
          calm     \* TRUE: nothing expires and no branch comes up

producerVars == <<base, recent, pool, pc, calm>>

Block == [builder : Builder, txs : Seq(Tx)]

ProducerTypeOK ==
  /\ base \in LedgerType
  /\ recent \in Seq(Block) /\ Len(recent) <= MaxDepth
  /\ pool \in Seq(Tx) /\ IsInjective(pool)
  /\ pc \in {"idle", "building"}
  /\ calm \in Calms

ProducerInit ==
  /\ base = NewLedger /\ recent = << >> /\ pool = << >> /\ pc = "idle"
  /\ calm \in Calms

\* self.cs.state.
ledger == AfterBlocks(recent, base)

-----------------------------------------------------------------------------
(* Mempool *)

\* fee / tx_size, compared crosswise.
PaysLess(s, t) == Fee[s] * Size[t] < Fee[t] * Size[s]

Bytes(txs) == FoldLeft(LAMBDA n, t : n + Size[t], 0, txs)

\* Those of txs that are in S, in their order.
Only(txs, S) == FoldLeft(LAMBDA acc, t : IF t \in S THEN Append(acc, t) ELSE acc, << >>, txs)

Without(txs, gone) == Only(txs, ToSet(txs) \ gone)

\* Python's sort is stable: a new element goes behind its equals.
SortedBy(items, before(_, _)) ==
  LET insert(acc, x) ==
        InsertAt(acc, 1 + Cardinality({i \in DOMAIN acc : ~ before(x, acc[i])}), x)
  IN  FoldLeft(insert, << >>, items)

\* What add evicts for t: the worst first, as long as room is missing and they
\* pay less than t.
Evicted(txs, t) ==
  LET overflow == Bytes(txs) + Size[t] - PoolLimit
      take(acc, s) == IF acc.open /\ acc.freed < overflow /\ PaysLess(s, t)
                      THEN [gone |-> acc.gone \cup {s},
                            freed |-> acc.freed + Size[s], open |-> TRUE]
                      ELSE [acc EXCEPT !.open = FALSE]
      all == FoldLeft(take, [gone |-> {}, freed |-> 0, open |-> TRUE],
                      SortedBy(txs, PaysLess))
  IN  [gone |-> all.gone, fits |-> all.freed >= overflow]

\* Mutant of Add: whatever was evicted is taken for enough.
AddRegardless(txs, t) ==
  IF t \in ToSet(txs) THEN txs
  ELSE Append(Without(txs, Evicted(txs, t).gone), t)

\* Mutant of Add: the oldest transaction makes room.
AddEvictingOldest(txs, t) ==
  IF t \in ToSet(txs) THEN txs
  ELSE IF Bytes(txs) + Size[t] <= PoolLimit THEN Append(txs, t)
  ELSE IF txs # << >> /\ Bytes(Tail(txs)) + Size[t] <= PoolLimit
       THEN Append(Tail(txs), t) ELSE txs

\* Mempool.add, the pool it leaves.
Add(txs, t) ==
  IF t \in ToSet(txs) \/ ~ Evicted(txs, t).fits THEN txs
  ELSE Append(Without(txs, Evicted(txs, t).gone), t)

PendingOf(txs, a) == {t \in ToSet(txs) : From[t] = a}

\* What probe_state_for debits a with.
PendingCost(txs, a) ==
  FoldLeft(LAMBDA n, t : n + (IF From[t] = a THEN Cost(t) ELSE 0), 0, txs)

\* _Overlay.debit raises ValueError somewhere in the loop of probe_state_for.
ProbeRaises(a) == PendingCost(pool, a) > ledger.bal[a]

\* Mutant of Probe: the overlay takes the amounts and forgets the fees.
ProbeNoFees(a) ==
  LET nonces == {Nonce[t] : t \in PendingOf(pool, a)}
  IN  [ledger EXCEPT
         !.bal[a] = @ - FoldLeft(LAMBDA n, t : n + (IF From[t] = a THEN Amount[t]
                                                    ELSE 0), 0, pool),
         !.nonce[a] = IF nonces = {} THEN @
                      ELSE CHOOSE n \in nonces : \A m \in nonces : m <= n]

\* probe_state_for: the ledger as sender a's pending transactions leave it.
Probe(a) ==
  LET nonces == {Nonce[t] : t \in PendingOf(pool, a)}
  IN  [ledger EXCEPT
         !.bal[a] = @ - PendingCost(pool, a),
         !.nonce[a] = IF nonces = {} THEN @
                      ELSE CHOOSE n \in nonces : \A m \in nonces : m <= n]

\* prune_stale: the first `expired` of the pool are over the TTL.
Pruned(expired) ==
  Without(pool, {pool[i] : i \in 1..expired}
                  \cup {t \in ToSet(pool) : Nonce[t] <= ledger.nonce[From[t]]})

-----------------------------------------------------------------------------
(* block.assemble *)

\* Board posts below the floor are dropped before anything else.
Offered(txs, floor) ==
  Without(txs, {t \in Board : Fee[t] < floor})

\* by_sender: each sender's transactions by nonce, senders as they come.
Senders(txs) ==
  FoldLeft(LAMBDA as, t : IF From[t] \in ToSet(as) THEN as
                          ELSE Append(as, From[t]), << >>, txs)
Group(txs, a) ==
  SortedBy(Only(txs, PendingOf(txs, a)),
           LAMBDA s, t : Nonce[s] < Nonce[t])

\* The groups, the one whose lead pays best first.
Groups(txs) ==
  SortedBy(FoldLeft(LAMBDA gs, a : Append(gs, Group(txs, a)), << >>, Senders(txs)),
           LAMBDA g, h : PaysLess(h[1], g[1]))

InBlock(t) == Size[t] + SigSize

\* Mutant of PackGroup: one that does not fit is left out, the next is tried.
PackGroupSkipping(packed, group) ==
  FoldLeft(LAMBDA acc, t : IF acc.bytes + InBlock(t) <= BlockLimit
                           THEN [txs |-> Append(acc.txs, t),
                                 bytes |-> acc.bytes + InBlock(t)]
                           ELSE acc,
           packed, group)

\* A sender's transactions up to the first that does not fit.
PackGroup(packed, group) ==
  LET add(acc, t) ==
        IF acc.open /\ acc.bytes + InBlock(t) <= BlockLimit
        THEN [txs |-> Append(acc.txs, t), bytes |-> acc.bytes + InBlock(t),
              open |-> TRUE]
        ELSE [acc EXCEPT !.open = FALSE]
      all == FoldLeft(add, [txs |-> packed.txs, bytes |-> packed.bytes,
                            open |-> TRUE], group)
  IN  [txs |-> all.txs, bytes |-> all.bytes]

\* Mutant of Assembled: the best paying first, whoever sent them.
AssembledByRate(txs, floor) ==
  PackGroup([txs |-> << >>, bytes |-> 0],
            SortedBy(Offered(txs, floor), LAMBDA s, t : PaysLess(t, s))).txs

Assembled(txs, floor) ==
  FoldLeft(PackGroup, [txs |-> << >>, bytes |-> 0],
           Groups(Offered(txs, floor))).txs

\* What the node would publish if its proof were ready now.
Candidate ==
  [builder |-> Me, txs |-> Assembled(pool, BoardFeeFloor(ledger.posts))]

\* block.validate, as far as it looks at the transactions: the size with the
\* proof in it, their form, and the transactions one by one.
BlockValid(b, l) ==
  /\ b.txs \in Seq(Tx)
  /\ FoldLeft(LAMBDA n, t : n + InBlock(t), ProofSize, b.txs) <= BlockLimit
  /\ ApplyTxs(b.txs, l).ok

-----------------------------------------------------------------------------
(* The node *)

\* The chain with one more block; the oldest is out of reach of a reorg.
Grow(b) ==
  IF Len(recent) < MaxDepth
  THEN base' = base /\ recent' = Append(recent, b)
  ELSE /\ base' = AfterBlock(Append(recent, b)[1], base)
       /\ recent' = Tail(Append(recent, b))

\* _commit, at the end of a cycle.
Commit(b) ==
  /\ Grow(b)
  /\ pool' = Without(pool, ToSet(b.txs))
  /\ pc' = "idle"

\* submit_tx and _handle_inbound_tx.  Nothing catches what the probe raises
\* before Node.start does, so the message costs the cycle.
Submit(t) ==
  /\ IF ProbeRaises(From[t])
     THEN pc' = "idle" /\ UNCHANGED pool
     ELSE /\ ValidTx(t, Probe(From[t]), BoardFeeFloor(ledger.posts))
          /\ pool' = Add(pool, t)
          /\ UNCHANGED pc
  /\ UNCHANGED <<base, recent, calm>>

StartCycle(expired) ==
  /\ pc = "idle"
  /\ pool' = Pruned(expired)
  /\ pc' = "building"
  /\ UNCHANGED <<base, recent, calm>>

\* The proof is ready: assemble, validate, commit.  An invalid block is logged
\* and dropped, and the evaluation with it.
Produce ==
  /\ pc = "building"
  /\ IF BlockValid(Candidate, ledger) THEN Commit(Candidate)
     ELSE pc' = "idle" /\ UNCHANGED <<base, recent, pool>>
  /\ UNCHANGED calm

TxLists ==
  {s \in UNION {[1..n -> Wallets[calm]] : n \in 0..MaxTxs} : IsInjective(s)}
PeerBlocks(l) ==
  {b \in [builder : Builder \ {Me}, txs : TxLists] : BlockValid(b, l)}

\* A peer won the height.
PeerBlock ==
  /\ pc = "building"
  /\ \E b \in PeerBlocks(ledger) : Commit(b)
  /\ UNCHANGED calm

\* _readd_valid_txs: each on its own against the ledger it is given.
Readded(txs, candidates, confirmed, l) ==
  FoldLeft(LAMBDA acc, t :
             IF t \notin confirmed /\ ValidTx(t, l, BoardFeeFloor(l.posts))
             THEN Add(acc, t) ELSE acc,
           txs, candidates)

TxsOf(bs) == FoldLeft(LAMBDA acc, b : acc \o b.txs, << >>, bs)
Kept(depth) == SubSeq(recent, 1, Len(recent) - depth)
Taken(depth) == SubSeq(recent, Len(recent) - depth + 1, Len(recent))

\* apply_better_chain took a branch that replaces our last `depth` blocks; a
\* cycle under way ends.  Bound: the branch is a single block.
Reorganise(depth) ==
  /\ \E b \in PeerBlocks(AfterBlocks(Kept(depth), base)) :
       LET new == Append(Kept(depth), b)
       IN  /\ recent' = new
           /\ pool' = Readded(Without(pool, ToSet(b.txs)), TxsOf(Taken(depth)),
                              ToSet(b.txs), AfterBlocks(new, base))
  /\ pc' = "idle"
  /\ UNCHANGED <<base, calm>>

\* The branch, a single block again, was no better: _salvage_fork_txs.
RejectFork(depth) ==
  /\ \E b \in PeerBlocks(AfterBlocks(Kept(depth), base)) :
       pool' = Readded(pool, b.txs, ToSet(TxsOf(Taken(depth))), ledger)
  /\ UNCHANGED <<base, recent, pc, calm>>

ProducerNext ==
  \/ \E t \in Wallets[calm] : Submit(t)
  \/ StartCycle(0)
  \/ Produce
  \/ PeerBlock
  \/ /\ ~ calm
     /\ \/ \E expired \in 1..Len(pool) : StartCycle(expired)
        \/ \E depth \in 1..Len(recent) : Reorganise(depth)
        \/ \E depth \in 0..Len(recent) : RejectFork(depth)

ProducerSpec == ProducerInit /\ [][ProducerNext]_producerVars

(***************************************************************************)
(* What is not up to the node: that it wins a height again and again, or   *)
(* at least has a proof ready before the height is settled.                *)
(***************************************************************************)
Winning == ProducerSpec /\ []<><<Produce>>_producerVars

-----------------------------------------------------------------------------
\* Ticks come from block rewards only and never leave the balances: fees move
\* to the builder and burnt amounts stay on the burn address, on every chain
\* the node comes to hold, and the rewards never exceed the cap.
Conserved ==
  /\ MapThenSumSet(LAMBDA a : ledger.bal[a], Addr) = ledger.minted
  /\ ledger.minted <= SupplyCap

\* No transaction is confirmed twice and none overtakes another of its sender:
\* an address with n confirmed transactions has confirmed the nonces 1 to n.
NoReplay ==
  \A a \in Addr :
    LET confirmed == {t \in ledger.spent : From[t] = a}
    IN  /\ {Nonce[t] : t \in confirmed} = 1..Cardinality(confirmed)
        /\ ledger.nonce[a] = Cardinality(confirmed)

\* However transactions come in, submitted, taken back from an abandoned branch
\* or salvaged from a rejected one, the pool stays within its limit.
PoolBounded == Bytes(pool) <= PoolLimit

\* A pending transaction leaves the pool when it is confirmed, can never be
\* again, has expired, or when one that pays better per byte takes its place.
LeavesForReason ==
  [][\A t \in ToSet(pool) \ ToSet(pool') :
       \/ t \in ledger'.spent
       \/ pc = "idle" /\ pc' = "building"
       \/ \E s \in ToSet(pool') \ ToSet(pool) : PaysLess(t, s)]_producerVars

\* A block this node builds is valid, so no proof is wasted (block.assemble: a
\* failure "would invalidate the whole assembled block, wasting the VDF proof
\* built for it"), as long as nothing expires, no branch comes up and the
\* transactions are as CalmAssumption has them.
OwnBlockValid == calm /\ pc = "building" => BlockValid(Candidate, ledger)

\* Under the same condition no message can raise out of the loop: every sender
\* can pay for all it has pending, so probe_state_for goes through.
ProbesPass == calm => \A a \in Addr : ~ ProbeRaises(a)

\* Under that condition again a pending transaction is confirmed sooner or
\* later, whatever competes for the space in a block, as long as this node
\* keeps building.
Confirms == \A t \in Tx : calm /\ t \in ToSet(pool) ~> t \in ledger.spent
=============================================================================
