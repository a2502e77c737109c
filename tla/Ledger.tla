------------------------------- MODULE Ledger -------------------------------
(***************************************************************************)
(* What a block does to the balances: State (src/src/state.py), the rules  *)
(* of a transaction (tx.py) and of a block's transactions (block.py), and  *)
(* the builder's reward (chainstate.py), as pure operators on a ledger     *)
(* record.                                                                 *)
(*                                                                         *)
(* A transaction is an element of Tx; fields that decide nothing, keys and *)
(* signatures are left out, and so are transactions that are malformed or  *)
(* badly signed: no ledger accepts them.  Outputs are added up into one.   *)
(***************************************************************************)
EXTENDS Integers, Sequences, FiniteSets, SequencesExt

CONSTANTS Addr,
          Tx, From, To, Nonce, Amount, Fee,   \* fields of the transactions
          Board,           \* transactions whose memo makes them board posts
          SupplyCap,       \* SUPPLY_CAP
          DecayNumerator, DecayDenominator,   \* EMISSION_DECAY_...
          BoardBaseFee, BoardStepSize, BoardFeeRatio

ASSUME LedgerAssumption ==
  /\ IsFiniteSet(Addr)
  /\ From \in [Tx -> Addr] /\ To \in [Tx -> Addr]
  /\ \A t \in Tx : From[t] # To[t]
  /\ Nonce \in [Tx -> Nat] /\ Fee \in [Tx -> Nat]
  /\ Amount \in [Tx -> Nat \ {0}]
  /\ Board \subseteq Tx
  /\ SupplyCap \in Nat
  /\ DecayNumerator \in Nat /\ DecayDenominator \in Nat \ {0}
  /\ DecayNumerator <= DecayDenominator
  /\ BoardBaseFee \in Nat /\ BoardStepSize \in Nat \ {0} /\ BoardFeeRatio \in Nat

\* spent is the TxIndex table: every transaction the chain has confirmed.
LedgerType ==
  [bal : [Addr -> Nat], nonce : [Addr -> Nat], minted : 0..SupplyCap,
   posts : Nat, spent : SUBSET Tx]

NewLedger ==
  [bal |-> [a \in Addr |-> 0], nonce |-> [a \in Addr |-> 0],
   minted |-> 0, posts |-> 0, spent |-> {}]

\* compute_can_mint, compute_reward.
Reward(minted) ==
  IF minted < SupplyCap
  THEN ((SupplyCap - minted) * DecayNumerator) \div DecayDenominator
  ELSE 0

\* board_fee_floor.
BoardFeeFloor(posts) == BoardBaseFee * BoardFeeRatio ^ (posts \div BoardStepSize)

Cost(t) == Amount[t] + Fee[t]

\* Mutant of ValidTx: any nonce that was not used yet will do.
ValidTxAnyLater(t, l, floor) ==
  /\ Nonce[t] > l.nonce[From[t]]
  /\ Cost(t) <= l.bal[From[t]]
  /\ t \in Board => Fee[t] >= floor

\* tx.validate: _check_nonce, _check_balance, _check_board_fee.
ValidTx(t, l, floor) ==
  /\ Nonce[t] = l.nonce[From[t]] + 1
  /\ Cost(t) <= l.bal[From[t]]
  /\ t \in Board => Fee[t] >= floor

\* State.apply_tx: the fee is taken here and paid out with the reward.
ApplyTx(t, l) ==
  [bal    |-> [a \in Addr |-> l.bal[a] - (IF a = From[t] THEN Cost(t) ELSE 0)
                                       + (IF a = To[t] THEN Amount[t] ELSE 0)],
   nonce  |-> [l.nonce EXCEPT ![From[t]] = Nonce[t]],
   minted |-> l.minted,
   posts  |-> l.posts + (IF t \in Board THEN 1 ELSE 0),
   spent  |-> l.spent \cup {t}]

\* block._apply_transactions: one after another, the floor frozen beforehand.
ApplyTxs(txs, l) ==
  LET floor == BoardFeeFloor(l.posts)
      step(acc, t) == IF acc.ok /\ ValidTx(t, acc.l, floor)
                      THEN [ok |-> TRUE, l |-> ApplyTx(t, acc.l)]
                      ELSE [ok |-> FALSE, l |-> acc.l]
  IN  FoldLeft(step, [ok |-> TRUE, l |-> l], txs)

Fees(txs) == FoldLeft(LAMBDA n, t : n + Fee[t], 0, txs)

\* Mutant of PayBuilder: fees are taken from the senders and paid to nobody.
PayBuilderRewardOnly(builder, txs, l) ==
  [l EXCEPT !.bal[builder] = @ + Reward(l.minted),
            !.minted = @ + Reward(l.minted)]

\* _apply_builder_reward: every fee of the block, and the minted reward.
PayBuilder(builder, txs, l) ==
  [l EXCEPT !.bal[builder] = @ + Fees(txs) + Reward(l.minted),
            !.minted = @ + Reward(l.minted)]

\* apply_block, on a block [builder, txs] whose transactions are valid.
AfterBlock(b, l) == PayBuilder(b.builder, b.txs, ApplyTxs(b.txs, l).l)
AfterBlocks(bs, l) == FoldLeft(LAMBDA acc, b : AfterBlock(b, acc), l, bs)
=============================================================================
