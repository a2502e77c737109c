\* A calm world, and one where everything happens: expiry, eviction, branches
\* taken and rejected.
CONSTANTS
  Addr <- MCAddr
  Tx <- MCTx
  From <- MCFrom
  To <- MCTo
  Nonce <- MCNonce
  Amount <- MCAmount
  Fee <- MCFee
  Board <- MCBoard
  Size <- MCSize
  SupplyCap = 8
  DecayNumerator = 1
  DecayDenominator = 3
  BoardBaseFee = 1
  BoardStepSize = 1
  BoardFeeRatio = 3
  Me = "me"
  Builder <- MCAddr
  SigSize = 1
  ProofSize = 2
  BlockLimit = 24
  PoolLimit = 28
  Calms = {TRUE, FALSE}
  Wallets <- MCWallets
  MaxDepth = 1
  MaxTxs = 1
SPECIFICATION Winning
CHECK_DEADLOCK FALSE
INVARIANTS OwnBlockValid ProbesPass Conserved NoReplay PoolBounded
PROPERTIES LeavesForReason Confirms
