\* Three builders, two of them with one wallet, race from genesis on a tree with
\* ties of equal and of unequal length; everybody copies everybody, one of them
\* page by page, one page to a pass.
CONSTANTS
  n1 = n1
  n2 = n2
  n3 = n3
  Node = {n1, n2, n3}
  Genesis <- MCGenesis
  Block <- RaceBlock
  Parent <- RaceParent
  Height <- RaceHeight
  Key <- RaceKey
  Iters <- RaceIters
  Builder <- RaceBuilder
  Wallet <- RaceWallet
  Digest <- MCDigest
  MaxChain = 4
  Me = n1
  Window = 1
  PageMax = 1
  PassPages = 1
  MaxTail = 2
  MaxTails = 4
  MaxFaults = 1
  None = None
SPECIFICATION FairSyncSpec
CHECK_DEADLOCK FALSE
INVARIANTS ExactlyOneWins SearchFindsFork TailFits
PROPERTIES NeverWorse FairlyStruck Agreement
