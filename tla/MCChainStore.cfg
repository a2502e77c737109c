\* Commits, reorganisations and up to two crashes at any step.
CONSTANTS
  Genesis <- MCGenesis
  Block <- MCBlock
  Parent <- MCParent
  Height <- MCHeight
  Key <- MCKey
  Iters <- MCIters
  Digest <- MCDigest
  MaxChain = 4
  Addr <- MCAddr
  Touch <- MCTouch
  CacheSize = 2
  NoRow = NoRow
  NoBlock = NoBlock
  NoEntry = NoEntry
  MaxCrashes = 2
  MaxFails = 0
SPECIFICATION Spec
CHECK_DEADLOCK FALSE
INVARIANTS StateIsReplay CacheIsPrefix DirtyCovers DiskWhole ViewDurable
PROPERTIES Implements
