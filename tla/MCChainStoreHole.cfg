\* One failed save, then a restart.
CONSTANTS
  Genesis <- MCGenesis
  Block <- MCBlock
  Parent <- MCParent
  Height <- MCHeight
  Key <- MCKey
  Iters <- MCIters
  Digest <- MCDigest
  MaxChain = 4
  Addr <- MCAddr
  Touch <- MCTouch
  CacheSize = 2
  NoRow = NoRow
  NoBlock = NoBlock
  NoEntry = NoEntry
  MaxCrashes = 1
  MaxFails = 1
SPECIFICATION WriteFailSpec
CHECK_DEADLOCK FALSE
INVARIANTS StateIsReplay
