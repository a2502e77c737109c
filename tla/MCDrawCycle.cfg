\* Paused, waiting and mining cycles, on networks that are paced and others
\* whose blocks come several heights ahead, late, or never.
CONSTANTS
  Node <- MCNode
  Me = "me"
  Genesis <- MCGenesis
  Block <- MCBlock
  Parent <- MCParent
  Height <- MCHeight
  Key <- MCKey
  Iters <- MCIters
  Digest <- MCDigest
  Builder <- MCBuilder
  MaxChain = 3
  MaxQueue = 2
  Modes = {"paused", "wait", "build"}
  Pacings = {TRUE, FALSE}
SPECIFICATION FairSpec
CHECK_DEADLOCK FALSE
INVARIANTS LinkedIfPaced
PROPERTIES PublishedOnTip DrawTakesBest Progress
