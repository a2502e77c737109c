\* A child of the tip and a better sibling of it arrive in one drain.
CONSTANTS
  Node <- MCNode
  Me = "me"
  Genesis <- MCGenesis
  Block <- MCBlock
  Parent <- MCParent
  Height <- MCHeight
  Key <- MCKey
  Iters <- MCIters
  Digest <- MCDigest
  Builder <- MCBuilder
  MaxChain = 3
  MaxQueue = 2
  Modes = {"wait"}
  Pacings = {FALSE}
SPECIFICATION Spec
CHECK_DEADLOCK FALSE
INVARIANTS Linked
