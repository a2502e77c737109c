\* Walks and floods of all kinds, one fault.
CONSTANTS
  Node <- MCNode
  Origin = "me"
  Kinds = {"tx", "block", "order"}
  Graphs <- MCGraphs
  Refusals <- MCRefusals
  MaxLapses = 1
  NoPeer = NoPeer
SPECIFICATION FairGossip
CHECK_DEADLOCK FALSE
INVARIANTS HeldIsFlooded
PROPERTIES Delivered Quiet
