\* Broadcasts side by side, or a request; one datagram lost or doubled.
CONSTANTS
  Push = {"tx", "block", "other"}
  Ask = {"page"}
  Body = {"small", "two", "three"}
  Carries <- MCCarries
  Pages = {"two", "three"}
  Chunks <- MCChunks
  Worlds <- MCWorlds
  Rounds = 2
  AckEvery = 2
  Slots = 1
  Room = 2
  MaxFaults = 1
  MaxFlight = 2
  None = None
SPECIFICATION FairSpec
CHECK_DEADLOCK FALSE
INVARIANTS HandedOnce AckedIsThere
PROPERTIES GetsThrough Released
