\* The worker alone answers, one request after the other; funds for both.
CONSTANTS
  Maker = "max"
  Taker = {"tim", "tia"}
  Order = {"o1"}
  Req = {"r1", "r2"}
  OrderOf <- MCOrderOf
  By <- MCBy
  Amount <- MCAmount
  Size <- MCSize
  Funds = 2
  AskLimit = 2
  AnswerLimit = 2
  Deciders = {{"worker"}}
  Doubts = {{}}
  MaxFaults = 0
  None = None
SPECIFICATION Spec
CHECK_DEADLOCK FALSE
INVARIANTS NeverOversold
