\* Every decider, one fault, funds for one request.
CONSTANTS
  Maker = "max"
  Taker = {"tim", "tia"}
  Order = {"o1"}
  Req = {"r1", "r2"}
  OrderOf <- MCOrderOf
  By <- MCBy
  Amount <- MCAmount
  Size <- MCSize
  Funds = 1
  AskLimit = 2
  AnswerLimit = 2
  Deciders <- Everybody
  Doubts = {{}, {"r2"}}
  MaxFaults = 1
  None = None
SPECIFICATION FairSpec
CHECK_DEADLOCK FALSE
INVARIANTS Funded NobodyAlone AnsweredOnceAlone
PROPERTIES Heard
