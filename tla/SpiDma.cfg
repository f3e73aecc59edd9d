SPECIFICATION FairSpec
CONSTANTS
  Words = {1, 2}
  Messages <- MCMessages
  Depth = 3
  Trigger = 2
  TxMost = 2
  RxMost = 1
  MaxCookie = 6
  BLANK = BLANK
  Env = {}
INVARIANTS
  WordsInOrder
  CompleteOnReturn
PROPERTIES
  MessageEnds
CHECK_DEADLOCK FALSE
