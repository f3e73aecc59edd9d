SPECIFICATION SpiFairSpec
CONSTANTS
  Words = {1, 2}
  Messages <- MCMessages
  Depth = 3
  Trigger = 2
  DUMMY = DUMMY
  WILD = WILD
  Env = {}
INVARIANTS
  SentInOrder
  ReceivedInOrder
  CompleteOnReturn
PROPERTIES
  MessageEnds
