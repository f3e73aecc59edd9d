SPECIFICATION FairSpec
CONSTANTS
  Words <- MCWords
  Messages = {}
  Depth = 3
  Trigger = 2
  DUMMY = DUMMY
  WILD = WILD
  Env = {}
  Procs = {p, q}
  Size = 4
  Page = 2
  Requests <- MCRequests
  Values = {10, 255}
  Buffers <- MCBuffers
  BLANK = 255
  NONE = NONE
  ChipEnv = {}
PROPERTIES
  WrittenIsStored
  ReadIsStored
  OnlyRequested
  CallsEnd
