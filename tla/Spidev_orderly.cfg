SPECIFICATION FairSpec
CONSTANTS
  Devs = {s1, s2}
  Datas = {x1, x2, x3}
  Procs = {p1, p2}
  NONE = NONE
  Minors = {0, 1}
  Settings = {"quick", "odd"}
  Refused = {"odd"}
  Env = {}
INVARIANTS
  UsesAllocated
  NoLeak
  BufferWhileOpen
  SettingsAccepted
PROPERTIES
  OperationsEnd
