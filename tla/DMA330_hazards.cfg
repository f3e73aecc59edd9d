SPECIFICATION Spec
CONSTANTS
  Descs = {d1, d2}
  NULL = NULL
  NumChan = 1
  NumEvents = 1
  Env = {"late", "terminate", "pause", "fault", "refuse", "mixed"}
  Chans = {c1}
  MaxSg = 2
  Periods = 1
  SMP = FALSE
  MaxCookie = 2
INVARIANTS
  EveryDescOnce
  ThreadsOwned
CHECK_DEADLOCK FALSE
