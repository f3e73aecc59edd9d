SPECIFICATION Spec
CONSTANTS
  Descs = {d1, d2}
  NULL = NULL
  NumChan = 1
  NumEvents = 1
  Env = {"late"}
  Chans = {c1}
  MaxSg = 2
  Periods = 0
  SMP = FALSE
  MaxCookie = 3
INVARIANTS
  DoneMeansTransferred
CHECK_DEADLOCK FALSE
