SPECIFICATION FairSpec
CONSTANTS
  Descs = {d1, d2, d3}
  NULL = NULL
  NumChan = 1
  NumEvents = 1
  Env = {}
  Chans = {c1}
  MaxSg = 2
  Periods = 3
  SMP = FALSE
  MaxCookie = 3
INVARIANTS
  DoneMeansTransferred
  NoOops
PROPERTIES
  EngineSpec
  IssuedCompletes
  CyclicGoesOn
  CoreSpec
CHECK_DEADLOCK FALSE
