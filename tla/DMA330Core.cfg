SPECIFICATION CoreSpec
CONSTANTS
  Descs = {d1, d2, d3}
  NULL = NULL
  NumChan = 2
  NumEvents = 2
  Env = {}
SYMMETRY Symmetry
INVARIANTS
  HwRunsHooked
  MovedOnce
  ReportsMoved
  BusyAccounted
  NoCrash
CHECK_DEADLOCK FALSE
