SPECIFICATION Spec
CONSTANTS
  Procs = {p, q}
  Chips <- MCChips
  Dates <- MCDates
  Freqs = {0, 1, 32768}
  Margins = {32, 35}
  Noon = 1
  LastDay = 1
  NONE = NONE
  Env = {}
SYMMETRY Symmetry
INVARIANTS
  ClockKept
  SquareWaveAsTold
  WatchdogAsTold
PROPERTIES
  NoGlitch
CHECK_DEADLOCK FALSE
