SPECIFICATION Spec
CONSTANTS
  Calls <- MCCalls
  LoopMax = 3
  JumpMax = 31
  HalfSize = 72
  BeatMax = 4
  Lines = 1
INVARIANTS
  ProgramIntact
  MovesExactly
  NeverStuck
PROPERTIES
  ProgramEnds
