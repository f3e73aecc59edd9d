SPECIFICATION FairSpec
CONSTANTS
  Transfers <- MCTransfers
  Retries = 5
  NONE = NONE
  Env = {}
INVARIANTS
  InStep
PROPERTIES
  BusSpec
  TransferEnds
