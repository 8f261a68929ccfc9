SPECIFICATION FairSpec
CHECK_DEADLOCK FALSE
CONSTANTS
  Unknown = Unknown
  NoTx = NoTx
  Tx = {t1, t2}
  MaxFaults = 1
  MaxCommands = 1
  MaxBacklog = 0
INVARIANTS
  StateIsTrue
  ReadingsAreTied
PROPERTIES
  RegisteredIsHeard
