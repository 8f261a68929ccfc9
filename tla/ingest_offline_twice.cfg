SPECIFICATION Spec
CHECK_DEADLOCK FALSE
CONSTANTS
  Unknown = Unknown
  NoTx = NoTx
  Tx = {t1}
  MaxFaults = 2
  MaxCommands = 1
  MaxBacklog = 0
PROPERTIES
  EventsAreChanges
