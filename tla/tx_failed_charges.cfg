SPECIFICATION FairSpec
CHECK_DEADLOCK FALSE
CONSTANTS
  Tx = {t1}
  NoTx = NoTx
  MaxPending = 2
  MaxMeter = 0
  Faults = {}
PROPERTIES
  NothingFailedCharges
