SPECIFICATION MCSpec
CHECK_DEADLOCK FALSE
CONSTANTS
  Tx = {t1, t2}
  NoTx = NoTx
  MaxPending = 1
  MaxMeter = 0
  Faults = {{"drop", "stale"}, {"call"}, {"crash"}}
INVARIANTS
  NoEndIsMissed
  
PROPERTIES
  StopReachesTheDevice
