SPECIFICATION Spec
CHECK_DEADLOCK FALSE
CONSTANTS
  Tx = {t1}
  NoTx = NoTx
  MaxPending = 2
  MaxMeter = 1
  Faults = {{"drop"}, {"reboot"}, {"crash"}, {"rejoin"}, {"call"}, {"stale"}}
INVARIANTS
  NothingFollowsTheStop
PROPERTIES
  ImplementsLifecycle
