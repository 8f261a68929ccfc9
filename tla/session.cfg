SPECIFICATION MCSpec
CONSTANTS
  Tx = {t1, t2}
  NoTx = NoTx
  Kwh = {0}
  Unreadable = Unreadable
  NoReading = NoReading
  MaxRuns = 2
  MaxSeq = 1
  MaxBacklog = 1
  NvsMayFail = FALSE
INVARIANTS
  IInv
  ActiveIsPowered
  FlashHoldsTheSession
  EndIsFinal
  AnnouncedBaseIsBilled
  RetainedRelayIsTrue
  RetainedTxIsTrueOrEnded
PROPERTIES
  ImplementsContract
  EndsArriveInOrder
  SessionsResume
