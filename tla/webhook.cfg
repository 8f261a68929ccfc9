SPECIFICATION FairSpec
CONSTANTS
  Tx = {t1, t2}
  Retries = 1
  MaxPerPass = 2
  MaxEvents = 3
  MaxTroubles = 1
INVARIANTS
  AttemptsAreCounted
PROPERTIES
  EventsArriveInOrder
  SettledIsNotSent
  EveryEventSettles
