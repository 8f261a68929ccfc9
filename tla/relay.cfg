SPECIFICATION Spec
CHECK_DEADLOCK FALSE
CONSTANTS
  Unknown = Unknown
  NoTx = NoTx
  Session = Session
  MaxCalls = 2
  MaxFaults = 1
  MaxSessions = 1
  MaxBacklog = 0
INVARIANTS
  ResolvedIsSwitched
  AnswersAreTheDevices
  KnownIsTrue
  NobodyWaitsForNothing
