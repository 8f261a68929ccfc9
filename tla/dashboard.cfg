SPECIFICATION FairSpec
CHECK_DEADLOCK FALSE
CONSTANTS
  Unknown = Unknown
  NoTx = NoTx
  Session = Session
  Tenant = {n1}
  NoTenant = NoTenant
  MaxChanges = 3
  MaxFaults = 1
  MaxAssigns = 1
  ListLimit = 1
INVARIANTS
  CardsAreTrue
  TenantShownIsTrue
PROPERTIES
  RegisteredIsShown
