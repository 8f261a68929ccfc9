SPECIFICATION FairWifiSpec
CHECK_DEADLOCK FALSE
CONSTANTS
  Credentials = {n1, n2}
  Blank = Blank
  MaxPosted = 3
INVARIANTS
  StoredAreTheAccepted
PROPERTIES
  WindowsReopen
  StoredIsRetried
