SPECIFICATION FairSpec
CHECK_DEADLOCK FALSE
CONSTANTS
  MaxRows = 2
  MaxBuffered = 2
  MaxArrivals = 3
  MaxBucket = 3
  MaxFaults = 1
INVARIANTS
  WrittenInOrder
  ExactlyOnceWithoutFaults
  FinalBucketsAreComplete
PROPERTIES
  OverdueIsAbsorbed
