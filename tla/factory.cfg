SPECIFICATION Spec
CHECK_DEADLOCK FALSE
CONSTANTS
  EntriesPerPage = 5
  EntrySize = 32
  MinPages = 3
  MaxStringSize = 4000
  Refused = Refused
  Missing = Missing
  Blank = Blank
  Torn = Torn
  Station = {s1, s2}
  Board = {b1, b2}
  WrongChip = {}
  Meter = {m1, m2, m3}
  Unsupported = {m3}
  NoMeter = NoMeter
  Nowhere = Nowhere
  Bundle <- Tables
  MaxRuns = 2
  MaxGivenUp = 1
SYMMETRY Names
INVARIANTS
  IdentityIsTheBoards
  RecordedWasVerified
  NumbersAreNotBurnt
  DoneUnitIsRight
