CONSTANTS
  Devices = {d1, d2}
  Rows = {1, 2, 3, 4, 5, 6, 7, 8, 9, 10, 11}
  KindOf <- MCKinds
  In <- MCIn
  NoRow = 0
  Held = {1, 2}
  MaxEdits = 3
SPECIFICATION LibrarySpec
SYMMETRY MCSymmetry
INVARIANTS LibraryTypeOK OnlyARaceSplitsAClass DeletionTakesOnlyWhatItSaw
CHECK_DEADLOCK FALSE
