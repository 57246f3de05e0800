SPECIFICATION FairSpec
CONSTANTS
  Buffer = {b1, b2, b3}
  Size = {1, 2}
  MaxFailures = 2
  MaxChanges = 2
INVARIANTS
  TypeOK
  RawBuffersHeld
  OneRawInFlight
PROPERTIES
  PicturesKeepComing
  PointerScaleCatchesUp
  StopsWhenTold
CHECK_DEADLOCK FALSE
