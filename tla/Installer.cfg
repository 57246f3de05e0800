SPECIFICATION Spec
CONSTANTS
  MaxRuns = 3
  MaxVersion = 2
  MaxFile = 3
  Optional = {3}
  Shipped <- MCShipped
  MaxAtOnce = 2
INVARIANTS
  FilesWhole
  ReplacedIsBackedUp
PROPERTIES
  FinishedIsComplete

