SPECIFICATION Spec
CONSTANTS
  w = w
  Top = {w}
  Child = {c}
  Parent <- MCParent
  Button = {1}
  Wheel = 4
  Largest = 2
  MinSurface <- MCMinSurface
  MaxSurfaces = 1
  ProbeEvery = 3
  MaxChanges = 2
  MaxFailures = 0
INVARIANTS
  ReleasesForwarded
