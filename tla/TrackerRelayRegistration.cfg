SPECIFICATION Spec
CONSTANTS
  d1 = d1  d2 = d2  s1 = s1  s2 = s2  main = main  worker = worker
  role = role  name = name  v = v  w = w
  Drivers = {d1, d2}
  NoDriver = NoDriver
  Serials = {s1, s2}
  NoSerial = NoSerial
  SerialOf <- OwnSerials
  Threads = {main, worker}
  Main = main
  ThreadOf <- TwoThreads
  Props = {}
  Values = {}
  Oversized = {}
  HelperCapacity = 2
  NumSlots = 2
  MaxSessions = 2
  MaxUpdates = 1
  MaxLosses = 1
  Capacity = 1
  HelperCrashes = TRUE
INVARIANTS
  TypeOK
  PoseFromOwnTrackerAtFirst
  SlotPerSerial
  ConnectedOnlyWhileOnline
  NoOrphanUpdates
PROPERTIES
  RefinesContract
CHECK_DEADLOCK FALSE
