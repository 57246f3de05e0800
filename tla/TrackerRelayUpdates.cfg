SPECIFICATION FairSpec
CONSTANTS
  d1 = d1  d2 = d2  s1 = s1  s2 = s2  main = main  worker = worker
  role = role  name = name  v = v  w = w
  Drivers = {d1}
  NoDriver = NoDriver
  Serials = {s1, s2}
  NoSerial = NoSerial
  SerialOf <- OwnSerials
  Threads = {main, worker}
  Main = main
  ThreadOf <- TwoThreads
  Props = {role}
  Values = {v, w}
  Oversized = {w}
  HelperCapacity = 1
  NumSlots = 1
  MaxSessions = 1
  MaxUpdates = 2
  MaxLosses = 1
  Capacity = 2
  HelperCrashes = FALSE
INVARIANTS
  ContainerMirrorsCache
PROPERTIES
  LivePosesInOrder
  PosesConverge
  PropertiesConverge
  RegistrationRelayed
CHECK_DEADLOCK FALSE
