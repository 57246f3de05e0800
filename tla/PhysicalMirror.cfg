SPECIFICATION FairSpec
CONSTANTS
  NumDevices = 3
  High = {3}
  MaxChanges = 2
  MaxLosses = 1
  MaxRejects = 1
  Capacity = 2
INVARIANTS
  TypeOK
  InjectedIsConnected
  CallbacksMatchTable
  NoGhosts
PROPERTIES
  DevicesAnnounced
