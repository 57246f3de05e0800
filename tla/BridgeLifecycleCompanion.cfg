SPECIFICATION FairSpec
CONSTANTS
  MaxSessions = 1
  HelperTimeout = 2
  NativeTimeout = 2
  LockWait = 4
  MaxMishaps = 1
PROPERTIES
  CompanionFollowsLauncher
CHECK_DEADLOCK FALSE
