SPECIFICATION FairSpec
CONSTANTS
  MaxSessions = 2
  HelperTimeout = 2
  NativeTimeout = 3
  LockWait = 6
  MaxMishaps = 1
INVARIANTS
  TypeOK
  HelpersExclusive
  HelperInReadyPrefix
PROPERTIES
  NoVainWait
  LiveHelperNotTimedOut
  SilentHelperNoticed
  HelperFollowsDriver
  SessionServed
  CompanionOutlivesHandoff
CHECK_DEADLOCK FALSE
