SPECIFICATION FairSpec
CONSTANTS
  Thread = {t1, t2}
  Context = {c1}
  MaxNulls = 1
  MaxLeaks = 1
INVARIANTS
  HandlesAuthenticated
  CurrentContextsUsable
PROPERTIES
  ContextsServed
