SPECIFICATION FairSpec
CONSTANTS
  r1 = r1
  s1 = s1
  s2 = s2
  e1 = e1
  e2 = e2
  Task = {r1, s1, s2}
  Event = {e1, e2}
  Wants <- MCWants
  Deletes = {r1, s1}
  Hd = Hd
  None = None
CHECK_DEADLOCK FALSE
INVARIANTS RegistryExact NullOnlyWhenUnlisted  NoSleepThroughEvent
PROPERTIES EventReceived
