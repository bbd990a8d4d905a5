CONSTANTS
  Timer = {x}
  Repeats = {x}
  Stops = {x}
  Head = Head
  None = None
  Svc = Svc
  Durations = {1, 2}
  MaxTick = 3
  MaxArm = 3
  CountMod = 4
SPECIFICATION FairSpec
INVARIANTS DamagedOnlyByOverlap ExpiredOnList
PROPERTIES ExpiredIsServed
CHECK_DEADLOCK FALSE
