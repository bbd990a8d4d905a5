SPECIFICATION SirqSpec
CONSTANTS
  Timer = {k1, k2}
  TPS = 2
  Base = 2
  HrsLimit = 2
  MAX_TIMERS = 2
  MaxTick = 15
  Durations = {0, 6, 15}
SYMMETRY TimerSymmetry
CHECK_DEADLOCK FALSE
INVARIANTS   CountExact
PROPERTIES EarlyByLessThanAUnit
