CONSTANTS
  Idle = idle
  Main = main
  Sirq = sirq
  Task = {idle, main, sirq, a}
  None = None
  Fd = {f}
  WQ = WQ
  LKQ = LKQ
  MAX_PRIO = 3
  UserPrio = 1
  BasePrio <- MCBasePrio
  Prog <- MCProg
  MainOps = {"spawn", "sleep", "post"}
  UserOps = {"event", "yield"}
  MaxArm = 1
  MaxSum = 6
SPECIFICATION Spec
INVARIANTS CountersExact NullPickOnlyLosesMain
PROPERTIES SwitchTargetsRunnable
