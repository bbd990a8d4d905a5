CONSTANTS
  Idle = idle
  Main = main
  Sirq = sirq
  Task = {idle, main, sirq, a, b}
  None = None
  Fd = {f}
  WQ = WQ
  LKQ = LKQ
  MAX_PRIO = 3
  UserPrio = 2
  BasePrio <- MCBasePrio
  Prog <- MCProg
  MainOps = {"spawn", "forever"}
  UserOps = {"lock"}
  MaxArm = 1
  MaxSum = 6
SPECIFICATION Spec
INVARIANTS MutualExclusion
