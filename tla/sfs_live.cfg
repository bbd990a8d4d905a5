CONSTANTS
  Idle = idle
  Main = main
  Sirq = sirq
  Task = {idle, main, sirq, a}
  None = None
  Fd = {f}
  WQ = WQ
  LKQ = LKQ
  MAX_PRIO = 3
  UserPrio = 1
  BasePrio <- MCBasePrio
  Prog <- MCProg
  MainOps = {"spawn", "kill", "forever"}
  UserOps = {"sleep", "exit"}
  MaxArm = 1
  MaxSum = 6
SPECIFICATION FairSpec
PROPERTIES WokenTaskRuns
