CONSTANTS
  Idle = idle
  Main = main
  Sirq = sirq
  Task = {idle, main, sirq, a}
  None = None
  Fd = {f}
  WQ = WQ
  LKQ = LKQ
  MAX_PRIO = 3
  UserPrio = 1
  BasePrio <- MCBasePrio
  Prog <- MCProg
  MainOps = {"spawn", "post", "kill", "lock"}
  UserOps = {"io", "exit", "lock", "post", "self", "forever"}
  Switchers = {main, a}
  MaxArm = 1
  MaxSum = 6
SPECIFICATION OsSpec
INVARIANTS  CountersCover OwnerIsPastLock OneThreadEach BackKeepsOnlyReaders
