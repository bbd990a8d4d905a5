SPECIFICATION FairSpec
CONSTANTS
  Task = {a, idle}
  Idle = idle
  Sig = {1, 2}
  Handler = {"code", "null"}
INVARIANTS  ServesAll
CHECK_DEADLOCK FALSE
 
