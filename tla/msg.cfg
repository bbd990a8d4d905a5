CONSTANTS
  c1 = c1 c2 = c2 s1 = s1 s2 = s2 r1 = r1 r2 = r2 r3 = r3
  Creator = {c1, c2}
  Sender = {s1, s2}
  Receiver = {r1, r2, r3}
  Owner <- MCOwner
  Msg = {m1, m2}
  MAX_MSG_Q = 2
  NBlks = 2
  MaxSend = 3
SPECIFICATION FairSpec
INVARIANTS DistinctQueues BlocksAccounted NoLostWakeup
PROPERTIES QueueIsFifo EveryMessageReceived
CHECK_DEADLOCK FALSE
