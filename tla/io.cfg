SPECIFICATION FairSpec
CONSTANTS
  Task = {a, b}
  None = None
  Sock = {s, h}
  Mq = {q}
  High = {h}
  Slice = 1
  TvSec = {0, 1}
  MaxQ <- MCMaxQ
 
PROPERTIES ParkedIsWoken
CHECK_DEADLOCK FALSE
