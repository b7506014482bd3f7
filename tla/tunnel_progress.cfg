SPECIFICATION MCSpec
CONSTANTS
  NoLoop = NoLoop
  Loops = {l1, l2}
  Stoppers = {s1}
  Waiters = {w1}
  Configured = "whispera"
  Callers = {c1, c2}
  Apis = {a1}
  Primary = e1
  Entries = {e1}
  MaxMgr = 2
  MaxCalls = 1
  MinInterval = 1
  BackoffStep = 1
  MaxBackoff = 2
PROPERTIES LoopsDeliver RestartsEnd
CHECK_DEADLOCK FALSE
