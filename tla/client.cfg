SPECIFICATION MCSpec
CONSTANTS
  NoLoop = NoLoop
  Loops = {l1, l2}
  Dialers = {d1}
  Stoppers = {s1}
  Waiters = {w1}
  MaxAttempts = 2
  FallbackAfter = 1
  Threshold = 2
  Configured = "whispera"
  Callers = {c1, c2}
  Apis = {a1}
  Primary = e1
  Entries = {e1, e2}
  MaxMgr = 3
  MaxCalls = 1
  MinInterval = 1
  BackoffStep = 1
  MaxBackoff = 1
  h1 = h1
  h2 = h2
  w = w
INVARIANTS
  ManagerIsSound DoorIsSound  OneSession FenceIsTrue 
  BypassIsSound
 
CHECK_DEADLOCK FALSE
