SPECIFICATION MCSpec
CONSTANTS
  Parts = {"reuse"}
  MaxStream = 1
  MaxData = 1
  MaxFill = 0
  Kinds = {"tcp"}
  Busy = FALSE
  Lookalike = FALSE
  Writers = {p1}
  Values = {d1}
  NoValue = NoValue
  Torn = Torn
  MaxIno = 1
PROPERTY FailedNeverReused
CHECK_DEADLOCK FALSE
