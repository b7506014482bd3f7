SPECIFICATION MCSpec
CONSTANTS
  Parts = {"file"}
  MaxStream = 1
  MaxData = 1
  MaxFill = 0
  Kinds = {"tcp"}
  Busy = FALSE
  Lookalike = FALSE
  Writers = {p1, p2}
  Values = {d1, d2}
  NoValue = NoValue
  Torn = Torn
  MaxIno = 3
INVARIANT PathIsWhole
CHECK_DEADLOCK FALSE
