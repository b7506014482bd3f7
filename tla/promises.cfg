SPECIFICATION MCSpec
CONSTANTS
  Parts = {"reuse", "file"}
  MaxStream = 2
  MaxData = 2
  MaxFill = 0
  Kinds = {"splice", "udp"}
  Busy = TRUE
  Lookalike = FALSE
  Writers = {p1}
  Values = {d1, d2, d3}
  NoValue = NoValue
  Torn = Torn
  MaxIno = 4
INVARIANTS CleanEnds
PROPERTIES OwnPipes Replaces
CHECK_DEADLOCK FALSE
