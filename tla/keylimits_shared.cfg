SPECIFICATION MCSpec
CONSTANTS
  f1 = f1
  f2 = f2
  f3 = f3
  k1 = k1
  k2 = k2
  s1 = s1
  s2 = s2
  s3 = s3
  a1 = a1
  a2 = a2
  Parts = {"two"}
  Flows = {f1, f2, f3}
  Keys = {k1}
  Sids = {s1, s2, s3}
  IPs = {a1, a2}
  KeyOf <- MCOneKey
  SidOf <- MCShared
  IPOf <- MCIPOf
  LimitChoices <- MCWide
  CapBound = 3
  EvictSizes = {1}
  Reconfigure = FALSE
  NoLimits = NoLimits
INVARIANT OneSlotPerSession
CHECK_DEADLOCK FALSE
