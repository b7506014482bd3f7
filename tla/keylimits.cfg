SPECIFICATION MCSpec
CONSTANTS
  f1 = f1
  f2 = f2
  f3 = f3
  k1 = k1
  k2 = k2
  s1 = s1
  s2 = s2
  s3 = s3
  a1 = a1
  a2 = a2
  Parts = {"two", "three"}
  Flows = {f1, f2}
  Keys = {k1}
  Sids = {s1, s2}
  IPs = {a1, a2}
  KeyOf <- MCOneKey
  SidOf <- MCFresh
  IPOf <- MCIPOf
  LimitChoices <- MCLimits
  CapBound = 2
  EvictSizes = {2}
  Reconfigure = TRUE
  NoLimits = NoLimits
INVARIANTS Accounting ThreeKeyCapsHold
PROPERTY LoweredCapBites
CHECK_DEADLOCK FALSE
