SPECIFICATION MCSpec
CONSTANTS
  t1 = t1
  t2 = t2
  Tokens = {t1, t2}
  Window <- MCWindow
  ShardOf <- MCShardOf
  Shards = 2
  Threshold = 1
  Conns = {p1, p2}
  W = 2
  T = 1
  Skew = 1
  Delay = 1
  MaxNow = 15
  Users = {alice}
  Tools = {c1}
  Handlers = {h1, h2}
  MaxSaves = 1
  Sockets = {s1, s2, s3}
INVARIANTS
   NotStale   ApiDoorIsSound 
  VerdictsFollowRules RuntimeInOrder  BinaryIsWhole
CHECK_DEADLOCK FALSE
