SPECIFICATION MCSpec
CONSTANTS
  Conns = {c1}
  Threads = {t1}
  IdleMax = 1
  NoConn = NoConn
  MaxStream = 2
  MaxData = 1
  MaxFill = 1
  Kinds = {"tcp"}
  Busy = FALSE
  Lookalike = FALSE
  K = 2
  M = 1
  SeqMod = 64
  MaxSend = 2
  MaxRaw = 0
  MaxDup = 0
  Garbage = Garbage
  Relays = {r1}
  Keys = {k1}
  MaxLane = 1
  MaxChan = 1
  Ids = {i1}
  MaxSess = 1
  MaxSock = 2
PROPERTIES
  SetMovesOn  ArrivedIsDelivered EndedStreamGoes 
CHECK_DEADLOCK FALSE
