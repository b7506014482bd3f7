SPECIFICATION MCSpec
CONSTANTS
  Ids = {i1}
  Keys = {k1}
  MaxSess = 2
  MaxSock = 2
  K = 2
  M = 1
  SeqMod = 64
  MaxSend = 2
  MaxRaw = 1
  MaxDup = 1
  Garbage = Garbage
  Relays = {r1, r2}
  MaxLane = 2
  MaxStream = 1
  MaxChan = 3
  MaxBytes = 4
  MaxChunk = 2
  QueueLen = 2
  MaxLate = 2
  d1 = d1
  d2 = d2
  k1 = k1
  k2 = k2
  Arms = {0, 1}
INVARIANTS NothingLost SoundDelivery  DiskInOrder 
CHECK_DEADLOCK FALSE
