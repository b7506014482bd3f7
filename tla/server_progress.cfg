SPECIFICATION MCSpec
CONSTANTS
  Users = {alice}
  Tools = {o1}
  Handlers = {h1}
  MaxSaves = 2
  Sockets = {x1, x2}
  Flows = {f1, f2}
  Key = k1
  IP = i1
  NoLimits = NoLimits
PROPERTIES Served FrontSettles DrainsToZero
CHECK_DEADLOCK FALSE
