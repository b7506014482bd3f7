SPECIFICATION Spec
CONSTANTS
  Conns = {c1, c2, c3}
  Threads = {t1, t2}
  Deaf = {}
  IdleMax = 1
  NoConn = NoConn
SYMMETRY Symmetric
INVARIANT OwnedOnce
