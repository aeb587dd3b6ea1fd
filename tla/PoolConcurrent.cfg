SPECIFICATION ConcurrentSpec
CONSTANTS
  Workers = {w1, w2}
  Clients = {c1, c2}
  TaskCounts = {2}
  GenMod = 8
  MaxCalls = 1
  NoFn = NoFn
SYMMETRY Symmetry
INVARIANTS BlocksUntilDone
