SPECIFICATION FairSpec
CONSTANTS
  Workers = {w1, w2, w3}
  Clients = {c1, c2}
  TaskCounts = {0, 1, 3}
  GenMod = 3
  MaxCalls = 1
  NoFn = NoFn
INVARIANTS IInv BlocksUntilDone FnAlive ActiveCounts QuietShutdown
PROPERTIES CallReturns DtorTerminates ImplementsParallelFor
