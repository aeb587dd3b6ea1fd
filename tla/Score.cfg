SPECIFICATION ScoreSpec
CONSTANTS
  NaN = NaN
  Infinity = 300
  Grain = 3
  PoolSize = 3
  ParallelThreshold = 3
  Block = 2
  Models <- Declared
  Sources <- Calls
INVARIANTS ScoresAsDeclared ValuesArriveWhole NothingUndeclared NoGapsLeft
CHECK_DEADLOCK FALSE
