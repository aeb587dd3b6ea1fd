SPECIFICATION GSpec
CONSTANTS
  Clients = {c1}
  TaskCounts = {2}
  NoCall = NoCall
  NThreads = 2
  MinRows = 1
  RowCounts = {2}
  Outputs = {"score"}
  OutType <- ScoreType
  Filters <- FilterSets
  IntMax = 1023
INVARIANTS FaultIsReported
