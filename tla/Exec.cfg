SPECIFICATION GSpec
CONSTANTS
  Clients = {c1}
  TaskCounts = {4}
  NoCall = NoCall
  NThreads = 4
  MinRows = 1
  RowCounts = {0, 1, 3, 4, 5, 7, 9, 10, 13}
  Outputs = {"score", "prob", "cluster"}
  OutType <- NumericTypes
  Filters <- FilterSets
  IntMax = 1023
INVARIANTS GInv ResultIsSerial ChunksPartition NoResultOfFault
PROPERTIES CallEnds
