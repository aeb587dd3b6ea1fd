SPECIFICATION GSpec
CONSTANTS
  Clients = {c1}
  TaskCounts = {2}
  NoCall = NoCall
  NThreads = 2
  MinRows = 1
  RowCounts = {4}
  Outputs = {"label", "prob"}
  OutType <- ClassifierTypes
  Filters <- FilterSets
  IntMax = 1023
INVARIANTS ResultIsSerial
