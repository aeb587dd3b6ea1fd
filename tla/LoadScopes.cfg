SPECIFICATION MSpec
CONSTANTS
  Sources <- AllSources
  Models <- NumberModels
  Options <- AllOptions
  Graphs <- Composites
  Files <- CompositeFiles
  Constants = {"k"}
  IntMax = 49
  BatchKey = "batch"
INVARIANTS ScopesIsolated
CHECK_DEADLOCK FALSE
