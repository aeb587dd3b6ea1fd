SPECIFICATION MSpec
CONSTANTS
  Sources <- AllSources
  Models <- NumberModels
  Options <- AllOptions
  Graphs <- AllGraphs
  Files <- AllFiles
  Constants = {"k"}
  IntMax = 49
  BatchKey = "batch"
INVARIANTS LInv VersionJudged LoadedMeansMatched SilenceIsEarned BlameIsRight WarmupAfterEvidence AsDeclaredIfHygienic
PROPERTIES LoadEnds
CHECK_DEADLOCK FALSE
