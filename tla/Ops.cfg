CONSTANTS
  NaN = NaN
  Exact = 64
  Grain = 4
  One = 60
  Word = 256
  Depth = 4
  Spelled <- Readings
  Lower <- ToLower
  Spaces = {" "}
  Hash <- Hashes
  Jobs <- AllJobs
  Cuts <- AllCuts
  HashOrder <- Labels012
  Interpret <- ExpressionKernel
SPECIFICATION OSpec
INVARIANTS OTypeOK SplitInvisible RoutesAgree CopiesExact EncodersTellApart WinnersWin SplinesSumToOne WordsCounted CallsAreClosed PredictionsFollowScores
CHECK_DEADLOCK FALSE
