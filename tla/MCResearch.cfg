CONSTANTS
  Timesteps = 7
  WindowSteps = 4
  Windows = 4
  Cells = 2
  TrainPct = 60
  Returns = {0, 2, 4}
  Target = 2
  None = None
  Presets <- Baseline
  Grid <- Mutations
  Features <- OneFeature
  Shapes <- OneShape
  OtherRows <- OneRow
SPECIFICATION ResearchSpec
CHECK_DEADLOCK FALSE
INVARIANTS
  BailIsSound
  PromotionIsEarned
  RejectionShows
  SearchIsOnBoard
  HeaderOnce
