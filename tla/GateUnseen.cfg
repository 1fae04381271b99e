CONSTANTS
  Timesteps = 7
  WindowSteps = 4
  Windows = 4
  Cells = 2
  TrainPct = 60
  Returns = {0, 2, 4}
  Target = 2
  None = None
SPECIFICATION Spec
INVARIANT
  UnseenWindows
