CONSTANTS
  Units = {"keel", "moray"}
  Registries <- MCRegistries
  Runs = {"d1"}
  Gates = {"env", "attested"}
  Attempts = 2
  MaxPid = 4
  None = None
SPECIFICATION FairSpec
CHECK_DEADLOCK FALSE
INVARIANTS
  OkMeansOwned
  RestartIsJudged
