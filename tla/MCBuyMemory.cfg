CONSTANTS
  Procs = {"p1", "p2"}
  Workers = {"t1", "t2", "t3"}
  ProcOf <- MCProcOf
  Symbols = {BTC, ETH}
  Prices = {90, 100}
  AtrBps = {0, 400}
  BaseBps = 300
  AtrMult = 3
  BuyMemorySeconds = 1
  MaxTime = 2
  MaxDamage = 1
  None = None
  Corrupt = Corrupt
SPECIFICATION FairSpec
INVARIANTS
  TypeOK
  VerdictMatchesFile
  RecordedBuyIsOnDisk
PROPERTIES
  ImplementsFloorMap
  CallReturns
