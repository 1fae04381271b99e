CONSTANTS
  Symbols = {BTC, ETH}
  Prices = {90, 100}
  AtrBps = {0}
  BaseBps = 300
  AtrMult = 3
  BuyMemorySeconds = 1
  MaxPositions = 2
  MaxTicks = 3
  MaxFills = 4
  None = None
SPECIFICATION HostSpec
SYMMETRY MCSymmetry
INVARIANTS
  HostTypeOK
  BooksAgree
  LedgerIsExecuted
  CycleReachesTargets
  HeldIsGuarded
