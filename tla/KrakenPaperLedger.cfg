CONSTANTS
  Symbols = {BTC, ETH}
  Prices = {90, 100}
  AtrBps = {0}
  BaseBps = 300
  AtrMult = 3
  BuyMemorySeconds = 1
  MaxPositions = 2
  MaxTicks = 5
  MaxFills = 6
  None = None
SPECIFICATION FairSpec
PROPERTY
  FillsReachLedger
