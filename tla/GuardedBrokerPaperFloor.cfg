CONSTANTS
  Clients = {"live", "paper"}
  Servers = {}
  Paper = {"paper"}
  Accounts = {"alpaca_live_writer"}
  AccountOf <- MCAccountOf
  Symbols = {BTC}
  Prices = {90, 100}
  AtrBps = {0}
  BaseBps = 300
  AtrMult = 3
  BuyMemorySeconds = 0
  MaxTime = 1
  None = None
SPECIFICATION FairSpec
PROPERTY
  PaperRecordsAreSafe
