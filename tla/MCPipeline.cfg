CONSTANTS
  Symbols <- SymbolList
  Horizons <- HorizonList
  Tapes <- MCTapes
  OldFiles <- MCOldFiles
  BinanceSymbols <- FirstSymbol
  Dumped <- BothSymbols
  ContextLength = 2
  LastHour = 5
  FirstHour = 4
  Since = 1
  Forming = 4
  KrakenWindow = 3
  PageLimit = 2
  DumpEnd = 4
  MinRows = 1
  Horizon = 1
  SplitPct = 70
  PriceFeatures = 3
  Short = 2
  Long = 3
  None = None
  Failed = Failed
SPECIFICATION Spec
CHECK_DEADLOCK FALSE
INVARIANTS
  TypeOK
  RowsAreOwnBars
  NoFutureInRow
  TechnicalParity
  DatasetIsSound
PROPERTIES
  FetchIsComplete
  PagingEnds
