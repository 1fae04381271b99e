CONSTANTS
  NumSymbols = 3
  Features <- MCFeatures
  Timesteps = 6
  Markets <- MCMarkets
  Configs <- MCConfigs
  Slips = {0}
  MaxEpisodes = 2
  Unit = 12
  Bookings <- MCBookings
  None = None
  Invalid = Invalid
SPECIFICATION WindowSpec
CHECK_DEADLOCK FALSE
INVARIANTS
  NoLookAhead
  TradesAreBooked
  HeldNoLonger
  WindowIsWhole
  BookIsSound
PROPERTIES
  PicksAreTraded
