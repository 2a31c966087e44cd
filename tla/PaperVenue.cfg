SPECIFICATION Spec
CONSTANTS
  Symbols = {eurusd}
  Prices <- MCPrices
  Levels <- MCLevels
  HalfSpread = 1
  StopsLevel = 2
  MinVolume = 1
  MaxVolume = 2
  MarginRate = 1
  InitialBalance = 6
  TradeAllowed = TRUE
  MaxTickets = 2
INVARIANTS
  TypeOK
PROPERTIES
  GoneForGood
  EquityPreserved
  BarClears
