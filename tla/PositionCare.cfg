SPECIFICATION Spec
CONSTANTS
  Tickets = {t1, t2}
  t1 = t1
  t2 = t2
  Prices <- MCPrices
  Books <- MCBooks
  MaxVolume = 3
  MinVolume = 1
  HalfSpread = 0
  TrailDistance = 2
  BreakevenHalves = 2
  TrailHalves = 3
  MaxFaults = 1
  MaxCommands = 2
INVARIANTS
  TypeOK
  ScaleOnce
PROPERTIES
  NeverLoosens
  ExitTaken
