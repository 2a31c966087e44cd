SPECIFICATION FairSpec
CONSTANTS
  None = None
  m1 = m1
  m2 = m2
  Key = {m1, m2}
  RestingKey = {}
  Resends = 0
  MaxCrashes = 1
  MaxLostWrites = 1
INVARIANTS
  OneMarketPosition
PROPERTIES
  SendReturns
  ImplementsWriteAhead
