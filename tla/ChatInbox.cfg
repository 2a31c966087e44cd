SPECIFICATION Spec
CONSTANTS
  MaxUpdates = 4
  MaxCrashes = 2
  MaxFaults = 2
INVARIANTS
  TypeOK
  ReplayedOnlyByCrash
PROPERTIES
  AllHandled
