SPECIFICATION Spec
CONSTANTS
  Tickets = {t1}
  BarDayOffsets <- MCOffUTC
  MaxFaults = 2
  MaxOutages = 2
  MaxCommands = 2
  MaxDays = 2
  MaxRedates = 1
INVARIANTS
  OneRecapPerRollover
PROPERTIES
  AlertsCatchUp
