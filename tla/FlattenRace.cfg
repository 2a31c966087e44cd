SPECIFICATION Spec
CONSTANTS
  Tickets = {t1, t2}
  BarDayOffsets <- MCOnUTC
  MaxFaults = 0
  MaxOutages = 1
  MaxCommands = 2
  MaxDays = 1
  MaxRedates = 0
INVARIANTS
  CompleteMeansFlat
