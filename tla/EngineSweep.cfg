SPECIFICATION Spec
CONSTANTS
  Tickets = {t1, t2}
  BarDayOffsets <- MCOnUTC
  MaxFaults = 2
  MaxOutages = 1
  MaxCommands = 3
  MaxDays = 1
  MaxRedates = 0
INVARIANTS
  TypeOK
  ReportCovers
  NeverSilent
