SPECIFICATION FairSpec
CONSTANTS
  Equity <- MCEquity
  InitialBalance = 70
  DailyLossPct = 20
  MaxDrawdownPct = 30
  MaxTradesPerDay = 1
  MaxTurnsPerDay = 1
  BarDayOffsets <- MCWest
  LastDay = 2
  MaxCrashes = 1
  MaxWriteFails = 1
  MaxDeletes = 1
  MaxAllowances = 2
  MaxLostAnswers = 1
INVARIANTS
  TypeOK
  UnhaltedIsOnFile
  BudgetsSurvive
  TradesWithinCap
PROPERTIES
  SpentBudgetStopsEntries
  UnreadableIsKept
  LatchedHaltFlattens
  LossFlattensArmed
