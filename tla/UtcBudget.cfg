SPECIFICATION Spec
CONSTANTS
  Equity <- MCEquity
  InitialBalance = 70
  DailyLossPct = 20
  MaxDrawdownPct = 30
  MaxTradesPerDay = 1
  MaxTurnsPerDay = 0
  BarDayOffsets <- MCWest
  LastDay = 2
  MaxCrashes = 0
  MaxWriteFails = 0
  MaxDeletes = 0
  MaxAllowances = 2
  MaxLostAnswers = 0
PROPERTIES
  OneBudgetPerUtcDay
