SPECIFICATION Spec
CONSTANTS
  MaxTick = 27
  Start = 11
  MonthOf <- Months
  WeekOf <- IsoWeeks
  KeepDays = 2
  KeepMonthEnds = 1
  Daily <- Daily1
  Weekly <- Weekly1
  MaxArrivals = 2
  MaxHands = 0
  ReviewWindows = {8}
  MaxAgeTicks = 8
  StaleTicks = 1
  RunTicks = 1
  MaxFaults = 0
  Scenarios <- NightsOnly
INVARIANTS
  QuietWhenWell
CHECK_DEADLOCK FALSE
