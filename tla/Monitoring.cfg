SPECIFICATION Spec
CONSTANTS
  MaxTick = 21
  Start = 11
  MonthOf <- Months
  WeekOf <- IsoWeeks
  KeepDays = 2
  KeepMonthEnds = 1
  Daily <- Daily1
  Weekly <- Weekly1
  MaxArrivals = 2
  MaxHands = 1
  ReviewWindows = {1, 8}
  MaxAgeTicks = 8
  StaleTicks = 1
  RunTicks = 1
  MaxFaults = 2
  Scenarios <- FeedsOrNights
CHECK_DEADLOCK FALSE
INVARIANTS
  GapsAreReal
  SilenceMeansReclaimed
  AlarmsAreEarned
PROPERTIES
  VerdictsStand
