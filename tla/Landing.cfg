\* Three dates of two months: one that waits for its control file, one that no
\* DagRun is asked for and the registry cannot describe, and an ordinary one.
CONSTANTS
  a1 = a1  a2 = a2  a3 = a3  a4 = a4  none = none
  Deliveries = {a1, a2, a3}
  Late = {a1}
  Unreadable = {}
  Bad = {}
  Quiet = {a2}
  Undescribable = {a2}
  None = none
  MonthOf <- MCMonthOf
  Order <- MCOrder
  DateOf <- MCDateOf
  KeepDays = 1
  KeepMonthEnds = 1
  LandingDays = 1
  ReadyDays = 1
  MaxDay = 4
  MaxFaults = 1
SPECIFICATION Spec
INVARIANTS
  HistoryKept
  PartsUntilIngested
PROPERTIES
  PollNeverRevives
  RegistryConverges
  PollsDeliver
