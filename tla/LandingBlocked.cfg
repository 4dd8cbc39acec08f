\* A refused delivery ahead of the one whose control file comes: the DagRun the
\* control file asks for takes the refused one.
CONSTANTS
  a1 = a1  a2 = a2  a3 = a3  a4 = a4  none = none
  Deliveries = {a1, a2, a3}
  Late = {a3}
  Unreadable = {}
  Bad = {a2}
  Quiet = {a1}
  Undescribable = {a2}
  None = none
  MonthOf <- MCMonthOf
  Order <- MCOrder
  DateOf <- MCDateOf
  KeepDays = 2
  KeepMonthEnds = 1
  LandingDays = 2
  ReadyDays = 1
  MaxDay = 4
  MaxFaults = 0
SPECIFICATION Spec
PROPERTIES
  UnblockedIsIngested
