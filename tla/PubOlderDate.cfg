\* A late Delivery for a locked date, published by the next date's build.
CONSTANTS
  x1 = x1  x1b = x1b  x2 = x2
  r1 = r1  r2 = r2
  regulatory = regulatory  dashboard = dashboard  op = op
  Deliveries = {x1, x1b, x2}
  Builds = {r1, r2}
  Reports = {regulatory}
  Operators = {op}
  DateOf <- MCDateOf
  Restate <- MCRestate
  Lookback = 3
  MaxOpens = 1
  MaxFaults = 0
  MaxTransitions = 1
  MaxTries = 2
SPECIFICATION Spec
\* Builds end, and people need not type anything.
CHECK_DEADLOCK FALSE
PROPERTY MovedClosedDateIsRefused
