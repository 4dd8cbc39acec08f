\* One DagRun that is cleared and run again, with one fault.
CONSTANTS
  x1 = x1  x1b = x1b  x2 = x2
  r1 = r1  r2 = r2
  regulatory = regulatory  dashboard = dashboard  op = op
  Deliveries = {x1, x1b}
  Builds = {r1}
  Reports = {regulatory, dashboard}
  Operators = {op}
  DateOf <- MCDateOf
  Restate <- MCRestate
  Lookback = 3
  MaxOpens = 2
  MaxFaults = 1
  MaxTransitions = 0
  MaxTries = 2
SPECIFICATION FairSpec
\* Builds end, and people need not type anything.
CHECK_DEADLOCK FALSE
INVARIANTS
  OnePublicationOneVersion
PROPERTIES
  BuildsEnd
