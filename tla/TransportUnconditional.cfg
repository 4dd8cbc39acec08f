\* The same race on a store that ignores IfNoneMatch.
CONSTANTS
  p1 = p1  p2 = p2
  c1 = c1  c2 = c2
  early = early  late = late
  none = none
  Absent = none
  Producers = {p1, p2}
  FileCount = 1
  Contents = {c1, c2}
  Observed = {early}
  Conditional = FALSE
  MaxRuns = 1
  MaxFaults = 0
  MaxRewrites = 0
SPECIFICATION PublishSpec
\* A producer that is done, or has failed for the last time, stops.
CHECK_DEADLOCK FALSE
INVARIANT MarkerIsTrue
