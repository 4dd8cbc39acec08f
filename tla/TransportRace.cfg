\* Two producers race and are retried; one file may change under one of them.
CONSTANTS
  p1 = p1  p2 = p2
  c1 = c1  c2 = c2
  early = early  late = late
  none = none
  Absent = none
  Producers = {p1, p2}
  FileCount = 2
  Contents = {c1, c2}
  Observed = {early, late}
  Conditional = TRUE
  MaxRuns = 2
  MaxFaults = 1
  MaxRewrites = 1
SPECIFICATION MCSpec
\* A producer that is done, or has failed for the last time, stops.
CHECK_DEADLOCK FALSE
INVARIANTS
  MarkerIsTrue
PROPERTIES
  ImplementsHandover
  StableIsPublished
