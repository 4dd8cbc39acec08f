\* Two dates, a build about each, windows of a day or two, one failure.
CONSTANTS
  i1 = i1  i2 = i2  b1 = b1  b2 = b2
  Ingests = {i1, i2}
  Builds = {b1, b2}
  DateOf <- MCDateOf
  MonthOf <- MCMonthOf
  KeepDays = 1
  KeepMonthEnds = 0
  Undated = {}
  TagDays = 2
  SnapshotDays = 1
  LandingDays = 2
  AbandonDays = 1
  CutoffDays = 1
  DeferDays = 0
  OrphanDays = 1
  RecentDays = 1
  None = None
  MaxDay = 5
  MaxFaults = 1
SPECIFICATION Spec
INVARIANTS
  PinsReadable
  PublicationsKept
PROPERTIES
  NightListsGarbage
  GarbageGoes
