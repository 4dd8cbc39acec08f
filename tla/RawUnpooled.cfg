\* A DagRun (three tries) beside a command-line ingest (outside the pool, one
\* try), housekeeping's chores, and one fault.
CONSTANTS
  ta = ta  tb = tb
  d1 = d1  d2 = d2  d3 = d3  d4 = d4
  jan = jan  feb = feb
  r1 = r1  r1b = r1b  r2 = r2  r3 = r3  r4 = r4
  Housekeeper = hk
  Tables = {ta}
  Deliveries = {d1, d2}
  Dates = {jan}
  TableOf <- MCTableOf
  CobDateOf <- MCCobDateOf
  Bad <- MCBad
  DeliveryOf <- MCDeliveryOf
  Runs = {r1, r2}
  Pooled = {r1, hk}
  MaxTries = 3
  MaxFaults = 1
  MaxChores = 2
  Versions = {1, 2, 3}
SPECIFICATION FairSpec
\* A run that is done, refused or out of tries has nothing left to do.
CHECK_DEADLOCK FALSE
INVARIANTS
  LaterIsNewer
  TagNamesOwnMerge
PROPERTIES
  Implements
  GoodDeliveriesArrive
