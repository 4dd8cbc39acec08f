\* The platform as deployed: every writer holds the lakehouse_write slot.
CONSTANTS
  ta = ta  tb = tb
  d1 = d1  d2 = d2  d3 = d3  d4 = d4
  jan = jan  feb = feb
  r1 = r1  r1b = r1b  r2 = r2  r3 = r3  r4 = r4
  Housekeeper = hk
  Tables = {ta, tb}
  Deliveries = {d1, d3, d4}
  Dates = {jan, feb}
  TableOf <- MCTableOf
  CobDateOf <- MCCobDateOf
  Bad <- MCBad
  DeliveryOf <- MCDeliveryOf
  Runs = {r1, r1b, r3, r4}
  Pooled = {r1, r1b, r3, r4, hk}
  MaxTries = 2
  MaxFaults = 1
  MaxChores = 1
  Versions = {1, 2}
SPECIFICATION Spec
\* A run that is done, refused or out of tries has nothing left to do.
CHECK_DEADLOCK FALSE
INVARIANTS
  NothingRefusedOnMain
  DeliveredOnce
  CommittedIsTrue
