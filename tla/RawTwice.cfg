\* Two unpooled runs of one Delivery.
CONSTANTS
  ta = ta  tb = tb
  d1 = d1  d2 = d2  d3 = d3  d4 = d4
  jan = jan  feb = feb
  r1 = r1  r1b = r1b  r2 = r2  r3 = r3  r4 = r4
  Housekeeper = hk
  Tables = {ta}
  Deliveries = {d1}
  Dates = {jan}
  TableOf <- MCTableOf
  CobDateOf <- MCCobDateOf
  Bad <- MCBad
  DeliveryOf <- MCDeliveryOf
  Runs = {r1, r1b}
  Pooled = {hk}
  MaxTries = 1
  MaxFaults = 0
  MaxChores = 0
  Versions = {1, 2}
SPECIFICATION Spec
\* A run that is done, refused or out of tries has nothing left to do.
CHECK_DEADLOCK FALSE
INVARIANT DeliveredOnce
