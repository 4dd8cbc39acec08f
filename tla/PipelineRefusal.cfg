\* Every contract can place the Transport: what is refused is refused for
\* what another run did.
CONSTANTS
  t1 = t1
  good = good  short = short  lost = lost
  None = None
  Transports = {t1}
  Archives = {t1}
  Contracts = {good, short}
  NoIdentity <- MCNone
  FailsChecks <- MCFailsChecks
  MaxTries = 2
  MaxEvents = 2
SPECIFICATION MCSpec
INVARIANTS
  DeliveryRefusalIsFinal
