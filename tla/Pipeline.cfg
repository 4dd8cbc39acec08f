\* One Transport; any two of a CLI call, an edit, a lost write, a failing walk.
CONSTANTS
  t1 = t1
  good = good  short = short  lost = lost
  None = None
  Transports = {t1}
  Archives = {t1}
  Contracts = {good, short, lost}
  NoIdentity <- MCNoIdentity
  FailsChecks <- MCFailsChecks
  MaxTries = 2
  MaxEvents = 2
SPECIFICATION MCSpec
INVARIANTS
  ReceiptHasEvidence
PROPERTIES
  Implements
  Settles
