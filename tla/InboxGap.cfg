\* A container one of whose puts failed, and a later one with the member that landed.
CONSTANTS
  plain = plain  zips = zips  own = own
  pos = pos  ctl = ctl  zip = zip  ready = ready   odd = odd  posok = posok
  b1 = b1  b2 = b2  k1 = k1  k2 = k2  k3 = k3
  z1 = z1  z2 = z2  z4 = z4  z5 = z5  m1 = m1  m2 = m2  m3 = m3
  d1 = d1  torn = torn  none = none
  Files = {zip}
  Feeds = {plain, zips, own}
  DoorControls = {}
  Arrival = {plain, zips}
  Gated = {plain}
  Archive = {zips}
  Dates = {d1}
  Bytes = {b1, b2, k1, k2, k3, z1, z2, z4, z5, m1, m2, m3}
  Torn = torn
  None = none
  Order <- MCOrder
  NameClaims <- MCNameClaims
  SourceClaims <- MCSourceClaims
  ControlClaims <- MCControlClaims
  ControlOf <- MCControlOf
  NameDate <- MCNameDate
  KeyOf <- MCKeyOf
  Sent <- MCSent
  Says <- MCSays
  Members <- MCMembers
  Stable = 2
  MaxVersion = 2
  MaxDrops = 2
  MaxFaults = 1
SPECIFICATION Spec
INVARIANT ResendsAreNotVersions
