\* Takeovers, expiry and crashes: chains of two leases over a short line.
SPECIFICATION Spec
CONSTANTS
  d1 = d1
  d2 = d2
  w1 = w1
  Devices = {d1, d2}
  Creator = d1
  LeaseSigs = {2, 3}
  SnapIds = {1, 2}
  Workers = {w1}
  MaxOffers = 2
  MaxCrashes = 1
  Expirable = {1}
INVARIANTS
  ReloadKeepsHead
  AckedIsLoaded
PROPERTIES
  HeadNeverRewinds
CHECK_DEADLOCK FALSE
