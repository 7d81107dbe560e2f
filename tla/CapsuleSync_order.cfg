\* Offers out of order: a line of three snapshots and three offers.
SPECIFICATION Spec
CONSTANTS
  d1 = d1
  d2 = d2
  w1 = w1
  Devices = {d1, d2}
  Creator = d1
  LeaseSigs = {2}
  SnapIds = {1, 2, 3}
  Workers = {w1}
  MaxOffers = 3
  MaxCrashes = 0
  Expirable = {}
CONSTRAINT IdsInOrder
INVARIANTS
  CaughtUp
CHECK_DEADLOCK FALSE
