\* One delivery, direct sessions and a relay both sides poll.
SPECIFICATION Spec
CONSTANTS
  e1 = e1
  e2 = e2
  p1 = p1
  r1 = r1
  r2 = r2
  None = None
  Ids = {e1}
  Peers = {p1}
  Recipient <- OnePeer
  Relays = {r1}
  RelayAfter = 1
  MaxAttempts = 2
  Cancellable = {e1}
  Revocable = {p1}
  MaxFaults = 2
INVARIANTS
  AckedMeansCommitted
  DurableStatesRest
  AwaitingMeansDeposited
PROPERTIES
  SettledStays
  WithdrawnIsNotSent
  RevokedPeerIsNotSent
CHECK_DEADLOCK FALSE
