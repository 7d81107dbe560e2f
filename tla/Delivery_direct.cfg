\* Direct sessions only: two deliveries to one peer, one of them cancellable.
SPECIFICATION FairSpec
CONSTANTS
  e1 = e1
  e2 = e2
  p1 = p1
  r1 = r1
  r2 = r2
  None = None
  Ids = {e1, e2}
  Peers = {p1}
  Recipient <- OnePeer
  Relays = {}
  RelayAfter = 1
  MaxAttempts = 3
  Cancellable = {e1}
  Revocable = {}
  MaxFaults = 2
INVARIANTS
  TypeOK
  PhaseMatchesRow
PROPERTIES
  KeepsPromise
  EventuallySettled
  EventuallyAckedOrReplayed
CHECK_DEADLOCK FALSE
