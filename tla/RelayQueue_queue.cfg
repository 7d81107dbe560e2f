\* Two deliveries over a relay with room for two and a half.
SPECIFICATION Spec
CONSTANTS
  x = x
  y = y
  o1 = o1
  o2 = o2
  Devices = {x, y}
  Offers = {o1, o2}
  Sender <- MCSender
  Recipient <- MCRecipient
  Refused = {}
  Attempts <- MCAttempts
  IdOrder <- MCIdOrder
  Bulk = 2
  Slip = 1
  Cap = 5
  Batch = 2
  Retention = 1
  MaxDay = 1
  MaxFaults = 1
  Nothing = Nothing
INVARIANTS
  AcceptedSurvives
  Accounted
  CanStart
PROPERTIES
  RelayKeepsPromise
  Acknowledged
CHECK_DEADLOCK FALSE
