\* Two slots, with a command on each at any time.
SPECIFICATION Spec
CONSTANTS
  a = a
  b = b
  Slots = {a, b}
  MaxVms = 3
  MaxWrites = 1
  MaxFaults = 1
SYMMETRY SlotSymmetry
INVARIANTS
  Coherent
  CapturedAtOnce
  RunsAgain
  Reachable
CHECK_DEADLOCK FALSE
