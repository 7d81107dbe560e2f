\* A workspace made by init is edited and replaced.
SPECIFICATION Spec
CONSTANTS
  MaxContents = 2
  MaxSnapshots = 2
  MaxTroubles = 1
INVARIANTS
  KeepsLocalEdits
CHECK_DEADLOCK FALSE
