\* One directory: edits, snapshots, replacements, a linked accept and a grant.
SPECIFICATION Spec
CONSTANTS
  MaxContents = 2
  MaxSnapshots = 2
  MaxTroubles = 1
INVARIANTS
  NothingLost
  ReadMeansImported
  ForwardedOnce
PROPERTIES
  RestoredExactly
CHECK_DEADLOCK FALSE
