\* Two sessions for one offer, with a rotten chunk, a lost link and a restart.
SPECIFICATION Spec
CONSTANTS
  empty = empty
  bundle = bundle
  native = native
  Order <- MCOrder
  Size <- MCSize
  Native = {native}
  Portable = {empty, bundle}
  SkipNative = TRUE
  GuestSender = FALSE
  Small = 1
  Sessions = {s1, s2}
  MaxLosses = 1
  MaxRot = 1
  MaxCrashes = 1
  NoSession = NoSession
  NoFile = NoFile
INVARIANTS
  AckedIsStored
PROPERTIES
  OnlyTrueBytesEnter
  Delivered
CHECK_DEADLOCK FALSE
