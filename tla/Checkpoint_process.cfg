\* Capture, resume and restore around a tree of up to two processes.
SPECIFICATION Spec
CONSTANTS
  r = r
  c = c
  k1 = k1
  k2 = k2
  Root = r
  Others <- MCOthers
  Commands <- MCCommands
  Features = {"avx"}
  MaxBirths = 2
  MaxWrites = 1
  MaxKills = 1
  MaxSignals = 1
INVARIANTS
  CopiedWhileStopped
  NeverAStranger
  RestoredHasItsFiles
PROPERTY
  SaysResumed
CHECK_DEADLOCK FALSE
