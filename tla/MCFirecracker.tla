--------------------------- MODULE MCFirecracker ---------------------------
EXTENDS Firecracker, TLC

CONSTANTS a, b

SlotSymmetry == Permutations(Slots)
=============================================================================
