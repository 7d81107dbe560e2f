----------------------------- MODULE MCCapsule -----------------------------
(* Small instances of CapsuleSync for TLC.                                 *)
EXTENDS CapsuleSync

CONSTANTS d1, d2, w1

\* The behaviours in which ids grow along a line, and none is left out.
IdsInOrder ==
  /\ \A s \in AllSnaps : s.parent < s.id
  /\ \A s \in AllSnaps : \A id \in SnapIds : id < s.id => id \in Ids(AllSnaps)
=============================================================================
