---------------------------- MODULE MCCheckpoint ---------------------------
(* The bounds of the model checker's instances of Checkpoint.              *)
EXTENDS Checkpoint

CONSTANTS r, c, k1, k2
MCOthers == {c}
MCCommands == {k1, k2}
=============================================================================
