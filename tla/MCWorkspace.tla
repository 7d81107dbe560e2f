---------------------------- MODULE MCWorkspace ----------------------------
(* The bounds of the model checker's instances of Workspace are numbers in  *)
(* the configurations.                                                      *)
EXTENDS Workspace
=============================================================================
