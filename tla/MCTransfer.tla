----------------------------- MODULE MCTransfer -----------------------------
(* Three objects: an empty one, one that takes two streams and one that is   *)
(* only of use to a native resume.                                           *)
EXTENDS Transfer, TLC

CONSTANTS empty, bundle, native

MCOrder == <<empty, bundle, native>>
MCSize  == (empty :> 0) @@ (bundle :> 2) @@ (native :> 2)
=============================================================================
