------------------------------ MODULE MCTrust ------------------------------
(* Small instances of Trust for TLC.                                       *)
EXTENDS Trust, TLC

CONSTANTS guest, q, r, own, theirs, invite, pause, s1, s2

\* guest carries the tokens of q; q is a full device that invites this one.
MCIssuer  == own :> Self @@ theirs :> q
MCBearer  == own :> guest @@ theirs :> guest
MCNone    == <<>>
MCInviter == invite :> q
MCSigner  == pause :> q
MCNoOne   == <<>>
SessionSymmetry == Permutations({s1, s2})
=============================================================================
