----------------------------- MODULE MCDelivery -----------------------------
(* Small instances of Delivery for TLC.                                    *)
EXTENDS Delivery, TLC

CONSTANTS e1, e2, p1, r1, r2

OnePeer == [e \in Ids |-> p1]

=============================================================================
