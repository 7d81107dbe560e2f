---------------------------- MODULE MCRelayQueue ----------------------------
(* One device has two offers for another; the ids put an ack before and one  *)
(* behind the deliveries.                                                    *)
EXTENDS RelayQueue, TLC

CONSTANTS x, y, o1, o2

MCSender    == (o1 :> x) @@ (o2 :> x)
MCRecipient == (o1 :> y) @@ (o2 :> y)

MCAttempts == ("delivery" :> 1) @@ ("ack" :> 2)

IdsOf(kind, o) ==
  [n \in 1 .. Attempts[kind] |-> [offer |-> o, kind |-> kind, n |-> n]]
MCIdOrder ==
  IdsOf("ack", o2) \o IdsOf("delivery", o1) \o IdsOf("delivery", o2) \o IdsOf("ack", o1)
=============================================================================
