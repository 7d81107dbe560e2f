------------------------------ MODULE Handoff ------------------------------
(***************************************************************************)
(* What the outbox promises the caller of `send`, whatever happens to the  *)
(* daemons, the connections and the relays in between (DESIGN.md, "outbox  *)
(* -> health-check -> transfer -> ack").  A delivery is owed from the      *)
(* moment it is enqueued.  It may reach its recipient at any time after    *)
(* that, and the duty is cleared only once the recipient has it.  The duty *)
(* may be dropped: cancelled by the user or given up.                      *)
(*                                                                         *)
(* A settled duty is final, except for the deliveries in Reopenable: there *)
(* an attempt that was under way when the duty was settled may still write *)
(* its own outcome over it.                                                *)
(*                                                                         *)
(* Delivery implements it for the outbox, RelayQueue for what goes by way  *)
(* of a relay.                                                             *)
(***************************************************************************)

CONSTANTS
  Ids,         \* deliveries
  Reopenable   \* the deliveries whose settled duty may be taken up again

VARIABLES
  duty,        \* duty[e]: what the sender still owes for e
  received     \* the deliveries their recipient has durably

vars == <<duty, received>>

Duty == {"absent", "owed", "cleared", "dropped"}

TypeOK ==
  /\ duty \in [Ids -> Duty]
  /\ received \subseteq Ids

Init ==
  /\ duty = [e \in Ids |-> "absent"]
  /\ received = {}

Accept(e) ==
  /\ duty[e] = "absent"
  /\ duty' = [duty EXCEPT ![e] = "owed"]
  /\ UNCHANGED received

Receive(e) ==
  /\ duty[e] # "absent"
  /\ received' = received \cup {e}
  /\ UNCHANGED duty

\* Acks for all of S are recorded at once.
Clear(S) ==
  /\ S \subseteq received
  /\ \A e \in S : \/ duty[e] = "owed"
                  \/ duty[e] = "dropped" /\ e \in Reopenable
  /\ duty' = [e \in Ids |-> IF e \in S THEN "cleared" ELSE duty[e]]
  /\ UNCHANGED received

Drop(S) ==
  /\ \A e \in S : duty[e] = "owed"
  /\ duty' = [e \in Ids |-> IF e \in S THEN "dropped" ELSE duty[e]]
  /\ UNCHANGED received

Reopen(e) ==
  /\ e \in Reopenable
  /\ duty[e] \in {"cleared", "dropped"}
  /\ \E d \in {"owed", "dropped"} : duty' = [duty EXCEPT ![e] = d]
  /\ UNCHANGED received

Next ==
  \/ \E e \in Ids : Accept(e) \/ Receive(e) \/ Reopen(e)
  \/ \E S \in SUBSET Ids : Clear(S) \/ Drop(S)

Spec == Init /\ [][Next]_vars

=============================================================================
