--------------------------- MODULE DeliveryProofs ---------------------------
(***************************************************************************)
(* What holds of Delivery for every number of deliveries, peers, relays,   *)
(* attempts and faults, and that it implements Handoff.                    *)
(***************************************************************************)
EXTENDS Delivery, TLAPS

----------------------------------------------------------------------------
(* The row operators.                                                      *)

\* The rows an outbox starts from are rows.
LEMMA FreshRows == NoRow \in Row /\ NewRow \in Row
BY MaxAttemptsAssumption DEF Row, NoRow, NewRow, OutboxState, AttemptCeiling

\* Every mutator of a row yields a row: the attempts stay within the ceiling.
LEMMA RowTypes ==
  ASSUME NEW row \in Row, NEW other \in Row
  PROVE  /\ FailAttempt(row) \in Row
         /\ ApplyAck(row) \in Row
         /\ MarkRelayDeposited(row) \in Row
         /\ Cancel(row) \in Row
         /\ SyncRow(row, other) \in Row
         /\ \A s \in OutboxState : Transition(row, s) \in Row
         /\ [row EXCEPT !.due = TRUE] \in Row
<1>1. AttemptCeiling \in Nat /\ AttemptCeiling >= 2
  BY MaxAttemptsAssumption DEF AttemptCeiling
<1>2. Ceil(row.attempts + 1) \in 0 .. AttemptCeiling
  BY <1>1 DEF Row, Ceil
<1>3. FailAttempt(row) \in Row
  BY <1>2 DEF Row, FailAttempt, OutboxState
<1>4. /\ ApplyAck(row) \in Row
      /\ MarkRelayDeposited(row) \in Row
      /\ Cancel(row) \in Row
      /\ SyncRow(row, other) \in Row
      /\ [row EXCEPT !.due = TRUE] \in Row
  BY DEF Row, ApplyAck, MarkRelayDeposited, Cancel, SyncRow, OutboxState
<1>5. \A s \in OutboxState : Transition(row, s) \in Row
  BY DEF Row, Transition, OutboxState
<1> QED
  BY <1>3, <1>4, <1>5

----------------------------------------------------------------------------
(* Type correctness.                                                       *)

\* While the worker serves, it serves a delivery.
Serving == phase \notin {"idle", "batch"} => cur \in Ids

\* The type invariant as the steps keep it.
Typed == TypeOK /\ Serving

\* Before the first delivery every file is empty.
LEMMA TypeInit == Init => TypeOK
<1> SUFFICES ASSUME Init PROVE TypeOK
  OBVIOUS
<1>1. /\ outbox \in [Ids -> Row]
      /\ copy \in [Ids -> Row]
      /\ view \in [Ids -> Row]
  BY FreshRows DEF Init
<1>2. handler \in [Ids -> {"none"} \cup Receiving \cup Completing]
  BY DEF Init
<1>3. faults \in 0 .. MaxFaults
  BY DeliveryAssumption DEF Init
<1>4. /\ old \subseteq Ids /\ trusted \subseteq Peers
      /\ deposited \subseteq Ids \X Relays
      /\ phase \in Phase /\ batch \subseteq Ids /\ cur \in Ids \cup {None}
      /\ todo \subseteq Relays /\ put \in BOOLEAN
      /\ polling \in Relays \cup {None}
  BY DEF Init, Phase
<1>5. /\ committed \subseteq Ids /\ pendingAck \subseteq Ids /\ ackWire \subseteq Ids
      /\ pickup \subseteq Ids \X Relays \X {"received", "replied"}
      /\ mail \subseteq Ids \X Relays
      /\ receipts \subseteq Ids \X Relays
  BY DEF Init
<1> QED
  BY <1>1, <1>2, <1>3, <1>4, <1>5 DEF TypeOK

\* What the user does, and time passing.
LEMMA TypeUser == TypeOK /\ UserStep => TypeOK'
<1> SUFFICES ASSUME TypeOK, UserStep PROVE TypeOK'
  OBVIOUS
<1> USE DEF TypeOK, durable, worker, poll, receiver, relay
<1>1. ASSUME NEW e \in Ids, Enqueue(e) PROVE TypeOK'
  BY <1>1, FreshRows DEF Enqueue
<1>2. ASSUME NEW e \in Ids, CancelRow(e) PROVE TypeOK'
  BY <1>2, RowTypes DEF CancelRow
<1>3. ASSUME NEW e \in Ids, Elapse(e) PROVE TypeOK'
  BY <1>3, RowTypes DEF Elapse
<1>4. ASSUME NEW e \in Ids, Age(e) PROVE TypeOK'
  BY <1>4 DEF Age
<1>5. ASSUME NEW p \in Peers, Distrust(p) PROVE TypeOK'
  BY <1>5 DEF Distrust
<1> QED
  BY <1>1, <1>2, <1>3, <1>4, <1>5 DEF UserStep

\* The worker, from the collection of a tick to the end of a deposit.
LEMMA TypeWorker == Typed /\ WorkerStep => TypeOK'
<1> SUFFICES ASSUME Typed, WorkerStep PROVE TypeOK'
  OBVIOUS
<1> USE DEF Typed, TypeOK, durable, worker, poll, receiver, relay
<1>1. CASE Collect
  <2>1. outbox' \in [Ids -> Row]
    BY <1>1, RowTypes DEF Collect
  <2>2. copy' \in [Ids -> Row]
    BY <1>1, FreshRows DEF Collect
  <2> QED
    BY <1>1, <2>1, <2>2 DEF Collect, Phase
<1>2. CASE TickDone
  BY <1>2 DEF TickDone, Phase
<1>3. ASSUME NEW e \in Ids, DialFailed(e) PROVE TypeOK'
  <2>1. outbox' \in [Ids -> Row] /\ copy' \in [Ids -> Row]
    <3>1. outbox[e] \in Row
      BY DEF Typed, TypeOK
    <3>2. FailAttempt(outbox[e]) \in Row
      BY <3>1, RowTypes
    <3>3. outbox' \in [Ids -> Row]
      BY <1>3, <3>2 DEF DialFailed
    <3>4. copy' \in [Ids -> Row]
      BY <1>3, FreshRows DEF DialFailed
    <3> QED
      BY <3>3, <3>4
  <2> QED
    BY <1>3, <2>1, DeliveryAssumption DEF DialFailed, Phase, Fault
<1>4. ASSUME NEW e \in Ids, DialOk(e) PROVE TypeOK'
  <2> DEFINE row == Expire(copy[e], e \in old)
  <2>1. row \in Row
    BY DEF Expire, Row, OutboxState
  <2>2. FailAttempt(row) \in Row /\ Transition(row, "healthcheck") \in Row
    BY <2>1, RowTypes DEF OutboxState
  <2>3. copy' \in [Ids -> Row]
    BY <1>4, <2>2 DEF DialOk
  <2>4. handler' \in [Ids -> {"none"} \cup Receiving \cup Completing]
    BY <1>4 DEF DialOk, Receiving
  <2> QED
    BY <1>4, <2>3, <2>4 DEF DialOk, Phase, SessionPhase
<1>5. ASSUME NEW e \in Ids, EndInError(e), SessionUnchanged, faults' \in 0 .. MaxFaults
      PROVE  TypeOK'
  <2>1. copy' \in [Ids -> Row]
    BY <1>5, RowTypes DEF EndInError
  <2>2. handler' \in [Ids -> {"none"} \cup Receiving \cup Completing]
    BY <1>5 DEF EndInError
  <2> QED
    BY <1>5, <2>1, <2>2 DEF EndInError, SessionUnchanged, Phase
<1>6. ASSUME NEW e \in Ids, NEW to \in OutboxState, NEW next \in SessionPhase,
             Advance(e, to, next), SessionUnchanged, UNCHANGED faults
      PROVE  TypeOK'
  <2>1. CASE Legal(copy[e].state, to)
    <3>1. copy[e] \in Row
      BY <1>6
    <3>2. Transition(copy[e], to) \in Row
      BY <1>6, <3>1, RowTypes
    <3>3. copy' \in [Ids -> Row]
      BY <1>6, <2>1, <3>2 DEF Advance
    <3> QED
      BY <1>6, <2>1, <3>3 DEF Advance, SessionUnchanged, Phase
  <2>2. CASE ~ Legal(copy[e].state, to)
    BY <1>5, <1>6, <2>2 DEF Advance
  <2> QED
    BY <2>1, <2>2
<1>7. CASE SessionError \/ PeerGone \/ TrustChecked
  <2> cur \in Ids /\ SessionUnchanged
    BY <1>7 DEF Serving, SessionError, PeerGone, TrustChecked, SessionPhase
  <2>1. faults' \in 0 .. MaxFaults
    BY <1>7, DeliveryAssumption DEF SessionError, PeerGone, TrustChecked, Fault
  <2>2. CASE EndInError(cur)
    BY <1>5, <2>1, <2>2
  <2>3. CASE TrustChecked /\ ~EndInError(cur)
    BY <2>3 DEF TrustChecked, SessionUnchanged, Phase, SessionPhase
  <2> QED
    BY <1>7, <2>2, <2>3 DEF SessionError, PeerGone
<1>8. CASE HealthOk
  <2>1. copy' \in [Ids -> Row]
    BY <1>8, RowTypes DEF HealthOk
  <2> QED
    BY <1>8, <2>1 DEF HealthOk, SessionUnchanged, Phase, SessionPhase
<1>9. CASE OfferAccepted \/ HaveReceived \/ StreamDone
  <2> cur \in Ids /\ SessionUnchanged /\ UNCHANGED faults
    BY <1>9 DEF Serving, OfferAccepted, HaveReceived, StreamDone
  <2> QED
    BY <1>6, <1>9 DEF OfferAccepted, HaveReceived, StreamDone, SessionPhase, OutboxState
<1>10. CASE AckRead
  <2> cur \in Ids /\ SessionUnchanged /\ UNCHANGED faults
    BY <1>10 DEF Serving, AckRead
  <2>1. CASE AckAccepted(copy[cur])
    <3>1. copy[cur] \in Row /\ ApplyAck(copy[cur]) \in Row
      BY DEF ApplyAck, Row, OutboxState
    <3>2. copy' \in [Ids -> Row]
      BY <1>10, <2>1, <3>1 DEF AckRead
    <3> QED
      BY <1>10, <2>1, <3>2 DEF AckRead, SessionUnchanged, Phase
  <2>2. CASE ~ AckAccepted(copy[cur])
    BY <1>5, <1>10, <2>2 DEF AckRead
  <2> QED
    BY <2>1, <2>2
<1>11. CASE Report
  <2>1. outbox' \in [Ids -> Row] /\ copy' \in [Ids -> Row]
    BY <1>11, RowTypes, FreshRows DEF Report
  <2> QED
    BY <1>11, <2>1 DEF Report, Phase
<1>12. CASE ReportLost
  <2>1. copy' \in [Ids -> Row]
    BY <1>12, FreshRows DEF ReportLost
  <2> QED
    BY <1>12, <2>1, DeliveryAssumption DEF ReportLost, Phase, Fault
<1>13. CASE DepositNotDue \/ DepositStart
  BY <1>13 DEF DepositNotDue, DepositStart, Phase
<1>14. CASE DepositDone
  <2>1. outbox' \in [Ids -> Row]
    BY <1>14, RowTypes DEF DepositDone
  <2> QED
    BY <1>14, <2>1 DEF DepositDone, Phase
<1>15. ASSUME NEW r \in Relays, DepositTo(r) PROVE TypeOK'
  <2>1. <<cur, r>> \in Ids \X Relays
    BY <1>15 DEF DepositTo, Serving
  <2> QED
    BY <1>15, <2>1 DEF DepositTo
<1>16. ASSUME NEW r \in Relays, DepositFailed(r) PROVE TypeOK'
  <2>1. <<cur, r>> \in Ids \X Relays
    BY <1>16 DEF DepositFailed, Serving
  <2>2. faults' \in 0 .. MaxFaults
    BY <1>16, DeliveryAssumption DEF DepositFailed, Fault
  <2> QED
    BY <1>16, <2>1, <2>2 DEF DepositFailed
<1> QED
  BY <1>1, <1>2, <1>3, <1>4, <1>7, <1>8, <1>9, <1>10, <1>11, <1>13, <1>14, <1>15, <1>16, <1>12
  DEF WorkerStep

\* A recipient's handler.
LEMMA TypeHandler ==
  ASSUME TypeOK, NEW e \in Ids, HandlerStep(e)
  PROVE  TypeOK'
<1> USE DEF TypeOK, durable, worker, poll, receiver, relay, HandlerUnchanged
<1>1. handler' \in [Ids -> {"none"} \cup Receiving \cup Completing]
  BY DEF HandlerStep, PeerGreets, PeerAcceptsOffer, PeerAnswersPlan, PeerStages, PeerCommits,
         PeerSigns, PeerWritesAck, PeerForgetsAck, PeerFails, Receiving, Completing
<1>2. faults' \in 0 .. MaxFaults
  BY DeliveryAssumption
     DEF HandlerStep, PeerGreets, PeerAcceptsOffer, PeerAnswersPlan, PeerStages, PeerCommits,
         PeerSigns, PeerWritesAck, PeerForgetsAck, PeerFails, Fault
<1>3. HandlerUnchanged /\ committed' \subseteq Ids /\ pendingAck' \subseteq Ids
        /\ ackWire' \subseteq Ids
  BY DEF HandlerStep, PeerGreets, PeerAcceptsOffer, PeerAnswersPlan, PeerStages, PeerCommits,
         PeerSigns, PeerWritesAck, PeerForgetsAck, PeerFails
<1> QED
  BY <1>1, <1>2, <1>3

\* Both sides' polls and the relays' clocks.
LEMMA TypeRelay == TypeOK /\ RelayStep => TypeOK'
<1> SUFFICES ASSUME TypeOK, RelayStep PROVE TypeOK'
  OBVIOUS
<1> USE DEF TypeOK, durable, worker, poll, receiver, relay
<1>1. ASSUME NEW e \in Ids, NEW r \in Relays,
             PickUp(e, r) \/ PickUpReplies(e, r) \/ PickUpRemoves(e, r)
      PROVE  TypeOK'
  <2>1. /\ <<e, r>> \in Ids \X Relays
        /\ <<e, r, "received">> \in Ids \X Relays \X {"received", "replied"}
        /\ <<e, r, "replied">> \in Ids \X Relays \X {"received", "replied"}
    OBVIOUS
  <2> QED
    BY <1>1, <2>1 DEF PickUp, PickUpReplies, PickUpRemoves
<1>2. ASSUME NEW x \in pickup, PickUpFails(x) PROVE TypeOK'
  BY <1>2, DeliveryAssumption DEF PickUpFails, Fault
<1>3. ASSUME NEW r \in Relays, PollStart(r) PROVE TypeOK'
  BY <1>3 DEF PollStart
<1>4. ASSUME NEW e \in Ids, PollTakesAck(e) PROVE TypeOK'
  <2>1. view' \in [Ids -> Row]
    BY <1>4, RowTypes DEF PollTakesAck
  <2> QED
    BY <1>4, <2>1 DEF PollTakesAck
<1>5. CASE PollDone
  <2>1. outbox' \in [Ids -> Row] /\ view' \in [Ids -> Row]
    BY <1>5, RowTypes, FreshRows DEF PollDone
  <2> QED
    BY <1>5, <2>1 DEF PollDone
<1>6. CASE PollFails
  <2>1. view' \in [Ids -> Row]
    BY <1>6, FreshRows DEF PollFails
  <2> QED
    BY <1>6, <2>1, DeliveryAssumption DEF PollFails, Fault
<1>7. CASE EnvelopeExpires
  BY <1>7 DEF EnvelopeExpires
<1> QED
  BY <1>1, <1>2, <1>3, <1>4, <1>5, <1>6, <1>7 DEF RelayStep

\* Crashes.
LEMMA TypeCrash ==
  TypeOK /\ (SenderCrash \/ \E p \in Peers : PeerCrash(p)) => TypeOK'
<1> USE DEF TypeOK, durable, worker, poll, receiver, relay
<1>1. ASSUME TypeOK, SenderCrash PROVE TypeOK'
  <2>1. copy' \in [Ids -> Row] /\ view' \in [Ids -> Row]
    BY <1>1, FreshRows DEF SenderCrash
  <2>2. handler' \in [Ids -> {"none"} \cup Receiving \cup Completing]
    BY <1>1 DEF SenderCrash
  <2>3. faults' \in 0 .. MaxFaults
    BY <1>1, DeliveryAssumption DEF SenderCrash, Fault
  <2> QED
    BY <1>1, <2>1, <2>2, <2>3 DEF SenderCrash, Phase
<1>2. ASSUME TypeOK, NEW p \in Peers, PeerCrash(p) PROVE TypeOK'
  <2>1. handler' \in [Ids -> {"none"} \cup Receiving \cup Completing]
    BY <1>2 DEF PeerCrash
  <2>2. faults' \in 0 .. MaxFaults
    BY <1>2, DeliveryAssumption DEF PeerCrash, Fault
  <2> QED
    BY <1>2, <2>1, <2>2 DEF PeerCrash
<1> QED
  BY <1>1, <1>2

\* Every action that leaves the worker in the service of a delivery sets cur.
LEMMA ServingNext == Typed /\ [Next]_vars => Serving'
<1> SUFFICES ASSUME Typed, [Next]_vars PROVE Serving'
  OBVIOUS
<1> USE DEF Typed, Serving, durable, worker, poll, receiver, relay
<1>1. CASE WorkerStep
  BY <1>1 DEF WorkerStep, Collect, TickDone, DialFailed, DialOk, SessionError, PeerGone,
       TrustChecked, HealthOk, OfferAccepted, HaveReceived, StreamDone, AckRead, Report, ReportLost,
       DepositNotDue, DepositStart, DepositTo, DepositFailed, DepositDone, EndInError,
       Advance, SessionUnchanged, SessionPhase
<1>2. CASE UNCHANGED <<phase, cur>>
  BY <1>2
<1>3. CASE SenderCrash
  BY <1>3 DEF SenderCrash
<1>4. UserStep \/ RelayStep \/ (\E e \in Ids : HandlerStep(e)) \/ (\E p \in Peers : PeerCrash(p))
        \/ UNCHANGED vars => UNCHANGED <<phase, cur>>
  BY DEF vars, UserStep, Enqueue, CancelRow, Elapse, Age, Distrust, RelayStep, PickUp,
         PickUpReplies, PickUpRemoves, PickUpFails, PollStart, PollTakesAck, PollDone,
         PollFails, EnvelopeExpires, HandlerStep, HandlerUnchanged, PeerGreets,
         PeerAcceptsOffer, PeerAnswersPlan, PeerStages, PeerCommits, PeerSigns,
         PeerWritesAck, PeerForgetsAck, PeerFails, PeerCrash
<1> QED
  BY <1>1, <1>2, <1>3, <1>4 DEF Next

\* Typed is an invariant of every step.
LEMMA TypedNext == Typed /\ [Next]_vars => Typed'
<1>1. ASSUME TypeOK, UNCHANGED vars PROVE TypeOK'
  BY <1>1 DEF TypeOK, vars, durable, worker, poll, receiver, relay
<1> QED
  BY <1>1, TypeUser, TypeWorker, TypeHandler, TypeRelay, TypeCrash, ServingNext DEF Next, Typed

\* Every state of the specification has its type: no operation of the outbox, the
\* worker, a handler or a poll leaves its domain, for any number of deliveries,
\* peers, relays, attempts and faults.
THEOREM TypeCorrect == Spec => []TypeOK
<1>1. Init => Typed
  BY TypeInit DEF Typed, Serving, Init
<1> QED
  BY <1>1, TypedNext, PTL DEF Spec, Typed

----------------------------------------------------------------------------
(* An acked delivery is committed.                                         *)

\* Wherever an ack, or the knowledge of one, can be: in a file, in a detached copy,
\* on a connection, at a relay or in a handler.  None of them is ahead of the
\* recipient's store.
Evidence ==
  /\ \A e \in Ids : \/ outbox[e].state = "acked"
                    \/ copy[e].state = "acked"
                    \/ view[e].state = "acked"
                    \/ handler[e] \in {"committed", "signed", "written"}
                    => e \in committed
  /\ pendingAck \subseteq committed
  /\ ackWire \subseteq committed
  /\ \A x \in pickup : x[1] \in committed
  /\ \A m \in receipts : m[1] \in committed

\* What the mutators of a row do to its state.
LEMMA RowStates ==
  ASSUME NEW row \in Row, NEW other \in Row
  PROVE  /\ NoRow.state = "absent" /\ NewRow.state = "queued"
         /\ FailAttempt(row).state \in {"queued", "failed"}
         /\ ApplyAck(row).state = IF AckAccepted(row) THEN "acked" ELSE row.state
         /\ MarkRelayDeposited(row).state =
              IF Terminal(row.state) \/ row.state = "absent" THEN row.state ELSE "awaiting_ack"
         /\ Cancel(row).state = "cancelled"
         /\ SyncRow(row, other) =
              IF row.state \in {"cancelled", "expired"} THEN row ELSE other
         /\ \A s \in OutboxState : Transition(row, s).state = s
         /\ [row EXCEPT !.due = TRUE].state = row.state
BY DEF NoRow, NewRow, Row, FailAttempt, ApplyAck, MarkRelayDeposited, Cancel, SyncRow, Transition

\* Nothing is stored before the first delivery, so nothing needs evidence.
LEMMA EvidenceInit == Init => Evidence
BY RowStates, FreshRows DEF Init, Evidence, NoRow

\* The user and the worker add no evidence beyond an ack read from the connection.
LEMMA EvidenceUser == Typed /\ Evidence /\ UserStep => Evidence'
<1> SUFFICES ASSUME Typed, Evidence, UserStep PROVE Evidence'
  OBVIOUS
<1>1. ASSUME NEW e \in Ids, outbox'[e].state = "acked" PROVE outbox[e].state = "acked"
  <2> USE DEF Typed, TypeOK
  <2>1. ASSUME NEW d \in Ids, Enqueue(d) PROVE outbox[e].state = "acked"
    BY <1>1, <2>1 DEF Enqueue, NewRow
  <2>2. ASSUME NEW d \in Ids, CancelRow(d) PROVE outbox[e].state = "acked"
    BY <1>1, <2>2 DEF CancelRow, Cancel, Row
  <2>3. ASSUME NEW d \in Ids, Elapse(d) PROVE outbox[e].state = "acked"
    BY <1>1, <2>3 DEF Elapse, Row
  <2> QED
    BY <1>1, <2>1, <2>2, <2>3 DEF UserStep, Age, Distrust
<1>2. UNCHANGED <<copy, view, handler, committed, pendingAck, ackWire, pickup, receipts>>
  BY DEF UserStep, Enqueue, CancelRow, Elapse, Age, Distrust, durable, worker, poll, receiver,
         relay
<1> QED
  BY <1>1, <1>2 DEF Evidence

\* A session applies an ack it read, and writes an acked copy back: the ack was
\* evidence already.  Everything else it writes is not acked.
LEMMA EvidenceWorker == Typed /\ Evidence /\ WorkerStep => Evidence'
<1> SUFFICES ASSUME Typed, Evidence, WorkerStep PROVE Evidence'
  OBVIOUS
<1> USE DEF Typed, TypeOK, durable, worker, poll, receiver, relay
<1>1. ASSUME NEW e \in Ids, outbox'[e].state = "acked"
      PROVE  outbox[e].state = "acked" \/ copy[e].state = "acked"
  <2>1. CASE Collect
    BY <1>1, <2>1, RowStates DEF Collect
  <2>2. ASSUME NEW d \in Ids, DialFailed(d) PROVE outbox[e].state = "acked"
    <3>1. CASE UNCHANGED outbox
      BY <1>1, <3>1
    <3>2. CASE outbox' = [outbox EXCEPT ![d] = FailAttempt(@)]
      BY <1>1, <3>2, RowStates
    <3> QED
      BY <2>2, <3>1, <3>2 DEF DialFailed
  <2>3. CASE Report
    BY <1>1, <2>3 DEF Report, SyncRow
  <2>4. CASE DepositDone
    BY <1>1, <2>4, RowStates DEF DepositDone
  <2>5. CASE UNCHANGED outbox
    BY <1>1, <2>5
  <2> QED
    BY <2>1, <2>2, <2>3, <2>4, <2>5
    DEF WorkerStep, TickDone, DialOk, SessionError, PeerGone, TrustChecked, HealthOk,
        OfferAccepted, HaveReceived, StreamDone, AckRead, SessionUnchanged, ReportLost,
        DepositNotDue, DepositStart, DepositTo, DepositFailed
<1>2. ASSUME NEW e \in Ids, copy'[e].state = "acked"
      PROVE  outbox[e].state = "acked" \/ copy[e].state = "acked" \/ e \in ackWire
  <2>1. CASE Collect
    BY <1>2, <2>1 DEF Collect, NoRow
  <2>2. CASE Report \/ ReportLost \/ \E d \in Ids : DialFailed(d)
    BY <1>2, <2>2 DEF Report, ReportLost, DialFailed, NoRow
  <2>3. ASSUME NEW d \in Ids, DialOk(d) PROVE copy[e].state = "acked"
    <3> DEFINE row == Expire(copy[d], d \in old)
    <3>1. row \in Row
      BY DEF Expire, Row, OutboxState
    <3>2. FailAttempt(row).state # "acked" /\ Transition(row, "healthcheck").state # "acked"
      BY <3>1, RowStates DEF OutboxState
    <3> QED
      BY <1>2, <2>3, <3>2 DEF DialOk
  <2>4. ASSUME NEW d, EndInError(d) PROVE copy[e].state = "acked"
    BY <1>2, <2>4, RowStates DEF EndInError
  <2>5. ASSUME NEW d, NEW to \in OutboxState \ {"acked"}, NEW next, Advance(d, to, next)
        PROVE  copy[e].state = "acked"
    BY <1>2, <2>4, <2>5, RowStates DEF Advance
  <2>6. CASE HealthOk \/ AckRead
    <3>1. CASE e = cur /\ cur \in ackWire
      BY <3>1
    <3>2. CASE cur \notin ackWire
      BY <1>2, <2>6, <3>2 DEF HealthOk, AckRead
    <3>3. CASE e # cur
      <4>1. CASE HealthOk
        BY <1>2, <3>3, <4>1 DEF HealthOk
      <4>2. CASE AckRead /\ AckAccepted(copy[cur])
        BY <1>2, <3>3, <4>2 DEF AckRead
      <4>3. CASE AckRead /\ ~AckAccepted(copy[cur])
        BY <2>4, <4>3 DEF AckRead
      <4> QED
        BY <2>6, <4>1, <4>2, <4>3
    <3> QED
      BY <3>1, <3>2, <3>3
  <2>7. CASE UNCHANGED copy
    BY <1>2, <2>7
  <2> QED
    BY <2>1, <2>2, <2>3, <2>4, <2>5, <2>6, <2>7
    DEF WorkerStep, TickDone, SessionError, PeerGone, TrustChecked, OfferAccepted,
        HaveReceived, StreamDone, DepositNotDue, DepositStart, DepositTo, DepositFailed,
        DepositDone, OutboxState
<1>3. ASSUME NEW e \in Ids, handler'[e] \in {"committed", "signed", "written"}
      PROVE  handler'[e] = handler[e]
  BY <1>3
  DEF WorkerStep, Collect, TickDone, DialFailed, DialOk, SessionError, PeerGone, TrustChecked,
      HealthOk, OfferAccepted, HaveReceived, StreamDone, AckRead, Report, ReportLost, DepositNotDue,
      DepositStart, DepositTo, DepositFailed, DepositDone, EndInError, Advance
<1>4. ackWire' \subseteq ackWire /\ UNCHANGED <<view, committed, pendingAck, pickup, receipts>>
  BY DEF WorkerStep, Collect, TickDone, DialFailed, DialOk, SessionError, PeerGone,
      TrustChecked, HealthOk, OfferAccepted, HaveReceived, StreamDone, AckRead, Report, ReportLost,
      DepositNotDue, DepositStart, DepositTo, DepositFailed, DepositDone, EndInError, Advance,
      SessionUnchanged
<1> QED
  BY <1>1, <1>2, <1>3, <1>4 DEF Evidence

\* A handler signs what it has committed, and only then.
LEMMA EvidenceHandler ==
  ASSUME Typed, Evidence, NEW e \in Ids, HandlerStep(e)
  PROVE  Evidence'
<1> USE DEF Typed, TypeOK, durable, worker, poll, receiver, relay, HandlerUnchanged
<1>1. UNCHANGED <<outbox, copy, view, pickup, receipts>>
  BY DEF HandlerStep, PeerGreets, PeerAcceptsOffer, PeerAnswersPlan, PeerStages, PeerCommits,
         PeerSigns, PeerWritesAck, PeerForgetsAck, PeerFails
<1>2. committed \subseteq committed'
  BY DEF HandlerStep, PeerGreets, PeerAcceptsOffer, PeerAnswersPlan, PeerStages, PeerCommits,
         PeerSigns, PeerWritesAck, PeerForgetsAck, PeerFails
<1>3. ASSUME NEW d \in Ids, handler'[d] \in {"committed", "signed", "written"}
      PROVE  d \in committed'
  BY <1>3
  DEF Evidence, HandlerStep, PeerGreets, PeerAcceptsOffer, PeerAnswersPlan, PeerStages,
      PeerCommits, PeerSigns, PeerWritesAck, PeerForgetsAck, PeerFails
<1>4. pendingAck' \subseteq committed' /\ ackWire' \subseteq committed'
  BY DEF Evidence, HandlerStep, PeerGreets, PeerAcceptsOffer, PeerAnswersPlan, PeerStages,
      PeerCommits, PeerSigns, PeerWritesAck, PeerForgetsAck, PeerFails
<1> QED
  BY <1>1, <1>2, <1>3, <1>4 DEF Evidence

\* A recipient answers over a relay what it has committed; the sender's poll reads it.
LEMMA EvidenceRelay == Typed /\ Evidence /\ RelayStep => Evidence'
<1> SUFFICES ASSUME Typed, Evidence, RelayStep PROVE Evidence'
  OBVIOUS
<1> USE DEF Typed, TypeOK, durable, worker, poll, receiver, relay
<1>1. ASSUME NEW e \in Ids, NEW r \in Relays,
             PickUp(e, r) \/ PickUpReplies(e, r) \/ PickUpRemoves(e, r)
      PROVE  Evidence'
  BY <1>1 DEF Evidence, PickUp, PickUpReplies, PickUpRemoves
<1>2. ASSUME NEW x \in pickup, PickUpFails(x) PROVE Evidence'
  BY <1>2 DEF Evidence, PickUpFails
<1>3. ASSUME NEW r \in Relays, PollStart(r) PROVE Evidence'
  BY <1>3 DEF Evidence, PollStart
<1>4. ASSUME NEW e \in Ids, PollTakesAck(e) PROVE Evidence'
  <2>1. e \in committed
    BY <1>4 DEF Evidence, PollTakesAck
  <2>2. \A d \in Ids : view'[d].state = "acked" => d = e \/ view[d].state = "acked"
    BY <1>4 DEF PollTakesAck
  <2> QED
    BY <1>4, <2>1, <2>2 DEF Evidence, PollTakesAck
<1>5. CASE PollDone
  <2>1. \A d \in Ids : outbox'[d].state = "acked"
                         => outbox[d].state = "acked" \/ view[d].state = "acked"
    BY <1>5, RowStates DEF PollDone
  <2>2. \A d \in Ids : view'[d].state # "acked"
    BY <1>5 DEF PollDone, NoRow
  <2> QED
    BY <1>5, <2>1, <2>2 DEF Evidence, PollDone
<1>6. CASE PollFails
  BY <1>6 DEF Evidence, PollFails, NoRow
<1>7. CASE EnvelopeExpires
  BY <1>7 DEF Evidence, EnvelopeExpires
<1> QED
  BY <1>1, <1>2, <1>3, <1>4, <1>5, <1>6, <1>7 DEF RelayStep

\* A crash loses evidence, never the store.
LEMMA EvidenceCrash ==
  Typed /\ Evidence /\ (SenderCrash \/ \E p \in Peers : PeerCrash(p)) => Evidence'
<1> USE DEF Typed, TypeOK, durable, worker, poll, receiver, relay
<1>1. ASSUME Typed, Evidence, SenderCrash PROVE Evidence'
  BY <1>1 DEF Evidence, SenderCrash, NoRow
<1>2. ASSUME Typed, Evidence, NEW p \in Peers, PeerCrash(p) PROVE Evidence'
  BY <1>2 DEF Evidence, PeerCrash
<1> QED
  BY <1>1, <1>2

\* "Sent only after atomic durable commit" (SPEC.md 6.7): a row is acked only if the
\* recipient's store holds the delivery, whatever crashed or was lost on the way.
THEOREM AckedCommitted == Spec => []AckedMeansCommitted
<1>1. Init => Typed /\ Evidence
  BY TypeInit, EvidenceInit DEF Typed, Serving, Init
<1>2. Typed /\ Evidence /\ [Next]_vars => (Typed /\ Evidence)'
  <2>1. ASSUME Evidence, UNCHANGED vars PROVE Evidence'
    BY <2>1 DEF Evidence, vars, durable, worker, poll, receiver, relay
  <2> QED
    BY <2>1, TypedNext, EvidenceUser, EvidenceWorker, EvidenceHandler, EvidenceRelay,
       EvidenceCrash DEF Next
<1>3. Evidence => AckedMeansCommitted
  BY DEF Evidence, AckedMeansCommitted
<1> QED
  BY <1>1, <1>2, <1>3, PTL DEF Spec

----------------------------------------------------------------------------
(* The course of a row.                                                    *)

\* What the worker and the poll hold fits the phase they are in, so that what they
\* write back is a state in which a row can rest.
Course ==
  /\ DurableStatesRest
  /\ AwaitingMeansDeposited
  /\ PhaseMatchesRow
  /\ \A e \in batch : e # cur /\ copy[e].state \in {"queued", "awaiting_ack"}
  /\ phase \in {"idle", "batch"} => cur = None
  /\ phase = "report_ok" => copy[cur].state = "acked"
  /\ phase = "report_error" => copy[cur].state \in {"queued", "failed"}
  /\ put => phase = "depositing" /\ \E r \in Relays : <<cur, r>> \in deposited

\* No session is under way and every row is absent.
LEMMA CourseInit == Init => Course
BY DEF Init, Course, DurableStatesRest, AwaitingMeansDeposited, PhaseMatchesRow, NoRow,
       SessionPhase

\* A cancel, an expired backoff or a new delivery leaves a row at rest.
LEMMA CourseUser == Typed /\ Course /\ UserStep => Course'
<1> SUFFICES ASSUME Typed, Course, UserStep PROVE Course'
  OBVIOUS
<1>1. ASSUME NEW e \in Ids
      PROVE  \/ outbox'[e].state = outbox[e].state
             \/ outbox'[e].state \in {"queued", "cancelled"}
  <2> USE DEF Typed, TypeOK
  <2>1. ASSUME NEW d \in Ids, Enqueue(d) PROVE outbox'[e].state \in {outbox[e].state, "queued"}
    BY <2>1 DEF Enqueue, NewRow
  <2>2. ASSUME NEW d \in Ids, CancelRow(d)
        PROVE  outbox'[e].state \in {outbox[e].state, "cancelled"}
    BY <2>2 DEF CancelRow, Cancel, Row
  <2>3. ASSUME NEW d \in Ids, Elapse(d) PROVE outbox'[e].state = outbox[e].state
    BY <2>3 DEF Elapse, Row
  <2> QED
    BY <2>1, <2>2, <2>3 DEF UserStep, Age, Distrust
<1>2. UNCHANGED <<worker, deposited>>
  BY DEF UserStep, Enqueue, CancelRow, Elapse, Age, Distrust, durable
<1> QED
  BY <1>1, <1>2 DEF Course, DurableStatesRest, AwaitingMeansDeposited, PhaseMatchesRow, worker

\* An error leaves a session's row queued or failed.
LEMMA CourseError ==
  ASSUME Typed, Course, cur \in Ids, phase \in SessionPhase, EndInError(cur), SessionUnchanged
  PROVE  Course'
<1> USE DEF Typed, TypeOK, durable
<1>1. copy'[cur].state \in {"queued", "failed"}
  BY RowStates DEF EndInError
<1>2. \A e \in batch : copy'[e] = copy[e]
  BY DEF EndInError, Course
<1> QED
  BY <1>1, <1>2 DEF Course, EndInError, SessionUnchanged, DurableStatesRest,
       AwaitingMeansDeposited, PhaseMatchesRow, SessionPhase

\* A legal move takes the copy to the state that the next phase requires.
LEMMA CourseAdvance ==
  ASSUME Typed, Course, cur \in Ids, phase \in SessionPhase, SessionUnchanged,
         NEW to \in OutboxState, NEW next, Advance(cur, to, next),
         <<to, next>> \in {<<"offered", "plan">>, <<"transferring", "stream">>,
                          <<"awaiting_ack", "await">>}
  PROVE  Course'
<1> USE DEF Typed, TypeOK, durable
<1>1. CASE Legal(copy[cur].state, to)
  <2>1. copy'[cur].state = to
    BY <1>1 DEF Advance, Transition, Row
  <2>2. \A e \in batch : copy'[e] = copy[e]
    BY <1>1 DEF Advance, Course
  <2>3. phase' = next
    BY <1>1 DEF Advance
  <2> QED
    BY <2>1, <2>2, <2>3 DEF Course, SessionUnchanged, DurableStatesRest,
       AwaitingMeansDeposited, PhaseMatchesRow, SessionPhase
<1>2. CASE ~ Legal(copy[cur].state, to)
  BY <1>2, CourseError DEF Advance
<1> QED
  BY <1>1, <1>2

\* The end of a deposit makes its row wait for an ack, or leaves it alone.
LEMMA DepositWrites ==
  ASSUME outbox \in [Ids -> Row], DepositDone, NEW e \in Ids
  PROVE  \/ outbox'[e].state = outbox[e].state
         \/ outbox'[e].state = "awaiting_ack" /\ e = cur /\ put
<1>1. \/ outbox' = outbox
      \/ put /\ outbox' = [outbox EXCEPT ![cur] = MarkRelayDeposited(@)]
  BY DEF DepositDone
<1>2. MarkRelayDeposited(outbox[e]).state \in {outbox[e].state, "awaiting_ack"}
  BY DEF MarkRelayDeposited, Row
<1>3. ASSUME outbox' = [outbox EXCEPT ![cur] = MarkRelayDeposited(@)]
      PROVE  \/ outbox'[e].state = outbox[e].state
             \/ outbox'[e].state = "awaiting_ack" /\ e = cur
  BY <1>2, <1>3
<1> QED
  BY <1>1, <1>3

\* The worker.
LEMMA CourseWorker == Typed /\ Course /\ WorkerStep => Course'
<1> SUFFICES ASSUME Typed, Course, WorkerStep PROVE Course'
  OBVIOUS
<1> USE DEF Typed, TypeOK, durable, worker, poll
<1>1. \A e \in Ids : e # None
  BY DeliveryAssumption
<1>2. CASE Collect
  <2>1. \A e \in Ids : \/ outbox'[e] = outbox[e]
                       \/ outbox'[e].state \in {"queued", "failed"}
    BY <1>2, RowStates DEF Collect
  <2>2. \A e \in batch' : copy'[e].state \in {"queued", "awaiting_ack"}
    BY <1>2 DEF Collect, Pending, Terminal, Course, DurableStatesRest
  <2>3. cur' = None /\ batch' \subseteq Ids /\ phase' \in {"idle", "batch"} /\ ~put'
        /\ UNCHANGED deposited
    BY <1>2 DEF Collect, Course
  <2> QED
    BY <1>1, <2>1, <2>2, <2>3
    DEF Course, DurableStatesRest, AwaitingMeansDeposited, PhaseMatchesRow, SessionPhase
<1>3. CASE TickDone
  BY <1>3 DEF TickDone, Course, DurableStatesRest, AwaitingMeansDeposited, PhaseMatchesRow,
       SessionPhase
<1>4. ASSUME NEW e \in Ids, DialFailed(e) PROVE Course'
  <2>1. \A d \in Ids : \/ outbox'[d] = outbox[d]
                       \/ outbox'[d].state \in {"queued", "failed"}
    BY <1>4, RowStates DEF DialFailed
  <2> QED
    BY <1>4, <2>1 DEF DialFailed, Course, DurableStatesRest, AwaitingMeansDeposited,
         PhaseMatchesRow, SessionPhase
<1>5. ASSUME NEW e \in Ids, DialOk(e) PROVE Course'
  <2> DEFINE row == Expire(copy[e], e \in old)
  <2>1. row \in Row
    BY DEF Expire, Row, OutboxState
  <2>2. FailAttempt(row).state \in {"queued", "failed"}
    BY <2>1, RowStates
  <2>3. Transition(row, "healthcheck").state = "healthcheck"
    BY <2>1, RowStates DEF OutboxState
  <2>4. \A d \in batch' : d # e /\ copy'[d] = copy[d]
    BY <1>5 DEF DialOk
  <2>5. \/ phase' = "report_error" /\ copy'[e].state \in {"queued", "failed"}
        \/ phase' = "hello" /\ copy'[e].state = "healthcheck"
    BY <1>5, <2>2, <2>3 DEF DialOk
  <2> QED
    BY <1>5, <2>4, <2>5 DEF DialOk, Course, DurableStatesRest, AwaitingMeansDeposited,
         PhaseMatchesRow, SessionPhase
<1>6. CASE SessionError \/ PeerGone \/ TrustChecked
  <2> cur \in Ids /\ phase \in SessionPhase /\ SessionUnchanged
    BY <1>6 DEF Serving, SessionError, PeerGone, TrustChecked, SessionPhase
  <2>1. CASE EndInError(cur)
    BY <2>1, CourseError
  <2>2. CASE TrustChecked /\ ~EndInError(cur)
    BY <2>2 DEF TrustChecked, SessionUnchanged, Course, DurableStatesRest,
         AwaitingMeansDeposited, PhaseMatchesRow, SessionPhase
  <2> QED
    BY <1>6, <2>1, <2>2 DEF SessionError, PeerGone
<1>7. CASE HealthOk
  <2>1. cur \in Ids /\ copy[cur].state = "healthcheck"
    BY <1>7 DEF HealthOk, Serving, Course, PhaseMatchesRow, SessionPhase
  <2>2. copy'[cur].state \in {"healthcheck", "acked"}
    BY <1>7, <2>1 DEF HealthOk, ApplyAck, Row
  <2>3. \A e \in batch : copy'[e] = copy[e]
    BY <1>7 DEF HealthOk, Course
  <2> QED
    BY <1>7, <2>2, <2>3 DEF HealthOk, SessionUnchanged, Course, DurableStatesRest,
         AwaitingMeansDeposited, PhaseMatchesRow, SessionPhase
<1>8. CASE OfferAccepted \/ HaveReceived \/ StreamDone
  <2> cur \in Ids /\ phase \in SessionPhase /\ SessionUnchanged
    BY <1>8 DEF Serving, OfferAccepted, HaveReceived, StreamDone, SessionPhase
  <2> QED
    BY <1>8, CourseAdvance DEF OfferAccepted, HaveReceived, StreamDone, OutboxState
<1>9. CASE AckRead
  <2>1. cur \in Ids /\ copy[cur].state = "awaiting_ack"
    BY <1>9 DEF AckRead, Serving, Course, PhaseMatchesRow, SessionPhase
  <2>2. copy'[cur].state = "acked" /\ phase' = "report_ok"
    BY <1>9, <2>1 DEF AckRead, AckAccepted, ApplyAck, Row
  <2>3. \A e \in batch : copy'[e] = copy[e]
    BY <1>9, <2>1 DEF AckRead, AckAccepted, Course
  <2> QED
    BY <1>9, <2>2, <2>3 DEF AckRead, SessionUnchanged, Course, DurableStatesRest,
         AwaitingMeansDeposited, PhaseMatchesRow, SessionPhase
<1>10. CASE Report
  <2>1. \A e \in Ids : \/ outbox'[e] = outbox[e]
                       \/ outbox'[e].state \in {"acked", "queued", "failed"}
    BY <1>10 DEF Report, SyncRow, Course
  <2>2. \A e \in batch : copy'[e] = copy[e]
    BY <1>10 DEF Report, Course
  <2> QED
    BY <1>1, <1>10, <2>1, <2>2
    DEF Report, Course, DurableStatesRest, AwaitingMeansDeposited, PhaseMatchesRow, SessionPhase
<1>11. CASE ReportLost
  <2>1. \A e \in batch : copy'[e] = copy[e]
    BY <1>11 DEF ReportLost, Course
  <2> QED
    BY <1>1, <1>11, <2>1
    DEF ReportLost, Course, DurableStatesRest, AwaitingMeansDeposited, PhaseMatchesRow,
        SessionPhase
<1>12. CASE DepositNotDue \/ DepositStart
  <2>1. ~put'
    BY <1>12 DEF DepositNotDue, DepositStart, Course
  <2> QED
    BY <1>1, <1>12, <2>1
    DEF DepositNotDue, DepositStart, Course, DurableStatesRest, AwaitingMeansDeposited,
        PhaseMatchesRow, SessionPhase
<1>13. ASSUME NEW r \in Relays, DepositTo(r) \/ DepositFailed(r) PROVE Course'
  <2>1. deposited \subseteq deposited' /\ UNCHANGED <<outbox, phase, batch, cur, copy>>
        /\ (put' => put \/ <<cur, r>> \in deposited') /\ phase = "depositing"
    BY <1>13 DEF DepositTo, DepositFailed
  <2> QED
    BY <2>1 DEF Course, DurableStatesRest, AwaitingMeansDeposited, PhaseMatchesRow, SessionPhase
<1>14. CASE DepositDone
  <2>1. \A e \in Ids : \/ outbox'[e].state = outbox[e].state
                       \/ outbox'[e].state = "awaiting_ack" /\ e = cur /\ put
    BY <1>14, DepositWrites
  <2>2. ~put'
    BY <1>14 DEF DepositDone
  <2>3. DurableStatesRest'
    BY <2>1 DEF Course, DurableStatesRest
  <2>4. AwaitingMeansDeposited'
    <3>1. put => \E r \in Relays : <<cur, r>> \in deposited
      BY DEF Course
    <3>2. UNCHANGED deposited
      BY <1>14 DEF DepositDone
    <3> QED
      BY <2>1, <3>1, <3>2 DEF Course, AwaitingMeansDeposited
  <2> QED
    BY <1>1, <1>14, <2>2, <2>3, <2>4
    DEF DepositDone, Course, PhaseMatchesRow, SessionPhase
<1> QED
  BY <1>2, <1>3, <1>4, <1>5, <1>6, <1>7, <1>8, <1>9, <1>10, <1>12, <1>13, <1>14, <1>11
  DEF WorkerStep

\* The recipients, the relays and crashes touch the sender's rows in two ways only: a
\* poll settles some, a crash loses the copies.
LEMMA CourseRest ==
  ASSUME Typed, Course,
         \/ \E e \in Ids : HandlerStep(e)
         \/ RelayStep
         \/ SenderCrash
         \/ \E p \in Peers : PeerCrash(p)
  PROVE  Course'
<1> USE DEF Typed, TypeOK, durable, worker, poll, receiver, relay
<1>1. CASE PollDone
  <2>1. \A e \in Ids : outbox'[e].state \in {outbox[e].state, "acked"}
    BY <1>1 DEF PollDone, SyncRow
  <2> QED
    BY <1>1, <2>1 DEF PollDone, Course, DurableStatesRest, AwaitingMeansDeposited, PhaseMatchesRow
<1>2. CASE SenderCrash
  BY <1>2 DEF SenderCrash, Course, DurableStatesRest, AwaitingMeansDeposited, PhaseMatchesRow,
       SessionPhase
<1>3. CASE UNCHANGED <<durable, worker>>
  BY <1>3 DEF Course, DurableStatesRest, AwaitingMeansDeposited, PhaseMatchesRow
<1> QED
  BY <1>1, <1>2, <1>3
  DEF RelayStep, PickUp, PickUpReplies, PickUpRemoves, PickUpFails, PollStart, PollTakesAck,
      PollFails, EnvelopeExpires, HandlerStep, HandlerUnchanged, PeerGreets, PeerAcceptsOffer,
      PeerAnswersPlan, PeerStages, PeerCommits, PeerSigns, PeerWritesAck, PeerForgetsAck,
      PeerFails, PeerCrash

\* The strengthening holds in every reachable state.
LEMMA CourseInvariant == Spec => [](Typed /\ Course)
<1>1. Init => Typed /\ Course
  BY TypeInit, CourseInit DEF Typed, Serving, Init
<1>2. Typed /\ Course /\ [Next]_vars => (Typed /\ Course)'
  <2>1. ASSUME Course, UNCHANGED vars PROVE Course'
    BY <2>1 DEF Course, DurableStatesRest, AwaitingMeansDeposited, PhaseMatchesRow, vars,
         durable, worker, poll, receiver, relay
  <2> QED
    BY <2>1, TypedNext, CourseUser, CourseWorker, CourseRest DEF Next
<1> QED
  BY <1>1, <1>2, PTL DEF Spec

\* At every moment, hence after every crash, the durable rows are in states that the
\* next tick takes up or that are settled.
THEOREM RowsRest == Spec => []DurableStatesRest
<1>1. Course => DurableStatesRest
  BY DEF Course
<1> QED
  BY <1>1, CourseInvariant, PTL

\* A durable row waits for an ack only after a relay took the delivery.
THEOREM AwaitingDeposited == Spec => []AwaitingMeansDeposited
<1>1. Course => AwaitingMeansDeposited
  BY DEF Course
<1> QED
  BY <1>1, CourseInvariant, PTL

\* A session's copy is in the state that its phase requires, so that the move table
\* refuses a move only after a replayed ack.
THEOREM SessionFollowsTable == Spec => []PhaseMatchesRow
<1>1. Course => PhaseMatchesRow
  BY DEF Course
<1> QED
  BY <1>1, CourseInvariant, PTL

----------------------------------------------------------------------------
(* Who may change a settled row.                                           *)

\* The claim of SettledStays about one step and one row.
SettledStep(e) ==
  Settled(outbox[e].state) /\ outbox'[e].state # outbox[e].state
    => \/ /\ outbox'[e].state \in {"queued", "failed"}
          /\ \/ DialFails(e)
             \/ outbox[e].state # "cancelled" /\ WritesBack(e)
       \/ /\ outbox[e].state = "failed"
          /\ \/ outbox'[e].state = "acked"
             \/ /\ outbox'[e].state = "awaiting_ack"
                /\ cur = e /\ phase = "depositing"

\* The user settles rows and never unsettles one.
LEMMA SettledUser ==
  ASSUME Typed, UserStep, NEW e \in Ids
  PROVE  SettledStep(e)
<1> USE DEF Typed, TypeOK
<1>1. ASSUME NEW d \in Ids, Enqueue(d) \/ CancelRow(d) \/ Elapse(d) PROVE SettledStep(e)
  <2>1. outbox'[e] = outbox[e] \/ ~Settled(outbox[e].state)
    BY <1>1 DEF Enqueue, CancelRow, CanCancel, Elapse, Settled, Terminal
  <2> QED
    BY <2>1 DEF SettledStep
<1>2. CASE UNCHANGED outbox
  BY <1>2 DEF SettledStep
<1> QED
  BY <1>1, <1>2 DEF UserStep, Age, Distrust

\* The worker changes rows of this tick only; a collection charges pending ones.
LEMMA SettledWorker ==
  ASSUME Typed, Course, WorkerStep, NEW e \in Ids
  PROVE  SettledStep(e)
<1> USE DEF Typed, TypeOK
<1>1. CASE Collect
  <2>1. outbox'[e] = outbox[e] \/ Pending(outbox[e])
    BY <1>1 DEF Collect
  <2> QED
    BY <2>1 DEF SettledStep, Pending, Settled
<1>2. ASSUME NEW d \in Ids, DialFailed(d) PROVE SettledStep(e)
  <2>1. outbox'[e] = outbox[e] \/ e \in batch \ batch'
    BY <1>2 DEF DialFailed
  <2>2. outbox'[e] \in {outbox[e], FailAttempt(outbox[e])}
    BY <1>2 DEF DialFailed
  <2>3. FailAttempt(outbox[e]).state \in {"queued", "failed"}
    BY DEF FailAttempt, Row
  <2> QED
    BY <2>1, <2>2, <2>3 DEF SettledStep, DialFails
<1>3. CASE Report
  <2>1. outbox'[e] = outbox[e] \/ (e = cur /\ outbox'[e] = SyncRow(outbox[e], copy[e]))
    BY <1>3 DEF Report
  <2>2. \/ phase = "report_ok" /\ copy[cur].state = "acked"
        \/ phase = "report_error" /\ copy[cur].state \in {"queued", "failed"}
    BY <1>3 DEF Report, Course
  <2> QED
    BY <2>1, <2>2 DEF SettledStep, SyncRow, WritesBack, Settled, Terminal
<1>4. CASE DepositDone
  <2>1. outbox'[e].state = outbox[e].state \/ e = cur
    BY <1>4, DepositWrites
  <2>2. phase = "depositing"
    BY <1>4 DEF DepositDone
  <2>3. \/ outbox'[e] = outbox[e]
        \/ ~Terminal(outbox[e].state) /\ outbox'[e].state = "awaiting_ack"
    BY <1>4 DEF DepositDone, MarkRelayDeposited, Row
  <2> QED
    BY <2>1, <2>2, <2>3 DEF SettledStep, Settled
<1>5. CASE UNCHANGED outbox
  BY <1>5 DEF SettledStep
<1> QED
  BY <1>1, <1>2, <1>3, <1>4, <1>5
  DEF WorkerStep, TickDone, DialOk, SessionError, PeerGone, TrustChecked, HealthOk,
      OfferAccepted, HaveReceived, StreamDone, AckRead, SessionUnchanged, ReportLost,
      DepositNotDue, DepositStart, DepositTo, DepositFailed, durable

\* Of the other steps only the end of a poll writes rows.
LEMMA SettledRest ==
  ASSUME Typed, NEW e \in Ids,
         \/ \E d \in Ids : HandlerStep(d)
         \/ RelayStep
         \/ SenderCrash
         \/ \E p \in Peers : PeerCrash(p)
  PROVE  SettledStep(e)
<1>1. CASE PollDone
  <2>1. \/ outbox'[e] = outbox[e]
        \/ outbox'[e].state = "acked" /\ outbox[e].state \notin {"cancelled", "expired"}
    BY <1>1 DEF PollDone, SyncRow, Typed, TypeOK
  <2> QED
    BY <2>1 DEF SettledStep, Settled, Terminal
<1>2. CASE UNCHANGED outbox
  BY <1>2 DEF SettledStep
<1> QED
  BY <1>1, <1>2
  DEF RelayStep, PickUp, PickUpReplies, PickUpRemoves, PickUpFails, PollStart, PollTakesAck,
      PollFails, EnvelopeExpires, HandlerStep, HandlerUnchanged, PeerGreets, PeerAcceptsOffer,
      PeerAnswersPlan, PeerStages, PeerCommits, PeerSigns, PeerWritesAck, PeerForgetsAck,
      PeerFails, PeerCrash, SenderCrash, durable

\* A cancelled row is reopened by a failing dial only, an acked one also by the
\* error of a session whose copy is older; a failed one by an ack, or by the deposit
\* that follows its attempt (fail_attempt, sync_entry_from, mark_relay_deposited).
THEOREM SettledRows == Spec => SettledStays
<1>1. Spec => [](Typed /\ Course)
  BY CourseInvariant
<1>2. Typed /\ Course /\ [Next]_vars => [\A e \in Ids : SettledStep(e)]_vars
  BY SettledUser, SettledWorker, SettledRest DEF Next
<1>3. Spec => [][\A e \in Ids : SettledStep(e)]_vars
  BY <1>1, <1>2, PTL DEF Spec
<1> QED
  BY <1>3 DEF SettledStays, SettledStep

----------------------------------------------------------------------------
(* What is withdrawn stays with the sender.                                *)

\* The claim of WithdrawnIsNotSent about one step and one row.
WithdrawnStep(e) ==
  outbox[e].state = "cancelled" /\ Quiet(e)
    => Quiet(e)' /\ (e \in committed' => e \in committed)

\* The worker collects pending rows, and a cancelled one is not pending; what it
\* serves and deposits is another delivery.
LEMMA WithdrawnWorker ==
  ASSUME Typed, WorkerStep, NEW e \in Ids
  PROVE  WithdrawnStep(e)
<1> SUFFICES ASSUME outbox[e].state = "cancelled", Quiet(e)
             PROVE  Quiet(e)' /\ (e \in committed' => e \in committed)
  BY DEF WithdrawnStep
<1> USE DEF Typed, TypeOK, Quiet, Attempted
<1>0. e # None
  BY DeliveryAssumption
<1>1. CASE Collect
  <2>1. e \notin batch'
    <3>1. ~Pending(outbox[e])
      BY DEF Pending, Terminal
    <3>2. \A d \in batch' : Pending(outbox[d])
      BY <1>1 DEF Collect
    <3> QED
      BY <3>1, <3>2
  <2>2. UNCHANGED <<cur, handler, mail, pickup, committed>>
    BY <1>1 DEF Collect, receiver, relay
  <2> QED
    BY <2>1, <2>2
<1>2. ASSUME NEW d \in Ids, DialFailed(d) \/ DialOk(d) PROVE WithdrawnStep(e)
  BY <1>2 DEF DialFailed, DialOk, WithdrawnStep, receiver, relay
<1>3. ASSUME NEW r \in Relays, DepositTo(r) \/ DepositFailed(r) PROVE WithdrawnStep(e)
  BY <1>3 DEF DepositTo, DepositFailed, WithdrawnStep, receiver
<1>4. CASE cur \in Ids /\ phase \in SessionPhase /\ SessionUnchanged
           /\ (UNCHANGED handler \/ EndInError(cur))
  BY <1>4 DEF SessionUnchanged, EndInError, relay
<1>5. CASE SessionError \/ PeerGone \/ TrustChecked \/ HealthOk \/ OfferAccepted
           \/ HaveReceived \/ StreamDone \/ AckRead
  <2>1. phase \in SessionPhase /\ SessionUnchanged /\ (UNCHANGED handler \/ EndInError(cur))
    BY <1>5 DEF SessionError, PeerGone, TrustChecked, HealthOk, OfferAccepted, HaveReceived,
                StreamDone, AckRead, Advance, SessionPhase
  <2>2. cur \in Ids
    BY <2>1 DEF Serving, SessionPhase
  <2> QED
    BY <1>4, <2>1, <2>2
<1>6. CASE TickDone \/ Report \/ ReportLost \/ DepositNotDue \/ DepositStart \/ DepositDone
  BY <1>0, <1>6 DEF TickDone, Report, ReportLost, DepositNotDue, DepositStart, DepositDone,
                    receiver, relay, durable
<1> QED
  BY <1>1, <1>2, <1>3, <1>5, <1>6 DEF WorkerStep, WithdrawnStep

\* No one else starts anything: the handlers serve sessions, a recipient takes up
\* what a relay holds.
LEMMA WithdrawnRest ==
  ASSUME Typed, NEW e \in Ids,
         \/ UserStep
         \/ \E d \in Ids : HandlerStep(d)
         \/ RelayStep
         \/ SenderCrash
         \/ \E p \in Peers : PeerCrash(p)
  PROVE  WithdrawnStep(e)
<1> SUFFICES ASSUME outbox[e].state = "cancelled", Quiet(e)
             PROVE  Quiet(e)' /\ (e \in committed' => e \in committed)
  BY DEF WithdrawnStep
<1> USE DEF Typed, TypeOK, Quiet, Attempted
<1>1. CASE UserStep
  BY <1>1 DEF UserStep, Enqueue, CancelRow, Elapse, Age, Distrust, worker, receiver, relay
<1>2. ASSUME NEW d \in Ids, HandlerStep(d) PROVE WithdrawnStep(e)
  <2>1. UNCHANGED <<batch, cur, mail, pickup>>
    BY <1>2 DEF HandlerStep, PeerGreets, PeerAcceptsOffer, PeerAnswersPlan, PeerStages,
                PeerCommits, PeerSigns, PeerWritesAck, PeerForgetsAck, PeerFails,
                HandlerUnchanged, worker, relay
  <2>2. handler[d] # "none" /\ \A x \in Ids \ {d} : handler'[x] = handler[x]
    BY <1>2 DEF HandlerStep, PeerGreets, PeerAcceptsOffer, PeerAnswersPlan, PeerStages,
                PeerCommits, PeerSigns, PeerWritesAck, PeerForgetsAck, PeerFails
  <2>3. committed' \subseteq committed \cup {d}
    BY <1>2 DEF HandlerStep, PeerGreets, PeerAcceptsOffer, PeerAnswersPlan, PeerStages,
                PeerCommits, PeerSigns, PeerWritesAck, PeerForgetsAck, PeerFails
  <2> QED
    BY <2>1, <2>2, <2>3 DEF WithdrawnStep
<1>3. ASSUME NEW d \in Ids, NEW r \in Relays,
             PickUp(d, r) \/ PickUpReplies(d, r) \/ PickUpRemoves(d, r)
      PROVE  WithdrawnStep(e)
  <2>1. d # e
    BY <1>3 DEF PickUp, PickUpReplies, PickUpRemoves
  <2>2. UNCHANGED <<batch, cur, handler>> /\ mail' \subseteq mail
        /\ committed' \subseteq committed \cup {d}
    BY <1>3 DEF PickUp, PickUpReplies, PickUpRemoves, worker, relay
  <2>3. \A x \in pickup' : x \in pickup \/ x[1] = d
    BY <1>3 DEF PickUp, PickUpReplies, PickUpRemoves
  <2> QED
    BY <2>1, <2>2, <2>3 DEF WithdrawnStep
<1>4. CASE \/ \E x \in pickup : PickUpFails(x)
           \/ \E r \in Relays : PollStart(r)
           \/ \E d \in Ids : PollTakesAck(d)
           \/ PollDone \/ PollFails \/ EnvelopeExpires
  BY <1>4 DEF PickUpFails, PollStart, PollTakesAck, PollDone, PollFails, EnvelopeExpires,
              worker, receiver, relay
<1>5. CASE SenderCrash
  BY <1>5, DeliveryAssumption DEF SenderCrash, relay
<1>6. ASSUME NEW p \in Peers, PeerCrash(p) PROVE WithdrawnStep(e)
  BY <1>6 DEF PeerCrash, WithdrawnStep, worker, relay
<1> QED
  BY <1>1, <1>2, <1>3, <1>4, <1>5, <1>6 DEF RelayStep, WithdrawnStep

\* A delivery that is cancelled while nothing of it is under way is never handed over
\* (is_pending, due_ids; the relays get what the worker serves).
THEOREM CancelledStays == Spec => WithdrawnIsNotSent
<1>1. Init => Typed
  BY TypeInit DEF Typed, Serving, Init
<1>2. Typed /\ [Next]_vars => [\A e \in Ids : WithdrawnStep(e)]_vars
  BY WithdrawnWorker, WithdrawnRest DEF Next
<1>3. Spec => [][\A e \in Ids : WithdrawnStep(e)]_vars
  BY <1>1, <1>2, TypedNext, PTL DEF Spec
<1> QED
  BY <1>3 DEF WithdrawnIsNotSent, WithdrawnStep

\* The claim of RevokedPeerIsNotSent about one step and one row.
WithheldStep(e) ==
  Recipient[e] \notin trusted /\ Withheld(e)
    => Withheld(e)' /\ (e \in committed' => e \in committed)

\* The handshake of a session that was dialled before reads the trust store again,
\* and so does the deposit after it.
LEMMA WithheldWorker ==
  ASSUME Typed, WorkerStep, NEW e \in Ids
  PROVE  WithheldStep(e)
<1> SUFFICES ASSUME Recipient[e] \notin trusted, Withheld(e)
             PROVE  Withheld(e)' /\ (e \in committed' => e \in committed)
  BY DEF WithheldStep
<1> USE DEF Typed, TypeOK, Withheld
<1>0. e # None
  BY DeliveryAssumption
<1>1. CASE Collect
  <2>1. cur = e => phase # "idle"
    OBVIOUS
  <2> QED
    BY <1>1, <2>1 DEF Collect, receiver, relay
<1>2. ASSUME NEW d \in Ids, DialFailed(d) \/ DialOk(d) PROVE WithheldStep(e)
  BY <1>2 DEF DialFailed, DialOk, WithheldStep, receiver, relay
<1>3. ASSUME NEW r \in Relays, DepositTo(r) \/ DepositFailed(r) PROVE WithheldStep(e)
  BY <1>3 DEF DepositTo, DepositFailed, WithheldStep, receiver
<1>4. CASE cur \in Ids /\ SessionUnchanged /\ EndInError(cur)
  BY <1>4 DEF SessionUnchanged, EndInError, relay
<1>5. CASE SessionError \/ PeerGone \/ TrustChecked
  <2>1. CASE EndInError(cur)
    BY <1>4, <1>5, <2>1 DEF SessionError, PeerGone, TrustChecked, Serving, SessionPhase
  <2>2. CASE TrustChecked /\ Recipient[cur] \in trusted
    BY <2>2 DEF TrustChecked, SessionUnchanged, relay
  <2> QED
    BY <1>5, <2>1, <2>2 DEF SessionError, PeerGone, TrustChecked
<1>6. CASE HealthOk \/ OfferAccepted \/ HaveReceived \/ StreamDone \/ AckRead
  <2>1. cur \in Ids /\ cur # e /\ SessionUnchanged /\ (UNCHANGED handler \/ EndInError(cur))
    BY <1>6 DEF HealthOk, OfferAccepted, HaveReceived, StreamDone, AckRead, Advance, Serving
  <2>2. CASE UNCHANGED handler
    BY <2>1, <2>2 DEF SessionUnchanged, relay
  <2> QED
    BY <1>4, <2>1, <2>2
<1>7. CASE TickDone \/ Report \/ ReportLost \/ DepositNotDue \/ DepositDone
  BY <1>0, <1>7 DEF TickDone, Report, ReportLost, DepositNotDue, DepositDone,
                    receiver, relay, durable
<1>8. CASE DepositStart
  BY <1>8 DEF DepositStart, DepositDue, receiver, relay
<1> QED
  BY <1>1, <1>2, <1>3, <1>5, <1>6, <1>7, <1>8 DEF WorkerStep, WithheldStep

\* A handler goes on with the sender of a session that was let in, a recipient takes
\* up what a relay holds.
LEMMA WithheldRest ==
  ASSUME Typed, NEW e \in Ids,
         \/ UserStep
         \/ \E d \in Ids : HandlerStep(d)
         \/ RelayStep
         \/ SenderCrash
         \/ \E p \in Peers : PeerCrash(p)
  PROVE  WithheldStep(e)
<1> SUFFICES ASSUME Recipient[e] \notin trusted, Withheld(e)
             PROVE  Withheld(e)' /\ (e \in committed' => e \in committed)
  BY DEF WithheldStep
<1> USE DEF Typed, TypeOK, Withheld
<1>1. CASE UserStep
  BY <1>1 DEF UserStep, Enqueue, CancelRow, Elapse, Age, Distrust, worker, receiver, relay
<1>2. ASSUME NEW d \in Ids, HandlerStep(d) PROVE WithheldStep(e)
  <2>1. UNCHANGED <<cur, phase, mail>>
    BY <1>2 DEF HandlerStep, PeerGreets, PeerAcceptsOffer, PeerAnswersPlan, PeerStages,
                PeerCommits, PeerSigns, PeerWritesAck, PeerForgetsAck, PeerFails,
                HandlerUnchanged, worker, relay
  <2>2. /\ \A x \in Ids \ {d} : handler'[x] = handler[x]
        /\ committed' \subseteq committed \cup {d}
    BY <1>2 DEF HandlerStep, PeerGreets, PeerAcceptsOffer, PeerAnswersPlan, PeerStages,
                PeerCommits, PeerSigns, PeerWritesAck, PeerForgetsAck, PeerFails
  <2>3. CASE d = e
    <3>1. PeerGreets(d) \/ PeerFails(d)
      BY <1>2, <2>3 DEF HandlerStep, PeerAcceptsOffer, PeerAnswersPlan, PeerStages,
                        PeerCommits, PeerSigns, PeerWritesAck, PeerForgetsAck
    <3>2. handler'[e] \in {"none", "greeted"} /\ committed' = committed
      BY <2>3, <3>1 DEF PeerGreets, PeerFails
    <3> QED
      BY <2>1, <3>2 DEF WithheldStep
  <2> QED
    BY <2>1, <2>2, <2>3 DEF WithheldStep
<1>3. ASSUME NEW d \in Ids, NEW r \in Relays,
             PickUp(d, r) \/ PickUpReplies(d, r) \/ PickUpRemoves(d, r)
      PROVE  WithheldStep(e)
  <2>1. UNCHANGED <<cur, phase, handler>> /\ mail' \subseteq mail
    BY <1>3 DEF PickUp, PickUpReplies, PickUpRemoves, worker, relay
  <2>2. committed' = committed \/ (committed' = committed \cup {d} /\ <<d, r>> \in mail)
    BY <1>3 DEF PickUp, PickUpReplies, PickUpRemoves
  <2> QED
    BY <2>1, <2>2 DEF WithheldStep
<1>4. CASE \/ \E x \in pickup : PickUpFails(x)
           \/ \E r \in Relays : PollStart(r)
           \/ \E d \in Ids : PollTakesAck(d)
           \/ PollDone \/ PollFails \/ EnvelopeExpires
  BY <1>4 DEF PickUpFails, PollStart, PollTakesAck, PollDone, PollFails, EnvelopeExpires,
              worker, receiver, relay
<1>5. CASE SenderCrash
  BY <1>5, DeliveryAssumption DEF SenderCrash, relay
<1>6. ASSUME NEW p \in Peers, PeerCrash(p) PROVE WithheldStep(e)
  BY <1>6 DEF PeerCrash, WithheldStep, worker, relay
<1> QED
  BY <1>1, <1>2, <1>3, <1>4, <1>5, <1>6 DEF RelayStep, WithheldStep

\* Once trust in a peer is withdrawn, nothing that is withheld from it at that moment
\* reaches it, not by a session or a deposit of a tick that trusted it
\* (establish_trusted_session, deposit_if_due).
THEOREM RevokedStays == Spec => RevokedPeerIsNotSent
<1>1. Init => Typed
  BY TypeInit DEF Typed, Serving, Init
<1>2. Typed /\ [Next]_vars => [\A e \in Ids : WithheldStep(e)]_vars
  BY WithheldWorker, WithheldRest DEF Next
<1>3. Spec => [][\A e \in Ids : WithheldStep(e)]_vars
  BY <1>1, <1>2, TypedNext, PTL DEF Spec
<1> QED
  BY <1>3 DEF RevokedPeerIsNotSent, WithheldStep

-----------------------------------------------------------------------------
(***************************************************************************)
(* Delivery implements Handoff, for any deliveries, peers, relays and      *)
(* bounds: every step of the daemons is a step of the promise, or none.    *)
(*                                                                         *)
(* Beyond what is known above of evidence and of the course of a row, this *)
(* takes two facts about the rows that are in somebody's hands: they have  *)
(* been enqueued (Enqueued), and without relays nobody but the user        *)
(* settles a row while the worker serves it (InHand).                      *)
(***************************************************************************)

\* What is held of a delivery anywhere, is held of one that was enqueued.
Held(e) ==
  \/ e \in batch \/ cur = e
  \/ copy[e].state # "absent" \/ view[e].state # "absent"
  \/ handler[e] # "none"
  \/ \E r \in Relays : <<e, r>> \in mail

Enqueued == \A e \in Ids : Held(e) => outbox[e].state # "absent"

\* The deliveries whose settled duty may be taken up again.
MayReopen(e) == IF Relays = {} THEN e \in Cancellable ELSE TRUE

InHand ==
  Relays = {} =>
    \A e \in Ids :
      e \in batch \/ (cur = e /\ phase # "deposit")
        => /\ outbox[e].state \notin {"acked", "failed"}
           /\ outbox[e].state = "cancelled" => e \in Cancellable

Known == Typed /\ Evidence /\ Course /\ Enqueued /\ InHand

-----------------------------------------------------------------------------
(* Steps of the promise.                                                    *)

\* What a step does to one duty, and the others stay.
Move(e, from, to) ==
  \/ to = from
  \/ from = "absent" /\ to = "owed"
  \/ from = "owed" /\ to = "dropped"
  \/ MayReopen(e) /\ from \in {"cleared", "dropped"} /\ to \in {"owed", "dropped"}
  \/ /\ e \in committed /\ to = "cleared"
     /\ from = "owed" \/ (from = "dropped" /\ MayReopen(e))

\* duty is a function, before a step and after it.
LEMMA DutyTable ==
  /\ duty = [e \in Ids |-> duty[e]]
  /\ duty' = [e \in Ids |-> duty'[e]]
  /\ \A e \in Ids : duty[e] \in {"absent", "owed", "cleared", "dropped"}
BY DEF duty

\* A step that moves one duty is a step of the promise.
LEMMA OneMove ==
  ASSUME NEW e \in Ids, Move(e, duty[e], duty'[e]),
         \A x \in Ids \ {e} : duty'[x] = duty[x], UNCHANGED committed
  PROVE  [Promise!Next]_Promise!vars
<1> DEFINE q == duty'[e]
           f == duty
           g == duty'
<1>1. f = [x \in Ids |-> f[x]] /\ g = [x \in Ids |-> g[x]]
  BY DutyTable
<1> HIDE DEF f, g
<1>2. g = [f EXCEPT ![e] = g[e]] /\ g = [x \in Ids |-> IF x \in {e} THEN g[e] ELSE f[x]]
  BY <1>1 DEF f, g
<1>3. CASE g[e] = f[e]
  BY <1>1, <1>2, <1>3 DEF f, g, Promise!vars
<1>4. CASE f[e] = "absent" /\ g[e] = "owed"
  BY <1>2, <1>4 DEF f, g, Promise!Next, Promise!Accept
<1>5. CASE f[e] = "owed" /\ g[e] = "dropped"
  <2>1. Promise!Drop({e})
    BY <1>2, <1>5 DEF f, g, Promise!Drop
  <2> QED
    BY <2>1 DEF Promise!Next
<1>6. CASE MayReopen(e) /\ f[e] \in {"cleared", "dropped"} /\ g[e] \in {"owed", "dropped"}
  <2>1. Promise!Reopen(e)
    BY <1>2, <1>6 DEF f, g, Promise!Reopen, MayReopen
  <2> QED
    BY <2>1 DEF Promise!Next
<1>7. CASE /\ e \in committed /\ g[e] = "cleared"
           /\ f[e] = "owed" \/ (f[e] = "dropped" /\ MayReopen(e))
  <2>1. Promise!Clear({e})
    BY <1>2, <1>7 DEF f, g, Promise!Clear, MayReopen
  <2> QED
    BY <2>1 DEF Promise!Next
<1> QED
  BY <1>3, <1>4, <1>5, <1>6, <1>7 DEF Move, f, g

\* A step that leaves the duties and the stores alone is none of the promise.
LEMMA NoMove ==
  ASSUME \A e \in Ids : duty'[e] = duty[e], UNCHANGED committed
  PROVE  [Promise!Next]_Promise!vars
<1> DEFINE f == duty
           g == duty'
<1>1. f = [x \in Ids |-> f[x]] /\ g = [x \in Ids |-> g[x]] /\ \A x \in Ids : g[x] = f[x]
  BY DutyTable
<1> HIDE DEF f, g
<1>2. g = f
  BY <1>1
<1> QED
  BY <1>2 DEF f, g, Promise!vars

\* The same for rows.
LEMMA SameStates ==
  ASSUME \A e \in Ids : outbox'[e].state = outbox[e].state, UNCHANGED committed
  PROVE  [Promise!Next]_Promise!vars
BY NoMove DEF duty

-----------------------------------------------------------------------------
(* Rows that are held.                                                      *)

\* A row is never taken out of the outbox.
LEMMA RowsStay ==
  ASSUME Typed, Course, [Next]_vars, NEW e \in Ids, outbox[e].state # "absent"
  PROVE  outbox'[e].state # "absent"
<1> USE DEF Typed, TypeOK
<1>1. ASSUME NEW d \in Ids, Enqueue(d) \/ CancelRow(d) \/ Elapse(d)
      PROVE  outbox'[e].state # "absent"
  <2>1. outbox'[e] \in {outbox[e], NewRow, Cancel(outbox[e]), [outbox[e] EXCEPT !.due = TRUE]}
    BY <1>1 DEF Enqueue, CancelRow, Elapse
  <2> QED
    BY <2>1, RowStates
<1>2. CASE Collect
  BY <1>2, RowStates DEF Collect
<1>3. ASSUME NEW d \in Ids, DialFailed(d) PROVE outbox'[e].state # "absent"
  <2>1. outbox'[e] \in {outbox[e], FailAttempt(outbox[e])}
    BY <1>3 DEF DialFailed
  <2> QED
    BY <2>1, RowStates
<1>4. CASE Report
  <2>1. cur \in Ids
    BY <1>4 DEF Report, Serving
  <2>2. copy[cur].state # "absent"
    BY <1>4 DEF Report, Course
  <2> QED
    BY <1>4, <2>1, <2>2 DEF Report, SyncRow
<1>5. CASE DepositDone
  BY <1>5, DepositWrites
<1>6. CASE PollDone
  BY <1>6 DEF PollDone, SyncRow
<1>7. CASE UNCHANGED outbox
  BY <1>7
<1> QED
  BY <1>1, <1>2, <1>3, <1>4, <1>5, <1>6, <1>7
  DEF Next, UserStep, Age, Distrust, WorkerStep, TickDone, DialOk, SessionError, PeerGone,
      TrustChecked, HealthOk, OfferAccepted, HaveReceived, StreamDone, AckRead,
      SessionUnchanged, ReportLost, DepositNotDue, DepositStart, DepositTo, DepositFailed,
      RelayStep, PickUp, PickUpReplies, PickUpRemoves, PickUpFails, PollStart, PollTakesAck,
      PollFails, EnvelopeExpires, HandlerStep, HandlerUnchanged, PeerGreets,
      PeerAcceptsOffer, PeerAnswersPlan, PeerStages, PeerCommits, PeerSigns, PeerWritesAck,
      PeerForgetsAck, PeerFails, PeerCrash, SenderCrash, durable, vars

\* What the worker takes in hand it had before, or finds in the outbox.
LEMMA HeldWorker ==
  ASSUME Typed, WorkerStep, NEW e \in Ids, ~Held(e), outbox[e].state = "absent"
  PROVE  ~Held(e)'
<1> USE DEF Typed, TypeOK, Held
<1>0. e # None /\ NoRow.state = "absent"
  BY DeliveryAssumption, RowStates, FreshRows
<1>1. CASE Collect
  <2>1. e \notin batch' /\ copy'[e].state = "absent"
    BY <1>0, <1>1 DEF Collect, Pending
  <2> QED
    BY <1>1, <2>1 DEF Collect, poll, receiver, relay
<1>2. ASSUME NEW d \in Ids, DialFailed(d) \/ DialOk(d) PROVE ~Held(e)'
  <2>1. d # e /\ copy'[e] = copy[e] /\ handler'[e] = handler[e]
    BY <1>2 DEF DialFailed, DialOk, receiver
  <2>2. e \notin batch' /\ cur' = d /\ UNCHANGED <<view, mail>>
    BY <1>2 DEF DialFailed, DialOk, poll, relay
  <2> QED
    BY <2>1, <2>2
<1>3. ASSUME NEW r \in Relays, DepositTo(r) \/ DepositFailed(r) PROVE ~Held(e)'
  <2>1. mail' \subseteq mail \cup {<<cur, r>>}
    BY <1>3 DEF DepositTo, DepositFailed
  <2>2. UNCHANGED <<batch, cur, copy, view, handler>>
    BY <1>3 DEF DepositTo, DepositFailed, poll, receiver
  <2> QED
    BY <2>1, <2>2
<1>4. CASE SessionError \/ PeerGone \/ TrustChecked \/ HealthOk \/ OfferAccepted
           \/ HaveReceived \/ StreamDone \/ AckRead
  <2>1. /\ SessionUnchanged
        /\ copy' = copy \/ \E row : copy' = [copy EXCEPT ![cur] = row]
        /\ handler' = handler \/ \E h : handler' = [handler EXCEPT ![cur] = h]
    BY <1>4 DEF SessionError, PeerGone, TrustChecked, HealthOk, OfferAccepted, HaveReceived,
                StreamDone, AckRead, Advance, EndInError
  <2>2. copy'[e] = copy[e] /\ handler'[e] = handler[e]
    BY <2>1
  <2> QED
    BY <2>1, <2>2 DEF SessionUnchanged, poll, relay
<1>5. CASE TickDone \/ Report \/ ReportLost \/ DepositNotDue \/ DepositStart \/ DepositDone
  <2>1. copy'[e] = copy[e] /\ UNCHANGED <<batch, view, handler, mail>> /\ cur' \in {cur, None}
    BY <1>5 DEF TickDone, Report, ReportLost, DepositNotDue, DepositStart, DepositDone,
                poll, receiver, relay, durable
  <2> QED
    BY <1>0, <2>1
<1> QED
  BY <1>1, <1>2, <1>3, <1>4, <1>5 DEF WorkerStep

\* The others take nothing in hand that was not, but the poll, which looks at the outbox.
LEMMA HeldRest ==
  ASSUME Typed, NEW e \in Ids, ~Held(e), outbox[e].state = "absent",
         \/ UserStep
         \/ \E d \in Ids : HandlerStep(d)
         \/ RelayStep
         \/ SenderCrash
         \/ \E p \in Peers : PeerCrash(p)
  PROVE  ~Held(e)'
<1> USE DEF Typed, TypeOK, Held
<1>0. e # None /\ NoRow.state = "absent"
  BY DeliveryAssumption, RowStates, FreshRows
<1>1. CASE UserStep
  BY <1>1 DEF UserStep, Enqueue, CancelRow, Elapse, Age, Distrust, worker, poll, receiver, relay
<1>2. ASSUME NEW d \in Ids, HandlerStep(d) PROVE ~Held(e)'
  <2>1. UNCHANGED <<batch, cur, copy, view, mail>>
    BY <1>2 DEF HandlerStep, PeerGreets, PeerAcceptsOffer, PeerAnswersPlan, PeerStages,
                PeerCommits, PeerSigns, PeerWritesAck, PeerForgetsAck, PeerFails,
                HandlerUnchanged, worker, poll, relay
  <2>2. handler[d] # "none" /\ \A x \in Ids \ {d} : handler'[x] = handler[x]
    BY <1>2 DEF HandlerStep, PeerGreets, PeerAcceptsOffer, PeerAnswersPlan, PeerStages,
                PeerCommits, PeerSigns, PeerWritesAck, PeerForgetsAck, PeerFails
  <2> QED
    BY <2>1, <2>2
<1>3. CASE RelayStep
  <2>1. UNCHANGED <<batch, cur, copy, handler>> /\ mail' \subseteq mail
    BY <1>3 DEF RelayStep, PickUp, PickUpReplies, PickUpRemoves, PickUpFails, PollStart,
                PollTakesAck, PollDone, PollFails, EnvelopeExpires, worker, receiver, relay
  <2>2. view'[e].state = "absent"
    <3>1. view'[e] \in {view[e], outbox[e], NoRow, ApplyAck(view[e])}
      BY <1>3 DEF RelayStep, PickUp, PickUpReplies, PickUpRemoves, PickUpFails, PollStart,
                  PollTakesAck, PollDone, PollFails, EnvelopeExpires, poll
    <3>2. ApplyAck(view[e]).state = "absent"
      BY RowStates DEF AckAccepted
    <3> QED
      BY <1>0, <3>1, <3>2
  <2> QED
    BY <2>1, <2>2
<1>4. CASE SenderCrash
  BY <1>0, <1>4 DEF SenderCrash, relay
<1>5. ASSUME NEW p \in Peers, PeerCrash(p) PROVE ~Held(e)'
  BY <1>5 DEF PeerCrash, worker, poll, relay
<1> QED
  BY <1>1, <1>2, <1>3, <1>4, <1>5

\* So what is held has been enqueued.
LEMMA EnqueuedNext == Typed /\ Course /\ Enqueued /\ [Next]_vars => Enqueued'
<1> SUFFICES ASSUME Typed, Course, Enqueued, [Next]_vars, NEW e \in Ids, Held(e)'
             PROVE  outbox'[e].state # "absent"
  BY DEF Enqueued
<1>1. CASE outbox[e].state # "absent"
  BY <1>1, RowsStay
<1>2. CASE outbox[e].state = "absent"
  <2>1. ~Held(e)
    BY <1>2 DEF Enqueued
  <2>2. CASE UNCHANGED vars
    BY <2>1, <2>2 DEF Held, vars, worker, poll, receiver, relay
  <2> QED
    BY <1>2, <2>1, <2>2, HeldWorker, HeldRest DEF Next
<1> QED
  BY <1>1, <1>2

-----------------------------------------------------------------------------
(* Without relays.                                                          *)

\* The worker takes up what is not settled, and ends the attempt when it settles it.
LEMMA InHandNext == Typed /\ Course /\ InHand /\ [Next]_vars => InHand'
<1> SUFFICES ASSUME Typed, Course, InHand, [Next]_vars, Relays = {}, NEW e \in Ids,
                    e \in batch' \/ (cur' = e /\ phase' # "deposit")
             PROVE  /\ outbox'[e].state \notin {"acked", "failed"}
                    /\ outbox'[e].state = "cancelled" => e \in Cancellable
  BY DEF InHand
<1> USE DEF Typed, TypeOK
<1>0. e # None
  BY DeliveryAssumption
<1>1. CASE Collect
  <2>1. cur' = None
    BY <1>1 DEF Collect, Course
  <2>2. Pending(outbox[e]) /\ outbox'[e] = outbox[e]
    BY <1>0, <1>1, <2>1 DEF Collect
  <2> QED
    BY <2>2 DEF Pending, Terminal
<1>2. CASE e \in batch \/ (cur = e /\ phase # "deposit")
  <2>1. /\ outbox[e].state \notin {"acked", "failed"}
        /\ outbox[e].state = "cancelled" => e \in Cancellable
    BY <1>2 DEF InHand
  <2>2. ASSUME NEW d \in Ids, Enqueue(d) \/ Elapse(d)
        PROVE  outbox'[e].state \in {outbox[e].state, "queued"}
    <3>1. outbox'[e] \in {outbox[e], NewRow, [outbox[e] EXCEPT !.due = TRUE]}
      BY <2>2 DEF Enqueue, Elapse
    <3> QED
      BY <3>1, RowStates
  <2>3. ASSUME NEW d \in Ids, CancelRow(d)
        PROVE  \/ outbox'[e] = outbox[e]
               \/ outbox'[e].state = "cancelled" /\ e \in Cancellable
    <3>1. outbox'[e] = outbox[e] \/ (outbox'[e] = Cancel(outbox[e]) /\ e \in Cancellable)
      BY <2>3 DEF CancelRow
    <3> QED
      BY <3>1, RowStates
  <2>4. ASSUME NEW d \in Ids, DialFailed(d) PROVE outbox'[e] = outbox[e]
    <3>1. d # e
      BY <2>4 DEF DialFailed
    <3> QED
      BY <2>4, <3>1 DEF DialFailed
  <2>5. CASE Report
    <3>1. e # cur
      BY <1>0, <2>5 DEF Report, Course
    <3> QED
      BY <2>1, <2>5, <3>1 DEF Report
  <2>6. CASE DepositDone
    <3>1. outbox'[e].state = outbox[e].state
      BY <2>6, DepositWrites DEF Course
    <3> QED
      BY <2>1, <3>1
  <2>7. CASE PollDone
    BY <2>7, DeliveryAssumption DEF PollDone
  <2>8. CASE UNCHANGED outbox
    BY <2>1, <2>8
  <2> QED
    BY <1>1, <2>1, <2>2, <2>3, <2>4, <2>5, <2>6, <2>7, <2>8
    DEF Next, UserStep, Age, Distrust, WorkerStep, TickDone, DialOk, SessionError, PeerGone,
        TrustChecked, HealthOk, OfferAccepted, HaveReceived, StreamDone, AckRead,
        SessionUnchanged, ReportLost, DepositNotDue, DepositStart, DepositTo, DepositFailed,
        RelayStep, PickUp, PickUpReplies, PickUpRemoves, PickUpFails, PollStart, PollTakesAck,
        PollFails, EnvelopeExpires, HandlerStep, HandlerUnchanged, PeerGreets,
        PeerAcceptsOffer, PeerAnswersPlan, PeerStages, PeerCommits, PeerSigns, PeerWritesAck,
        PeerForgetsAck, PeerFails, PeerCrash, SenderCrash, durable, vars
<1>3. CASE ~Collect /\ e \notin batch /\ (cur = e => phase = "deposit")
  <2>1. ASSUME ~Collect, WorkerStep
        PROVE  batch' \subseteq batch /\ (cur' \in {cur, None} \/ cur' \in batch)
    BY <2>1 DEF WorkerStep, TickDone, DialFailed, DialOk, SessionError, PeerGone,
        TrustChecked, HealthOk, OfferAccepted, HaveReceived, StreamDone, AckRead,
        SessionUnchanged, Report, ReportLost, DepositNotDue, DepositStart, DepositDone,
        DepositTo, DepositFailed
  <2>2. UNCHANGED worker \/ WorkerStep \/ SenderCrash
    BY DEF Next, UserStep, Enqueue, CancelRow, Elapse, Age, Distrust, RelayStep, PickUp,
        PickUpReplies, PickUpRemoves, PickUpFails, PollStart, PollTakesAck, PollDone,
        PollFails, EnvelopeExpires, HandlerStep, HandlerUnchanged, PeerGreets,
        PeerAcceptsOffer, PeerAnswersPlan, PeerStages, PeerCommits, PeerSigns, PeerWritesAck,
        PeerForgetsAck, PeerFails, PeerCrash, vars
  <2>3. CASE UNCHANGED worker
    BY <1>3, <2>3 DEF worker
  <2>4. CASE SenderCrash
    BY <1>0, <2>4 DEF SenderCrash
  <2>5. CASE WorkerStep
    <3>1. cur = e /\ cur' = e /\ phase = "deposit" /\ phase' # "deposit"
      BY <1>0, <1>3, <2>1, <2>5
    <3>2. DepositNotDue \/ DepositStart
      BY <1>3, <2>5, <3>1 DEF WorkerStep, TickDone, DialFailed, DialOk, SessionError, PeerGone,
        TrustChecked, HealthOk, OfferAccepted, HaveReceived, StreamDone, AckRead,
        Report, ReportLost, DepositDone, DepositTo, DepositFailed, SessionPhase
    <3> QED
      BY <1>0, <3>1, <3>2 DEF DepositNotDue, DepositStart, DepositDue
  <2> QED
    BY <2>2, <2>3, <2>4, <2>5
<1> QED
  BY <1>1, <1>2, <1>3

-----------------------------------------------------------------------------
(* Every step keeps the promise.                                            *)

\* What a row owes depends on its state alone.
DutyOf(s) == CASE s = "absent" -> "absent"
               [] s = "acked"  -> "cleared"
               [] s \in {"failed", "cancelled", "expired"} -> "dropped"
               [] OTHER -> "owed"

\* The duty of a row, before a step and after it.
LEMMA DutyStates ==
  ASSUME NEW e \in Ids
  PROVE  duty[e] = DutyOf(outbox[e].state) /\ duty'[e] = DutyOf(outbox'[e].state)
BY DEF duty, DutyOf

\* A failed attempt takes up what is owed, or what may be taken up again.
LEMMA FailedMoves ==
  ASSUME NEW e \in Ids, NEW s, NEW s1, s # "absent", s1 \in {s, "queued", "failed"},
         DutyOf(s) # "owed" /\ s1 # s => MayReopen(e) \/ (s = "failed" /\ s1 = "failed")
  PROVE  Move(e, DutyOf(s), DutyOf(s1))
BY DEF Move, DutyOf

\* The user accepts a duty and drops it.
LEMMA PromiseUser ==
  ASSUME Known, UserStep
  PROVE  [Promise!Next]_Promise!vars
<1> USE DEF Known, Typed, TypeOK
<1>0. UNCHANGED committed
  BY DEF UserStep, Enqueue, CancelRow, Elapse, Age, Distrust, receiver
<1>1. ASSUME NEW e \in Ids, Enqueue(e) \/ CancelRow(e) \/ Elapse(e)
      PROVE  [Promise!Next]_Promise!vars
  <2>1. \A x \in Ids \ {e} : duty'[x] = duty[x]
    BY <1>1, DutyStates DEF Enqueue, CancelRow, Elapse
  <2>2. Move(e, duty[e], duty'[e])
    <3>1. CASE Enqueue(e)
      <4>1. outbox[e].state = "absent" /\ outbox'[e].state = "queued"
        BY <3>1, RowStates DEF Enqueue
      <4> QED
        BY <4>1, DutyStates DEF DutyOf, Move
    <3>2. CASE CancelRow(e)
      <4>1. outbox[e].state \notin {"absent", "failed", "acked", "cancelled", "expired"}
        BY <3>2 DEF CancelRow, CanCancel, Terminal
      <4>2. outbox'[e].state = "cancelled"
        BY <3>2, RowStates DEF CancelRow
      <4> QED
        BY <4>1, <4>2, DutyStates DEF DutyOf, Move
    <3>3. CASE Elapse(e)
      <4>1. outbox'[e].state = outbox[e].state
        BY <3>3, RowStates DEF Elapse
      <4> QED
        BY <4>1, DutyStates DEF Move
    <3> QED
      BY <1>1, <3>1, <3>2, <3>3
  <2> QED
    BY <1>0, <2>1, <2>2, OneMove
<1>2. CASE UNCHANGED outbox
  BY <1>0, <1>2, SameStates
<1> QED
  BY <1>1, <1>2 DEF UserStep, Age, Distrust

\* A collection drops the rows of peers that are not trusted any more, at their last
\* attempt.
LEMMA PromiseCollect ==
  ASSUME Known, Collect
  PROVE  [Promise!Next]_Promise!vars
<1> USE DEF Known, Typed, TypeOK
<1> DEFINE S == {e \in Ids : outbox'[e].state # outbox[e].state /\ outbox'[e].state = "failed"}
           f == duty
           g == duty'
<1>1. ASSUME NEW e \in Ids
      PROVE  \/ outbox'[e] = outbox[e]
             \/ /\ outbox[e].state \notin {"absent", "failed", "acked", "cancelled", "expired"}
                /\ outbox'[e].state \in {"queued", "failed"}
  <2>1. outbox'[e] = outbox[e] \/ (Pending(outbox[e]) /\ outbox'[e] = FailAttempt(outbox[e]))
    BY <1>1 DEF Collect
  <2> QED
    BY <2>1, RowStates DEF Pending, Terminal
<1>2. \A e \in S : f[e] = "owed" /\ g[e] = "dropped"
  BY <1>1, DutyStates DEF DutyOf
<1>3. \A e \in Ids \ S : f[e] = g[e]
  BY <1>1, DutyStates DEF DutyOf
<1>4. S \subseteq Ids
  OBVIOUS
<1>5. f = [e \in Ids |-> f[e]] /\ g = [e \in Ids |-> g[e]]
  BY DutyTable
<1>6. UNCHANGED committed
  BY DEF Collect, receiver
<1> HIDE DEF S, f, g
<1>7. g = [e \in Ids |-> IF e \in S THEN "dropped" ELSE f[e]]
  BY <1>2, <1>3, <1>4, <1>5
<1>8. Promise!Drop(S)
  BY <1>2, <1>6, <1>7 DEF Promise!Drop, f, g
<1> QED
  BY <1>4, <1>8 DEF Promise!Next

\* The worker writes one row at a time after the collection: a failed dial, the end of
\* a session, the end of a deposit.
LEMMA PromiseWorker ==
  ASSUME Known, WorkerStep
  PROVE  [Promise!Next]_Promise!vars
<1> USE DEF Known, Typed, TypeOK
<1>0. UNCHANGED committed
  BY DEF WorkerStep, Collect, TickDone, DialFailed, DialOk, SessionError, PeerGone,
        TrustChecked, HealthOk, OfferAccepted, HaveReceived, StreamDone, AckRead,
        SessionUnchanged, Report, ReportLost, DepositNotDue, DepositStart, DepositDone,
        DepositTo, DepositFailed, receiver
<1>1. ASSUME NEW e \in Ids, DialFailed(e) PROVE [Promise!Next]_Promise!vars
  <2>1. e \in batch /\ \A x \in Ids \ {e} : outbox'[x] = outbox[x]
    BY <1>1 DEF DialFailed
  <2>2. outbox[e].state # "absent"
    BY <2>1 DEF Enqueued, Held
  <2>3. outbox'[e].state \in {outbox[e].state, "queued", "failed"}
    <3>1. outbox'[e] \in {outbox[e], FailAttempt(outbox[e])}
      BY <1>1 DEF DialFailed
    <3> QED
      BY <3>1, RowStates
  <2>4. DutyOf(outbox[e].state) # "owed" => MayReopen(e)
    <3>1. CASE Relays # {}
      BY <3>1 DEF MayReopen
    <3>2. CASE Relays = {}
      <4>1. /\ outbox[e].state \notin {"acked", "failed"}
            /\ outbox[e].state = "cancelled" => e \in Cancellable
        BY <2>1, <3>2 DEF InHand
      <4>2. outbox[e].state \in {"queued", "awaiting_ack", "cancelled"}
        BY <2>2, <4>1 DEF Course, DurableStatesRest
      <4> QED
        BY <3>2, <4>1, <4>2 DEF MayReopen, DutyOf
    <3> QED
      BY <3>1, <3>2
  <2>5. Move(e, DutyOf(outbox[e].state), DutyOf(outbox'[e].state))
    BY <2>2, <2>3, <2>4, FailedMoves
  <2> QED
    BY <1>0, <2>1, <2>5, DutyStates, OneMove
<1>2. CASE Report
  <2>1. cur \in Ids
    BY <1>2 DEF Report, Serving
  <2>2. /\ outbox'[cur] = SyncRow(outbox[cur], copy[cur])
        /\ \A x \in Ids \ {cur} : outbox'[x] = outbox[x]
    BY <1>2, <2>1 DEF Report
  <2> DEFINE s == outbox[cur].state
             s1 == outbox'[cur].state
  <2>3. s # "absent" /\ phase # "deposit"
    BY <1>2, <2>1 DEF Enqueued, Held, Report
  <2>4. s1 = s \/ (s \notin {"cancelled", "expired"} /\ s1 = copy[cur].state)
    BY <2>2 DEF SyncRow
  <2>5. copy[cur].state \in {"acked", "queued", "failed"}
    BY <1>2 DEF Report, Course
  <2>6. copy[cur].state = "acked" => cur \in committed
    BY <2>1 DEF Evidence
  <2>7. s \in {"acked", "failed"} => MayReopen(cur)
    BY <2>1, <2>3 DEF InHand, MayReopen
  <2>8. Move(cur, DutyOf(s), DutyOf(s1))
    <3> HIDE DEF s, s1
    <3>1. CASE s1 = s
      BY <3>1 DEF Move
    <3>2. CASE s1 # s
      <4>1. DutyOf(s) = IF s = "acked" THEN "cleared"
                        ELSE IF s = "failed" THEN "dropped" ELSE "owed"
        BY <2>3, <2>4, <3>2 DEF DutyOf
      <4>2. s1 \in {"acked", "queued", "failed"} /\ (s1 = "acked" => cur \in committed)
        BY <2>4, <2>5, <2>6, <3>2
      <4>3. DutyOf(s1) = IF s1 = "acked" THEN "cleared"
                         ELSE IF s1 = "failed" THEN "dropped" ELSE "owed"
        BY <4>2 DEF DutyOf
      <4> QED
        BY <2>7, <3>2, <4>1, <4>2, <4>3 DEF Move
    <3> QED
      BY <3>1, <3>2
  <2> QED
    BY <1>0, <2>1, <2>2, <2>8, DutyStates, OneMove
<1>3. CASE DepositDone
  <2>1. cur \in Ids
    BY <1>3 DEF DepositDone, Serving
  <2>2. \A x \in Ids \ {cur} : outbox'[x].state = outbox[x].state
    BY <1>3, DepositWrites
  <2>3. outbox[cur].state # "absent"
    BY <2>1 DEF Enqueued, Held
  <2>4. \/ outbox'[cur].state = outbox[cur].state
        \/ outbox'[cur].state = "awaiting_ack" /\ Relays # {}
    BY <1>3, <2>1, DepositWrites DEF Course
  <2>5. Move(cur, DutyOf(outbox[cur].state), DutyOf(outbox'[cur].state))
    BY <2>3, <2>4 DEF Move, DutyOf, MayReopen
  <2> QED
    BY <1>0, <2>1, <2>2, <2>5, DutyStates, OneMove
<1>4. CASE UNCHANGED outbox
  BY <1>0, <1>4, SameStates
<1> QED
  BY <1>1, <1>2, <1>3, <1>4, PromiseCollect
  DEF WorkerStep, TickDone, DialOk, SessionError, PeerGone, TrustChecked, HealthOk,
      OfferAccepted, HaveReceived, StreamDone, AckRead, SessionUnchanged, ReportLost,
      DepositNotDue, DepositStart, DepositTo, DepositFailed, durable

\* A recipient receives what was enqueued.
LEMMA PromiseReceive ==
  ASSUME Known, UNCHANGED outbox, NEW e \in Ids,
         committed' = committed \/ (committed' = committed \cup {e} /\ Held(e))
  PROVE  [Promise!Next]_Promise!vars
<1>1. CASE committed' = committed
  BY <1>1, SameStates
<1>2. CASE committed' = committed \cup {e} /\ Held(e)
  <2>1. outbox[e].state # "absent"
    BY <1>2 DEF Known, Enqueued
  <2>2. duty[e] # "absent" /\ \A x \in Ids : duty'[x] = duty[x]
    BY <2>1, DutyStates DEF DutyOf
  <2> DEFINE f == duty
             g == duty'
  <2>3. f = [x \in Ids |-> f[x]] /\ g = [x \in Ids |-> g[x]] /\ \A x \in Ids : g[x] = f[x]
    BY <2>2, DutyTable
  <2> HIDE DEF f, g
  <2>4. g = f
    BY <2>3
  <2>5. Promise!Receive(e)
    BY <1>2, <2>2, <2>4 DEF f, g, Promise!Receive
  <2> QED
    BY <2>5 DEF Promise!Next
<1> QED
  BY <1>1, <1>2

\* The end of a poll clears what it has acks for.
LEMMA PromisePoll ==
  ASSUME Known, PollDone
  PROVE  [Promise!Next]_Promise!vars
<1> USE DEF Known, Typed, TypeOK
<1> DEFINE S == {e \in Ids : outbox'[e].state # outbox[e].state}
           f == duty
           g == duty'
<1>1. Relays # {} /\ UNCHANGED committed
  BY DEF PollDone, receiver
<1>2. ASSUME NEW e \in S
      PROVE  e \in committed /\ f[e] \in {"owed", "dropped"} /\ g[e] = "cleared"
  <2>1. view[e].state = "acked" /\ outbox'[e].state = "acked" /\ outbox[e].state # "acked"
    BY <1>2 DEF PollDone, SyncRow
  <2>2. outbox[e].state # "absent"
    BY <1>2, <2>1 DEF Enqueued, Held
  <2>3. e \in committed
    BY <1>2, <2>1 DEF Evidence
  <2> QED
    BY <1>2, <2>1, <2>2, <2>3, DutyStates DEF DutyOf
<1>3. \A e \in Ids \ S : f[e] = g[e]
  BY DutyStates
<1>4. S \subseteq Ids
  OBVIOUS
<1>5. f = [e \in Ids |-> f[e]] /\ g = [e \in Ids |-> g[e]]
  BY DutyTable
<1> HIDE DEF S, f, g
<1>6. g = [e \in Ids |-> IF e \in S THEN "cleared" ELSE f[e]]
  BY <1>2, <1>3, <1>4, <1>5
<1>7. Promise!Clear(S)
  <2>1. S \subseteq committed /\ \A e \in S : f[e] = "owed" \/ (f[e] = "dropped" /\ e \in Ids)
    BY <1>2, <1>4
  <2> QED
    BY <1>1, <1>6, <2>1 DEF Promise!Clear, f, g
<1> QED
  BY <1>4, <1>7 DEF Promise!Next

\* What a handler or a poll of the recipient commits was enqueued; crashes change nothing
\* that the promise sees.
LEMMA PromiseRest ==
  ASSUME Known,
         \/ \E d \in Ids : HandlerStep(d)
         \/ RelayStep
         \/ SenderCrash
         \/ \E p \in Peers : PeerCrash(p)
  PROVE  [Promise!Next]_Promise!vars
<1>1. ASSUME NEW d \in Ids, HandlerStep(d) PROVE [Promise!Next]_Promise!vars
  <2>1. UNCHANGED outbox
    BY <1>1 DEF HandlerStep, PeerGreets, PeerAcceptsOffer, PeerAnswersPlan, PeerStages,
                PeerCommits, PeerSigns, PeerWritesAck, PeerForgetsAck, PeerFails,
                HandlerUnchanged, durable
  <2>2. committed' = committed \/ (committed' = committed \cup {d} /\ handler[d] = "staged")
    BY <1>1 DEF HandlerStep, PeerGreets, PeerAcceptsOffer, PeerAnswersPlan, PeerStages,
                PeerCommits, PeerSigns, PeerWritesAck, PeerForgetsAck, PeerFails
  <2> QED
    BY <2>1, <2>2, PromiseReceive DEF Held
<1>2. ASSUME NEW d \in Ids, NEW r \in Relays, PickUp(d, r) PROVE [Promise!Next]_Promise!vars
  <2>1. UNCHANGED outbox /\ committed' = committed \cup {d} /\ <<d, r>> \in mail
    BY <1>2 DEF PickUp, durable
  <2> QED
    BY <2>1, PromiseReceive DEF Held
<1>3. CASE UNCHANGED <<outbox, committed>>
  BY <1>3, SameStates
<1> QED
  BY <1>1, <1>2, <1>3, PromisePoll
  DEF RelayStep, PickUpReplies, PickUpRemoves, PickUpFails, PollStart, PollTakesAck,
      PollFails, EnvelopeExpires, SenderCrash, PeerCrash, durable, receiver

-----------------------------------------------------------------------------
\* Delivery implements Handoff: a delivery is owed from its enqueueing on, its duty is
\* cleared only when its recipient has it, and a settled duty stays settled but for the
\* attempts and polls that were under way, whatever crashes, fails or is lost.
THEOREM KeepsThePromise == Spec => KeepsPromise
<1>1. Init => Known
  <2>1. Init => Typed /\ Evidence /\ Course
    BY TypeInit, EvidenceInit, CourseInit DEF Typed, Serving, Init
  <2>2. Init => Enqueued /\ InHand
    BY DeliveryAssumption DEF Init, Enqueued, InHand, Held, NoRow
  <2> QED
    BY <2>1, <2>2 DEF Known
<1>2. Known /\ [Next]_vars => Known'
  <2>1. ASSUME Evidence, UNCHANGED vars PROVE Evidence'
    BY <2>1 DEF Evidence, vars, durable, worker, poll, receiver, relay
  <2>2. ASSUME Course, UNCHANGED vars PROVE Course'
    BY <2>2 DEF Course, DurableStatesRest, AwaitingMeansDeposited, PhaseMatchesRow, vars,
         durable, worker, poll, receiver, relay
  <2>3. Known /\ [Next]_vars => Evidence'
    BY <2>1, EvidenceUser, EvidenceWorker, EvidenceHandler, EvidenceRelay, EvidenceCrash
    DEF Known, Next
  <2>4. Known /\ [Next]_vars => Course'
    BY <2>2, CourseUser, CourseWorker, CourseRest DEF Known, Next
  <2> QED
    BY <2>3, <2>4, TypedNext, EnqueuedNext, InHandNext DEF Known
<1>3. Init => Promise!Init
  BY DEF Init, Promise!Init, duty, NoRow
<1>4. Known /\ [Next]_vars => [Promise!Next]_Promise!vars
  <2>1. ASSUME UNCHANGED vars PROVE [Promise!Next]_Promise!vars
    BY <2>1, SameStates DEF vars, durable, receiver
  <2> QED
    BY <2>1, PromiseUser, PromiseWorker, PromiseRest DEF Next
<1> QED
  BY <1>1, <1>2, <1>3, <1>4, PTL DEF Spec, KeepsPromise, Promise!Spec
=============================================================================
