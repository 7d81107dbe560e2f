------------------------------ MODULE Delivery ------------------------------
(***************************************************************************)
(* One sending daemon, the peers it sends to and the relays in between.    *)
(*                                                                         *)
(* The sender's worker (cadabra work_outbox) takes a tick: under the node  *)
(* lock it collects the rows that are due, each with a detached copy of    *)
(* the outbox, and releases the lock.  It then serves them one after       *)
(* another over the network, driving only the detached copy, and writes    *)
(* the row back at the end of each session.  In the meantime the user may  *)
(* cancel rows and a relay poll, which works on a detached copy of its     *)
(* own, may apply acks.  A recipient commits a delivery, stores its ack    *)
(* durably, writes the ack to the connection and forgets it; it replays    *)
(* the acks it still stores at the start of every later session.           *)
(*                                                                         *)
(* Detached copies and the recipient's handler live in memory: a crash     *)
(* loses them.  The outbox, the deposited marks, the recipient's store and *)
(* its pending acks are files.                                             *)
(***************************************************************************)
EXTENDS OutboxEntry

CONSTANTS
  Ids,          \* outbox ids; each row keeps one offer_id for all its attempts
  Peers,        \* recipients
  Recipient,    \* Recipient[e]: the peer e is addressed to
  Relays,       \* relays configured on both sides
  RelayAfter,   \* relay_after_attempts
  Cancellable,  \* the deliveries the user may cancel
  Revocable,    \* the peers whose trust may be withdrawn
  MaxFaults,    \* bound: crashes, broken connections and lost requests
  None          \* no id, no relay

ASSUME DeliveryAssumption ==
  /\ Recipient \in [Ids -> Peers]
  /\ RelayAfter \in 1 .. MaxAttempts
  /\ Cancellable \subseteq Ids
  /\ Revocable \subseteq Peers
  /\ MaxFaults \in Nat
  /\ None \notin Ids /\ None \notin Relays

VARIABLES
  outbox,       \* sender, durable: the row of each id
  old,          \* the ids enqueued more than seven days ago
  trusted,      \* sender, durable: the peers in the trust store, not revoked
  deposited,    \* sender, durable: <<id, relay>> marked in the relay config
  phase,        \* the worker: "idle", "batch", a session's phase, ...
  batch,        \* the ids collected this tick and not served yet
  cur,          \* the id being served
  copy,         \* copy[e]: e's row in the detached outbox of its session
  todo,         \* deposit_if_due: the relays not tried yet
  put,          \* deposit_if_due: some relay holds the delivery
  polling,      \* the relay the sender is polling, or None
  view,         \* the detached outbox the poll applies acks to
  handler,      \* recipients: the session handler serving e, in memory
  committed,    \* recipients, durable: the deliveries in their store
  pendingAck,   \* recipients, durable: net/pending-acks
  ackWire,      \* the acks written to the open connection and not read yet
  pickup,       \* recipients: the relayed delivery being taken up
  mail,         \* relays: deliveries held, as <<id, relay>>
  receipts,     \* relays: acks held, as <<id, relay>>
  faults        \* faults so far

durable  == <<outbox, old, trusted, deposited>>
worker   == <<phase, batch, cur, copy, todo, put>>
poll     == <<polling, view>>
receiver == <<handler, committed, pendingAck, ackWire, pickup>>
relay    == <<mail, receipts>>
vars     == <<durable, worker, poll, receiver, relay, faults>>

----------------------------------------------------------------------------

SessionPhase == {"hello", "ping", "offer", "plan", "stream", "await"}
Phase == {"idle", "batch", "report_ok", "report_error", "deposit", "depositing"}
           \cup SessionPhase

\* The recipient's handler before it holds every object of the delivery, and
\* from then on, when it no longer needs the sender.
Receiving  == {"open", "greeted", "accepted", "have"}
Completing == {"staged", "committed", "signed", "written"}

Fault == faults < MaxFaults /\ faults' = faults + 1

Init ==
  /\ outbox = [e \in Ids |-> NoRow]
  /\ old = {}
  /\ trusted = Peers
  /\ deposited = {}
  /\ phase = "idle" /\ batch = {} /\ cur = None
  /\ copy = [e \in Ids |-> NoRow]
  /\ todo = {} /\ put = FALSE
  /\ polling = None
  /\ view = [e \in Ids |-> NoRow]
  /\ handler = [e \in Ids |-> "none"]
  /\ committed = {} /\ pendingAck = {} /\ ackWire = {} /\ pickup = {}
  /\ mail = {} /\ receipts = {}
  /\ faults = 0

----------------------------------------------------------------------------
(* The user and the passing of time.                                       *)

\* send: only to a trusted peer.
Enqueue(e) ==
  /\ outbox[e].state = "absent"
  /\ Recipient[e] \in trusted
  /\ outbox' = [outbox EXCEPT ![e] = NewRow]
  /\ UNCHANGED <<old, trusted, deposited, worker, poll, receiver, relay, faults>>

CancelRow(e) ==
  /\ e \in Cancellable
  /\ CanCancel(outbox[e])
  /\ outbox' = [outbox EXCEPT ![e] = Cancel(@)]
  /\ UNCHANGED <<old, trusted, deposited, worker, poll, receiver, relay, faults>>

\* A backoff runs out.  Rows that are not pending anyway keep their flag.
Elapse(e) ==
  /\ outbox[e].state \in {"queued", "awaiting_ack"}
  /\ ~outbox[e].due
  /\ outbox' = [outbox EXCEPT ![e].due = TRUE]
  /\ UNCHANGED <<old, trusted, deposited, worker, poll, receiver, relay, faults>>

\* Seven days pass since e was enqueued.
Age(e) ==
  /\ outbox[e].state # "absent"
  /\ e \notin old
  /\ old' = old \cup {e}
  /\ UNCHANGED <<outbox, trusted, deposited, worker, poll, receiver, relay, faults>>

\* The peer is removed, or its guest token revoked.
Distrust(p) ==
  /\ p \in Revocable \cap trusted
  /\ trusted' = trusted \ {p}
  /\ UNCHANGED <<outbox, old, deposited, worker, poll, receiver, relay, faults>>

----------------------------------------------------------------------------
(* The worker.                                                             *)

\* One tick's collection, under the node lock: the due rows of peers no longer
\* trusted have failed an attempt, the others get a session of their own.
Collect ==
  LET due     == {e \in Ids : Pending(outbox[e])}
      refused == {e \in due : Recipient[e] \notin trusted}
      served  == due \ refused
  IN  /\ phase = "idle" /\ due # {}
      /\ outbox' = [e \in Ids |-> IF e \in refused THEN FailAttempt(outbox[e])
                                                   ELSE outbox[e]]
      /\ phase' = IF served = {} THEN "idle" ELSE "batch"
      /\ batch' = served
      /\ copy' = [e \in Ids |-> IF e \in served THEN outbox[e] ELSE NoRow]
      /\ UNCHANGED <<old, trusted, deposited, cur, todo, put, poll, receiver, relay, faults>>

\* Every row of the tick has been served.
TickDone ==
  /\ phase = "batch" /\ batch = {}
  /\ phase' = "idle"
  /\ UNCHANGED <<durable, batch, cur, copy, todo, put, poll, receiver, relay, faults>>

\* The dial fails: the attempt is charged to the durable row, as it is by now,
\* unless the node cannot be reloaded.
DialFailed(e) ==
  /\ phase = "batch" /\ e \in batch
  /\ Fault
  /\ \/ outbox' = [outbox EXCEPT ![e] = FailAttempt(@)]
     \/ UNCHANGED outbox
  /\ phase' = "deposit" /\ cur' = e /\ batch' = batch \ {e}
  /\ copy' = [copy EXCEPT ![e] = NoRow]
  /\ UNCHANGED <<old, trusted, deposited, todo, put, poll, receiver, relay>>

\* The dial succeeds and send_offer starts on the detached copy.  A row that is
\* found expired fails the attempt like any other error.  Bound: a recipient
\* serves one session per delivery at a time.
DialOk(e) ==
  LET row == Expire(copy[e], e \in old)
  IN  /\ phase = "batch" /\ e \in batch
      /\ handler[e] = "none"
      /\ cur' = e /\ batch' = batch \ {e}
      /\ IF row.state = "expired"
         THEN /\ copy' = [copy EXCEPT ![e] = FailAttempt(row)]
              /\ phase' = "report_error"
              /\ UNCHANGED handler
         ELSE /\ Legal(row.state, "healthcheck")
              /\ copy' = [copy EXCEPT ![e] = Transition(row, "healthcheck")]
              /\ phase' = "hello"
              /\ handler' = [handler EXCEPT ![e] = "open"]
      /\ UNCHANGED <<durable, todo, put, poll, committed, pendingAck, ackWire, pickup,
                     relay, faults>>

\* An error that is not charged to the row: it is written back as it stands.
EndUncharged(e) ==
  /\ phase' = "report_error"
  /\ ackWire' = ackWire \ {e}
  /\ handler' = [handler EXCEPT ![e] = IF @ \in Receiving THEN "none" ELSE @]
  /\ UNCHANGED copy

\* The session ends in an error, wherever it is: send_offer charges the attempt
\* to the copy and the connection is dropped.  A handler that still needs the
\* sender ends with it; one that has every object goes on.
EndInError(e) ==
  /\ copy' = [copy EXCEPT ![e] = FailAttempt(@)]
  /\ phase' = "report_error"
  /\ ackWire' = ackWire \ {e}
  /\ handler' = [handler EXCEPT ![e] = IF @ \in Receiving THEN "none" ELSE @]

\* An illegal move is ignored and the session goes on.
AdvanceRegardless(e, to, next) ==
  /\ copy' = [copy EXCEPT ![e] = IF Legal(@.state, to) THEN Transition(@, to) ELSE @]
  /\ phase' = next
  /\ UNCHANGED <<ackWire, handler>>

\* A move of the row; if the table does not have it, the session ends in an error.
Advance(e, to, next) ==
  IF Legal(copy[e].state, to)
  THEN /\ copy' = [copy EXCEPT ![e] = Transition(@, to)]
       /\ phase' = next
       /\ UNCHANGED <<ackWire, handler>>
  ELSE EndInError(e)

SessionUnchanged ==
  UNCHANGED <<durable, batch, cur, todo, put, poll, committed, pendingAck, pickup, relay>>

\* A timeout, a broken connection, a rejected offer, an authorization error.
SessionError ==
  /\ phase \in SessionPhase
  /\ Fault
  /\ EndInError(cur)
  /\ SessionUnchanged

\* The recipient's handler is gone and left nothing to read but, perhaps, an ack.
PeerGone ==
  /\ phase \in SessionPhase
  /\ handler[cur] = "none"
  /\ phase = "await" => cur \notin ackWire
  /\ EndInError(cur)
  /\ SessionUnchanged /\ UNCHANGED faults

\* A session that trusts whomever the tick trusted.
TrustUnchecked ==
  /\ phase = "hello" /\ handler[cur] = "greeted"
  /\ phase' = "ping"
  /\ SessionUnchanged /\ UNCHANGED <<copy, ackWire, handler, faults>>

\* The handshake has read the trust store again: a peer that was removed or
\* revoked since the tick began is refused.
TrustChecked ==
  /\ phase = "hello" /\ handler[cur] = "greeted"
  /\ IF Recipient[cur] \in trusted
     THEN phase' = "ping" /\ UNCHANGED <<copy, ackWire, handler>>
     ELSE EndInError(cur)
  /\ SessionUnchanged /\ UNCHANGED faults

\* The pong arrives; an ack the peer replayed before it is applied to the copy.
HealthOk ==
  /\ phase = "ping" /\ handler[cur] = "greeted"
  /\ copy' = [copy EXCEPT ![cur] = IF cur \in ackWire THEN ApplyAck(@) ELSE @]
  /\ ackWire' = ackWire \ {cur}
  /\ phase' = "offer"
  /\ SessionUnchanged /\ UNCHANGED <<handler, faults>>

\* offer-accept arrives: the plan is sent.
OfferAccepted ==
  /\ phase = "offer" /\ handler[cur] = "accepted"
  /\ Advance(cur, "offered", "plan")
  /\ SessionUnchanged /\ UNCHANGED faults

\* have arrives: the wanted objects are streamed.
HaveReceived ==
  /\ phase = "plan" /\ handler[cur] = "have"
  /\ Advance(cur, "transferring", "stream")
  /\ SessionUnchanged /\ UNCHANGED faults

StreamDone ==
  /\ phase = "stream"
  /\ Advance(cur, "awaiting_ack", "await")
  /\ SessionUnchanged /\ UNCHANGED faults

\* await_ack: an ack the row does not take is an error.
AckRead ==
  /\ phase = "await" /\ cur \in ackWire
  /\ IF AckAccepted(copy[cur])
     THEN /\ copy' = [copy EXCEPT ![cur] = ApplyAck(@)]
          /\ phase' = "report_ok"
          /\ ackWire' = ackWire \ {cur}
          /\ UNCHANGED handler
     ELSE EndInError(cur)
  /\ SessionUnchanged /\ UNCHANGED faults

\* Under the node lock again: the session's row is written back.
Report ==
  /\ phase \in {"report_ok", "report_error"}
  /\ outbox' = [outbox EXCEPT ![cur] = SyncRow(@, copy[cur])]
  /\ copy' = [copy EXCEPT ![cur] = NoRow]
  /\ IF phase = "report_ok"
     THEN phase' = "batch" /\ cur' = None
     ELSE phase' = "deposit" /\ cur' = cur
  /\ UNCHANGED <<old, trusted, deposited, batch, todo, put, poll, receiver, relay, faults>>

\* The node cannot be reloaded after the session: nothing of it is written back.
ReportLost ==
  /\ phase \in {"report_ok", "report_error"}
  /\ Fault
  /\ copy' = [copy EXCEPT ![cur] = NoRow]
  /\ phase' = "batch" /\ cur' = None
  /\ UNCHANGED <<durable, batch, todo, put, poll, receiver, relay>>

\* deposit_if_due looks at the attempts and at the relays, not at the state.
DepositDue(e) ==
  /\ outbox[e].attempts >= RelayAfter
  /\ Relays # {}
  /\ Recipient[e] \in trusted

DepositNotDue ==
  /\ phase = "deposit"
  /\ ~DepositDue(cur)
  /\ phase' = "batch" /\ cur' = None
  /\ UNCHANGED <<durable, batch, copy, todo, put, poll, receiver, relay, faults>>

DepositStart ==
  /\ phase = "deposit"
  /\ DepositDue(cur)
  /\ phase' = "depositing" /\ todo' = Relays /\ put' = FALSE
  /\ UNCHANGED <<durable, batch, cur, copy, poll, receiver, relay, faults>>

\* One relay of the loop: it is marked already, or takes the delivery.
DepositTo(r) ==
  /\ phase = "depositing" /\ r \in todo
  /\ todo' = todo \ {r} /\ put' = TRUE
  /\ mail' = IF <<cur, r>> \in deposited THEN mail ELSE mail \cup {<<cur, r>>}
  /\ deposited' = deposited \cup {<<cur, r>>}
  /\ UNCHANGED <<outbox, old, trusted, phase, batch, cur, copy, poll, receiver, receipts, faults>>

\* The request fails, before or after the relay stored the delivery.
DepositFailed(r) ==
  /\ phase = "depositing" /\ r \in todo
  /\ <<cur, r>> \notin deposited
  /\ Fault
  /\ todo' = todo \ {r}
  /\ mail' \in {mail, mail \cup {<<cur, r>>}}
  /\ UNCHANGED <<durable, phase, batch, cur, copy, put, poll, receiver, receipts>>

\* The row waits for an ack even if no relay took the delivery.
DepositDoneAnyway ==
  /\ phase = "depositing" /\ todo = {}
  /\ outbox' = [outbox EXCEPT ![cur] = MarkRelayDeposited(@)]
  /\ phase' = "batch" /\ cur' = None /\ put' = FALSE
  /\ UNCHANGED <<old, trusted, deposited, batch, copy, todo, poll, receiver, relay, faults>>

\* Every relay has been tried: the row waits for an ack if one took the delivery.
DepositDone ==
  /\ phase = "depositing" /\ todo = {}
  /\ outbox' = IF put THEN [outbox EXCEPT ![cur] = MarkRelayDeposited(@)] ELSE outbox
  /\ phase' = "batch" /\ cur' = None /\ put' = FALSE
  /\ UNCHANGED <<old, trusted, deposited, batch, copy, todo, poll, receiver, relay, faults>>

----------------------------------------------------------------------------
(* The recipient's session handler.                                        *)

HandlerUnchanged ==
  UNCHANGED <<durable, worker, poll, pickup, relay>>

\* A trusted session starts with a replay of the acks still stored.
PeerGreets(e) ==
  /\ phase = "hello" /\ cur = e
  /\ handler[e] = "open"
  /\ handler' = [handler EXCEPT ![e] = "greeted"]
  /\ ackWire' = IF e \in pendingAck THEN ackWire \cup {e} ELSE ackWire
  /\ HandlerUnchanged /\ UNCHANGED <<committed, pendingAck, faults>>

PeerAcceptsOffer(e) ==
  /\ phase = "offer" /\ cur = e
  /\ handler[e] = "greeted"
  /\ handler' = [handler EXCEPT ![e] = "accepted"]
  /\ HandlerUnchanged /\ UNCHANGED <<committed, pendingAck, ackWire, faults>>

PeerAnswersPlan(e) ==
  /\ phase = "plan" /\ cur = e
  /\ handler[e] = "accepted"
  /\ handler' = [handler EXCEPT ![e] = "have"]
  /\ HandlerUnchanged /\ UNCHANGED <<committed, pendingAck, ackWire, faults>>

\* Every wanted object has arrived, its hash verified and the closure complete.
PeerStages(e) ==
  /\ phase = "await" /\ cur = e
  /\ handler[e] = "have"
  /\ handler' = [handler EXCEPT ![e] = "staged"]
  /\ HandlerUnchanged /\ UNCHANGED <<committed, pendingAck, ackWire, faults>>

\* finalize_received_offer: objects, manifest and shelf record are durable.
PeerCommits(e) ==
  /\ handler[e] = "staged"
  /\ handler' = [handler EXCEPT ![e] = "committed"]
  /\ committed' = committed \cup {e}
  /\ HandlerUnchanged /\ UNCHANGED <<pendingAck, ackWire, faults>>

PeerSigns(e) ==
  /\ handler[e] = "committed"
  /\ handler' = [handler EXCEPT ![e] = "signed"]
  /\ pendingAck' = pendingAck \cup {e}
  /\ HandlerUnchanged /\ UNCHANGED <<committed, ackWire, faults>>

\* The ack is written; on a connection the sender has left nobody reads it.
PeerWritesAck(e) ==
  /\ handler[e] = "signed"
  /\ handler' = [handler EXCEPT ![e] = "written"]
  /\ ackWire' = IF phase = "await" /\ cur = e THEN ackWire \cup {e} ELSE ackWire
  /\ HandlerUnchanged /\ UNCHANGED <<committed, pendingAck, faults>>

PeerForgetsAck(e) ==
  /\ handler[e] = "written"
  /\ handler' = [handler EXCEPT ![e] = "none"]
  /\ pendingAck' = pendingAck \ {e}
  /\ HandlerUnchanged /\ UNCHANGED <<committed, ackWire, faults>>

\* The handler fails: an error of its own, or a write to a connection that the
\* sender has left, which is no further fault.
PeerFails(e) ==
  /\ handler[e] # "none"
  /\ \/ Fault
     \/ /\ handler[e] = "signed"
        /\ ~(phase = "await" /\ cur = e)
        /\ UNCHANGED faults
  /\ handler' = [handler EXCEPT ![e] = "none"]
  /\ HandlerUnchanged /\ UNCHANGED <<committed, pendingAck, ackWire>>

----------------------------------------------------------------------------
(* The relays.                                                             *)

\* The ack is stored, and soon sent, before anything is committed.
PickUpAcksFirst(e, r) ==
  /\ <<e, r>> \in mail
  /\ \A x \in pickup : Recipient[x[1]] # Recipient[e]
  /\ pendingAck' = pendingAck \cup {e}
  /\ pickup' = pickup \cup {<<e, r, "received">>}
  /\ UNCHANGED <<durable, worker, poll, handler, committed, ackWire, relay, faults>>

\* The recipient polls: a delivery is committed and its ack stored as for a
\* direct one ...
PickUp(e, r) ==
  /\ <<e, r>> \in mail
  /\ \A x \in pickup : Recipient[x[1]] # Recipient[e]
  /\ committed' = committed \cup {e}
  /\ pendingAck' = pendingAck \cup {e}
  /\ pickup' = pickup \cup {<<e, r, "received">>}
  /\ UNCHANGED <<durable, worker, poll, handler, ackWire, relay, faults>>

\* ... then the ack goes back over the relay ...
PickUpReplies(e, r) ==
  /\ <<e, r, "received">> \in pickup
  /\ receipts' = receipts \cup {<<e, r>>}
  /\ pickup' = (pickup \ {<<e, r, "received">>}) \cup {<<e, r, "replied">>}
  /\ UNCHANGED <<durable, worker, poll, handler, committed, pendingAck, ackWire, mail, faults>>

\* ... and the delivery is removed from the relay.
PickUpRemoves(e, r) ==
  /\ <<e, r, "replied">> \in pickup
  /\ mail' = mail \ {<<e, r>>}
  /\ pickup' = pickup \ {<<e, r, "replied">>}
  /\ UNCHANGED <<durable, worker, poll, handler, committed, pendingAck, ackWire, receipts, faults>>

\* Any error ends the recipient's poll; what it did not remove is polled again.
PickUpFails(x) ==
  /\ x \in pickup
  /\ Fault
  /\ pickup' = pickup \ {x}
  /\ UNCHANGED <<durable, worker, poll, handler, committed, pendingAck, ackWire, relay>>

\* The sender polls, on a detached outbox.
PollStart(r) ==
  /\ polling = None
  /\ polling' = r /\ view' = outbox
  /\ UNCHANGED <<durable, worker, receiver, relay, faults>>

\* An ack is taken off the relay whether or not the detached row accepts it.
PollTakesAck(e) ==
  /\ <<e, polling>> \in receipts
  /\ view' = [view EXCEPT ![e] = ApplyAck(@)]
  /\ receipts' = receipts \ {<<e, polling>>}
  /\ UNCHANGED <<durable, worker, polling, receiver, mail, faults>>

\* The acked rows of the detached outbox are carried into the durable one.
PollDone ==
  /\ polling # None
  /\ outbox' = [e \in Ids |-> IF view[e].state = "acked" THEN SyncRow(outbox[e], view[e])
                              ELSE outbox[e]]
  /\ polling' = None /\ view' = [e \in Ids |-> NoRow]
  /\ UNCHANGED <<old, trusted, deposited, worker, receiver, relay, faults>>

\* An error on a later item: the acks already taken off the relay are lost.
PollFails ==
  /\ polling # None
  /\ Fault
  /\ polling' = None /\ view' = [e \in Ids |-> NoRow]
  /\ UNCHANGED <<durable, worker, receiver, relay>>

\* A relay forgets an envelope after 72 hours.
EnvelopeExpires ==
  /\ \/ \E m \in mail : mail' = mail \ {m} /\ UNCHANGED receipts
     \/ \E m \in receipts : receipts' = receipts \ {m} /\ UNCHANGED mail
  /\ UNCHANGED <<durable, worker, poll, receiver, faults>>

----------------------------------------------------------------------------
(* Crashes.  What is not durable is gone.                                  *)

SenderCrash ==
  /\ Fault
  /\ phase' = "idle" /\ batch' = {} /\ cur' = None
  /\ copy' = [e \in Ids |-> NoRow]
  /\ todo' = {} /\ put' = FALSE
  /\ polling' = None /\ view' = [e \in Ids |-> NoRow]
  /\ ackWire' = {}
  /\ handler' = [e \in Ids |-> IF handler[e] \in Receiving THEN "none" ELSE handler[e]]
  /\ UNCHANGED <<durable, committed, pendingAck, pickup, relay>>

\* What was committed had not reached the disk.
PeerCrashForgets(p) ==
  /\ Fault
  /\ handler' = [e \in Ids |-> IF Recipient[e] = p THEN "none" ELSE handler[e]]
  /\ pickup' = {x \in pickup : Recipient[x[1]] # p}
  /\ committed' = {e \in committed : Recipient[e] # p}
  /\ UNCHANGED <<durable, worker, poll, pendingAck, ackWire, relay>>

PeerCrash(p) ==
  /\ Fault
  /\ handler' = [e \in Ids |-> IF Recipient[e] = p THEN "none" ELSE handler[e]]
  /\ pickup' = {x \in pickup : Recipient[x[1]] # p}
  /\ UNCHANGED <<durable, worker, poll, committed, pendingAck, ackWire, relay>>

----------------------------------------------------------------------------

\* What the outbox worker does on its own.
WorkerStep ==
  \/ Collect \/ TickDone
  \/ \E e \in Ids : DialFailed(e) \/ DialOk(e)
  \/ SessionError \/ PeerGone
  \/ TrustChecked \/ HealthOk \/ OfferAccepted \/ HaveReceived \/ StreamDone \/ AckRead
  \/ Report \/ ReportLost
  \/ DepositNotDue \/ DepositStart \/ DepositDone
  \/ \E r \in Relays : DepositTo(r) \/ DepositFailed(r)

\* What the handler of a session does.
HandlerStep(e) ==
  \/ PeerGreets(e) \/ PeerAcceptsOffer(e) \/ PeerAnswersPlan(e) \/ PeerStages(e)
  \/ PeerCommits(e) \/ PeerSigns(e) \/ PeerWritesAck(e) \/ PeerForgetsAck(e)
  \/ PeerFails(e)

UserStep ==
  \/ \E e \in Ids : Enqueue(e) \/ CancelRow(e) \/ Elapse(e) \/ Age(e)
  \/ \E p \in Peers : Distrust(p)

RelayStep ==
  \/ \E e \in Ids, r \in Relays : PickUp(e, r) \/ PickUpReplies(e, r) \/ PickUpRemoves(e, r)
  \/ \E x \in pickup : PickUpFails(x)
  \/ \E r \in Relays : PollStart(r)
  \/ \E e \in Ids : PollTakesAck(e)
  \/ PollDone \/ PollFails \/ EnvelopeExpires

Next ==
  \/ UserStep
  \/ WorkerStep
  \/ \E e \in Ids : HandlerStep(e)
  \/ RelayStep
  \/ SenderCrash
  \/ \E p \in Peers : PeerCrash(p)

Spec == Init /\ [][Next]_vars

\* Every await of the worker and of a handler has a timeout, the worker ticks
\* for ever and clocks advance: none of them stops while it can take a step.
FairSpec ==
  /\ Spec
  /\ WF_vars(WorkerStep)
  /\ \A e \in Ids : WF_vars(HandlerStep(e)) /\ WF_vars(Elapse(e))

----------------------------------------------------------------------------
(* Correctness.                                                            *)

\* Type invariant: the state every operation of the outbox, the worker, the
\* handlers and the polls stays in.
TypeOK ==
  /\ outbox \in [Ids -> Row]
  /\ old \subseteq Ids
  /\ trusted \subseteq Peers
  /\ deposited \subseteq Ids \X Relays
  /\ phase \in Phase
  /\ batch \subseteq Ids
  /\ cur \in Ids \cup {None}
  /\ copy \in [Ids -> Row]
  /\ todo \subseteq Relays
  /\ put \in BOOLEAN
  /\ polling \in Relays \cup {None}
  /\ view \in [Ids -> Row]
  /\ handler \in [Ids -> {"none"} \cup Receiving \cup Completing]
  /\ committed \subseteq Ids
  /\ pendingAck \subseteq Ids
  /\ ackWire \subseteq Ids
  /\ pickup \subseteq Ids \X Relays \X {"received", "replied"}
  /\ mail \subseteq Ids \X Relays
  /\ receipts \subseteq Ids \X Relays
  /\ faults \in 0 .. MaxFaults

\* "Sent only after atomic durable commit" (SPEC.md 6.7): when the sender's
\* files say a delivery is acked, the recipient's files hold the snapshot,
\* whichever of direct session, replay and relay carried the ack and whatever
\* crashed on the way.
AckedMeansCommitted ==
  \A e \in Ids : outbox[e].state = "acked" => e \in committed

\* A crash can strike at any time and detached copies never reach the disk in
\* the middle of a session, so the durable outbox only holds states the next
\* tick knows how to take up: no row is left in health check, offered or
\* transferring with nobody working on it.
DurableStatesRest ==
  \A e \in Ids : outbox[e].state \in
    {"absent", "queued", "awaiting_ack", "acked", "failed", "cancelled"}

\* A durable row waits for an ack only when a relay was handed the delivery
\* (deposit_if_due, mark_relay_deposited): otherwise nobody would answer.
AwaitingMeansDeposited ==
  \A e \in Ids : outbox[e].state = "awaiting_ack" =>
    \E r \in Relays : <<e, r>> \in deposited

Attempted(e) == e \in batch \/ cur = e

Settled(s) == Terminal(s) \/ s = "failed"

\* The tick that collected e cannot reach the peer.
DialFails(e) == e \in batch \ batch'
\* The session of e ended in an error and writes its copy of the row back.
WritesBack(e) == cur = e /\ phase = "report_error"

\* Who may change a settled row.  An acked or cancelled one stays as it is
\* ("Terminal: acked, cancelled, expired"), but for two paths back to queued or
\* failed: the dial fails of a row that was settled after the tick had collected it
\* (fail_attempt does not look at the state), and a session ends in an error whose
\* copy of the row is older than the ack (sync_entry_from spares only the cancelled
\* and expired).  A failed row, which the user may retry, is revived by the attempt
\* that failed when a relay then takes its delivery, and by an ack.  Nothing else
\* changes one: not send, cancel, expiry, a poll, a deposit, a crash, a later tick.
SettledStays ==
  [][\A e \in Ids :
       Settled(outbox[e].state) /\ outbox'[e].state # outbox[e].state
         => \/ /\ outbox'[e].state \in {"queued", "failed"}
               /\ \/ DialFails(e)
                  \/ outbox[e].state # "cancelled" /\ WritesBack(e)
            \/ /\ outbox[e].state = "failed"
               /\ \/ outbox'[e].state = "acked"
                  \/ /\ outbox'[e].state = "awaiting_ack"
                     /\ cur = e /\ phase = "depositing"]_vars

\* Nothing of e is under way anywhere.
Quiet(e) ==
  /\ ~Attempted(e)
  /\ handler[e] = "none"
  /\ \A r \in Relays : <<e, r>> \notin mail
  /\ \A x \in pickup : x[1] # e

\* A delivery cancelled while nothing of it is under way is never handed over:
\* the worker does not take it up again, no relay is given it, and the
\* recipient does not come to have it.
WithdrawnIsNotSent ==
  [][\A e \in Ids :
       outbox[e].state = "cancelled" /\ Quiet(e)
         => Quiet(e)' /\ (e \in committed' => e \in committed)]_vars

\* Nothing of e is on its way to its recipient, and no session or deposit that
\* passed its trust check still works on it.
Withheld(e) ==
  /\ cur = e => phase \in {"hello", "report_ok", "report_error", "deposit"}
  /\ handler[e] \in {"none", "open", "greeted"}
  /\ \A r \in Relays : <<e, r>> \notin mail

\* Once trust in a peer is withdrawn nothing new is sent to it, not even by a
\* tick that collected its rows before (establish_trusted_session,
\* deposit_if_due): what is withheld at that moment stays withheld.
RevokedPeerIsNotSent ==
  [][\A e \in Ids :
       Recipient[e] \notin trusted /\ Withheld(e)
         => Withheld(e)' /\ (e \in committed' => e \in committed)]_vars

\* The move table lets a session fail in one place only: when the ack of this
\* very delivery was replayed to it during the health check.  Everywhere else
\* the copy is in the state that the phase of the session requires.
PhaseMatchesRow ==
  phase \in SessionPhase =>
    copy[cur].state \in CASE phase \in {"hello", "ping"} -> {"healthcheck"}
                          [] phase = "offer"  -> {"healthcheck", "acked"}
                          [] phase = "plan"   -> {"offered"}
                          [] phase = "stream" -> {"transferring"}
                          [] phase = "await"  -> {"awaiting_ack"}

\* The outbox as the promise sees it.
duty == [e \in Ids |->
           CASE outbox[e].state = "absent" -> "absent"
             [] outbox[e].state = "acked"  -> "cleared"
             [] outbox[e].state \in {"failed", "cancelled", "expired"} -> "dropped"
             [] OTHER -> "owed"]

Promise == INSTANCE Handoff WITH
  duty <- duty, received <- committed,
  Reopenable <- IF Relays = {} THEN Cancellable ELSE Ids

\* The outbox, the worker and the recipients keep the promise of Handoff.
KeepsPromise == Promise!Spec

\* Every queued delivery is settled in the end: the worker never strands a row,
\* whatever crashed, and backoff always ends.
EventuallySettled ==
  \A e \in Ids : outbox[e].state = "queued" ~> Settled(outbox[e].state)

\* With fewer faults than attempts, a trusted recipient and no cancel or expiry,
\* every delivery is acked - unless the recipient still stores its ack.
EventuallyAckedOrReplayed ==
  \A e \in Ids : outbox[e].state = "queued" ~>
    \/ outbox[e].state \in {"acked", "cancelled"}
    \/ e \in old \/ Recipient[e] \notin trusted
    \/ e \in pendingAck
=============================================================================
