---------------------------- MODULE OutboxEntry ----------------------------
(***************************************************************************)
(* The row an outbox keeps for one delivery, and what each mutator of      *)
(* crates/abra-net/src/outbox.rs does to it.  Every operator is a function *)
(* from rows to rows: the same function is applied to the durable outbox   *)
(* (under its file lock) and to the detached copy a session works on.      *)
(*                                                                         *)
(* A row is abstracted to what decides its fate: its state, the attempts   *)
(* made, and whether its backoff has elapsed.  Ids, signatures, timestamps *)
(* and error texts are left out; an ack is for a row when it names its     *)
(* offer, which the callers decide.                                        *)
(***************************************************************************)
EXTENDS Naturals

CONSTANT MaxAttempts  \* failed attempts after which a row is given up (20 in the code)

ASSUME MaxAttemptsAssumption == MaxAttempts \in Nat \ {0}

OutboxState == {"queued", "healthcheck", "offered", "transferring",
                "awaiting_ack", "acked", "failed", "cancelled", "expired"}

\* Bound: attempts beyond the first one past MaxAttempts are not told apart.
\* The code compares the count with thresholds of at most MaxAttempts only.
AttemptCeiling == MaxAttempts + 1

\* The state "absent" stands for an id the outbox has no row for.
Row == [state : OutboxState \cup {"absent"},
        attempts : 0 .. AttemptCeiling,
        due : BOOLEAN]        \* next_attempt_at <= now

NoRow == [state |-> "absent", attempts |-> 0, due |-> FALSE]

NewRow == [state |-> "queued", attempts |-> 0, due |-> TRUE]

Terminal(s) == s \in {"acked", "cancelled", "expired"}

\* Forgets that a cancelled row is withdrawn.
PendingCancelled(row) == row.state \notin {"absent", "failed", "acked", "expired"} /\ row.due

\* A row the worker picks up.
Pending(row) ==
  /\ row.state \notin {"absent", "failed"}
  /\ ~Terminal(row.state)
  /\ row.due

----------------------------------------------------------------------------

\* The moves `transition` accepts; any other is an error.
Legal(from, to) ==
  \/ to = "healthcheck" /\ from \in {"queued", "offered", "transferring", "awaiting_ack"}
  \/ to = "queued" /\ from \in {"healthcheck", "offered", "transferring", "awaiting_ack"}
  \/ <<from, to>> \in {<<"healthcheck", "offered">>,
                       <<"offered", "transferring">>,
                       <<"transferring", "awaiting_ack">>}

Transition(row, to) == [row EXCEPT !.state = to]

Ceil(n) == IF n < AttemptCeiling THEN n ELSE AttemptCeiling

\* No limit on the attempts, nor on the bound of this model.
FailAttemptUncapped(row) ==
  [row EXCEPT !.attempts = @ + 1, !.state = "queued", !.due = FALSE]

\* Never gives up.
FailAttemptForever(row) ==
  [row EXCEPT !.attempts = Ceil(@ + 1), !.state = "queued", !.due = FALSE]

\* Gives up one attempt too early.
FailAttemptEarly(row) ==
  IF row.attempts + 2 >= MaxAttempts
  THEN [row EXCEPT !.attempts = Ceil(@ + 1), !.state = "failed"]
  ELSE [row EXCEPT !.attempts = Ceil(@ + 1), !.state = "queued", !.due = FALSE]

\* An error ends an attempt.  Whatever state the row is in, it goes back to
\* queued with a backoff, or to failed once the attempts are used up.
FailAttempt(row) ==
  LET n == Ceil(row.attempts + 1)
  IN  IF n >= MaxAttempts
      THEN [row EXCEPT !.attempts = n, !.state = "failed"]
      ELSE [row EXCEPT !.attempts = n, !.state = "queued", !.due = FALSE]

\* An ack counts only while the row waits for one, or during the health check,
\* when the peer replays the acks it still holds.
AckAccepted(row) == row.state \in {"awaiting_ack", "healthcheck"}

ApplyAck(row) == IF AckAccepted(row) THEN [row EXCEPT !.state = "acked"] ELSE row

MarkRelayDeposited(row) ==
  IF Terminal(row.state) \/ row.state = "absent" THEN row
  ELSE [row EXCEPT !.state = "awaiting_ack", !.due = FALSE]

Expire(row, old) ==
  IF row.state = "queued" /\ old THEN [row EXCEPT !.state = "expired"] ELSE row

\* Any row can be cancelled, even one that is settled.
CanCancelAny(row) == row.state # "absent"

CanCancel(row) ==
  /\ row.state \notin {"absent", "failed"}
  /\ ~Terminal(row.state)

Cancel(row) == [row EXCEPT !.state = "cancelled"]

\* A session's copy replaces the durable row, unless the row was cancelled or
\* had expired meanwhile.  An acked row is replaced like any other.
SyncRow(durable, copy) ==
  IF durable.state \in {"cancelled", "expired"} THEN durable ELSE copy

=============================================================================
