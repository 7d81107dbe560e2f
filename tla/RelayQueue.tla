----------------------------- MODULE RelayQueue -----------------------------
(***************************************************************************)
(* The blind relay as a durable queue, and the daemons that use it.        *)
(*                                                                         *)
(* A sender deposits a sealed delivery under the recipient's tag of the    *)
(* day.  The recipient polls without deleting, takes the delivery up,      *)
(* deposits an ack for the sender, and only then deletes the item.  The    *)
(* relay writes an envelope to a temporary file, renames it, and enters it *)
(* in memory; it may crash between any two of these, and after a crash it  *)
(* knows what the directory holds.                                         *)
(*                                                                         *)
(* An envelope is the delivery or ack of an offer, and a number: every     *)
(* attempt is sealed anew, so its id is new as well.                       *)
(***************************************************************************)
EXTENDS Integers, Sequences, FiniteSets, SequencesExt, Functions

CONSTANTS
  Devices,      \* the daemons
  Offers,       \* what they deposit for one another
  Sender, Recipient,
  Refused,      \* offers their recipient refuses: its trust has changed
  Attempts,     \* bound: Attempts[kind], envelopes of a kind held per offer
  IdOrder,      \* all envelopes, in the order of their ids
  Bulk, Slip,   \* the size of a delivery and of an ack
  Cap,          \* max_storage_bytes
  Batch,        \* MAX_RELAY_POLL_ITEMS
  Retention,    \* days an envelope is kept: its expires_at
  MaxDay,       \* bound: days that pass
  MaxFaults,    \* bound: crashes of the relay, lost replies and failed syncs
  Nothing

Kinds     == {"delivery", "ack"}
Envelopes == UNION {[offer : Offers, kind : {k}, n : 1 .. Attempts[k]] : k \in Kinds}
SizeOf(e) == IF e.kind = "delivery" THEN Bulk ELSE Slip
Total(es) == Bulk * Cardinality({e \in es : e.kind = "delivery"})
               + Slip * Cardinality({e \in es : e.kind = "ack"})
From(e)   == IF e.kind = "delivery" THEN Sender[e.offer] ELSE Recipient[e.offer]
To(e)     == IF e.kind = "delivery" THEN Recipient[e.offer] ELSE Sender[e.offer]

ASSUME QueueAssumption ==
  /\ Sender \in [Offers -> Devices] /\ Recipient \in [Offers -> Devices]
  /\ Refused \subseteq Offers
  /\ Attempts \in [Kinds -> Nat] /\ Batch \in Nat \ {0}
  /\ Bulk \in Nat \ {0} /\ Slip \in Nat \ {0}
  /\ Cap \in Nat /\ Bulk <= Cap /\ Slip <= Cap
  /\ Retention \in Nat /\ MaxDay \in Nat
  /\ MaxFaults \in Nat
  /\ IdOrder \in Seq(Envelopes) /\ ToSet(IdOrder) = Envelopes /\ IsInjective(IdOrder)
  /\ Nothing \notin Envelopes \cup Devices \cup Nat

VARIABLES
  up,       \* the relay runs
  tmp,      \* interrupted writes in its directory
  files,    \* envelopes in its directory
  items,    \* envelopes it knows of
  stored,   \* storage_bytes
  op,       \* what it is doing, for whom and with which envelope
  put,      \* put[e]: the day envelope e was sealed, or Nothing
  accepted, \* deposits whose sender saw them accepted
  batch,    \* batch[d]: the polled envelopes device d has not handled yet
  step,     \* step[d]: where d is with the first of them
  received, \* offers their recipient has committed
  copy,     \* copy[d]: rows in the poll's outbox that await one of its acks
  acks,     \* acks[d]: rows the poll's outbox calls acked
  fetched,  \* offers whose ack a poll of their sender has read
  lost,     \* offers of which such a poll has let an ack fall
  settled,  \* offers whose row says acked, durably
  day,
  interruptions, \* crashes of the relay and replies lost
  ioErrors  \* failed syncs

relayVars  == <<up, tmp, files, items, stored, op>>
outboxes   == <<copy, acks, fetched, lost, settled>>
clientVars == <<put, accepted, batch, step, received, outboxes>>
faults     == <<interruptions, ioErrors>>
vars       == <<relayVars, clientVars, day, faults>>

Idle == [kind |-> "idle", envelope |-> Nothing]

\* One type invariant: what is held is envelopes, and memory counts in bytes.
TypeOK ==
  /\ up \in BOOLEAN
  /\ tmp \subseteq Envelopes /\ files \subseteq Envelopes /\ items \subseteq Envelopes
  /\ stored \in 0 .. Cap
  /\ op \in {Idle} \cup [kind : {"write", "publish", "unlink"}, envelope : Envelopes]
  /\ put \in [Envelopes -> 0 .. MaxDay \cup {Nothing}]
  /\ accepted \subseteq Envelopes
  /\ batch \in [Devices -> Seq(Envelopes)]
  /\ step \in [Devices -> {"take", "answer", "answering", "delete", "deleting"}]
  /\ received \subseteq Offers /\ settled \subseteq Offers
  /\ fetched \subseteq Offers /\ lost \subseteq Offers
  /\ copy \in [Devices -> SUBSET Offers] /\ acks \in [Devices -> SUBSET Offers]
  /\ day \in 0 .. MaxDay
  /\ interruptions \in 0 .. MaxFaults /\ ioErrors \in 0 .. MaxFaults

Init ==
  /\ up = TRUE /\ tmp = {} /\ files = {} /\ items = {} /\ stored = 0 /\ op = Idle
  /\ put = [e \in Envelopes |-> Nothing]
  /\ accepted = {} /\ received = {} /\ settled = {}
  /\ fetched = {} /\ lost = {}
  /\ copy = [d \in Devices |-> {}] /\ acks = [d \in Devices |-> {}]
  /\ batch = [d \in Devices |-> <<>>] /\ step = [d \in Devices |-> "take"]
  /\ day = 0 /\ interruptions = 0 /\ ioErrors = 0

Faults    == interruptions + ioErrors
Interrupt == Faults < MaxFaults /\ interruptions' = interruptions + 1

Expired(e)  == put[e] # Nothing /\ day >= put[e] + Retention
\* polling_tags: yesterday's, today's and tomorrow's.
InWindow(e) == put[e] # Nothing /\ put[e] \in day - 1 .. day + 1

----------------------------------------------------------------------------
(* The relay.  Its lock admits one request at a time.                      *)

Kept == {e \in items : ~Expired(e)}

\* enqueue, up to the temporary file: expired items go first, then the
\* storage cap is looked at.
WithoutIt(e) == Total(Kept) <= Cap
Fits(e) == Total(Kept) + SizeOf(e) <= Cap
Request(e) ==
  /\ up /\ op = Idle
  /\ files' = files \ (items \ Kept)
  /\ items' = Kept
  /\ stored' = Total(Kept)
  /\ put' = [put EXCEPT ![e] = day]
  /\ accepted' = accepted \ {e}
  /\ IF Fits(e)
     THEN tmp' = tmp \cup {e} /\ op' = [kind |-> "write", envelope |-> e]
     ELSE UNCHANGED <<tmp, op>>

\* persist_new: the rename.
Publish ==
  /\ op.kind = "write"
  /\ files' = files \cup {op.envelope} /\ tmp' = tmp \ {op.envelope}
  /\ op' = [op EXCEPT !.kind = "publish"]
  /\ UNCHANGED <<up, items, stored, clientVars, day, faults>>

\* The client that waits for the reply to an ack deposit.
Answering(e, d) == step[d] = "answering" /\ e.kind = "ack" /\ From(e) = d
\* An error ends its poll, and with it the outbox the poll worked on: the acks it
\* has recorded there are lost, their items deleted.
Abandon(d) ==
  /\ batch' = [batch EXCEPT ![d] = <<>>] /\ step' = [step EXCEPT ![d] = "take"]
  /\ copy' = [copy EXCEPT ![d] = {}] /\ acks' = [acks EXCEPT ![d] = {}]
  /\ lost' = lost \cup acks[d]
  /\ UNCHANGED <<fetched, settled>>
\* Its deposit failed: the poll ends.  Went on: the item is deleted next.
GiveUp(e) ==
  IF e.kind = "ack" /\ Answering(e, From(e)) THEN Abandon(From(e))
  ELSE UNCHANGED <<batch, step, outboxes>>
GoOn(e) ==
  /\ step' = IF e.kind = "ack" /\ Answering(e, From(e))
             THEN [step EXCEPT ![From(e)] = "delete"] ELSE step
  /\ UNCHANGED <<batch, outboxes>>

\* The envelope is entered, its size counted and the reply sent.
Enter ==
  /\ op.kind = "publish"
  /\ LET e == op.envelope IN
       /\ items' = items \cup {e}
       /\ stored' = stored + SizeOf(e)
       /\ \/ /\ accepted' = accepted \cup {e} /\ GoOn(e)
             /\ UNCHANGED interruptions
          \/ /\ Interrupt
             /\ GiveUp(e) /\ UNCHANGED accepted
  /\ op' = Idle
  /\ UNCHANGED <<up, tmp, files, put, received, day, ioErrors>>

\* The directory cannot be synced: the client hears of an error, the file stays.
SyncFails ==
  /\ op.kind = "publish"
  /\ Faults < MaxFaults /\ ioErrors' = ioErrors + 1
  /\ op' = Idle
  /\ GiveUp(op.envelope)
  /\ UNCHANGED <<up, tmp, files, items, stored, put, accepted, received, day,
                 interruptions>>

\* remove: the file first, then the item and its size.
NotFreed(e) == 0
Freed(e)    == SizeOf(e)
Forget ==
  /\ op.kind = "unlink"
  /\ LET e == op.envelope
         d == To(e)
     IN /\ items' = items \ {e}
        /\ stored' = stored - Freed(e)
        /\ \/ /\ batch' = [batch EXCEPT ![d] = Tail(@)]
              /\ step' = [step EXCEPT ![d] = "take"]
              /\ UNCHANGED <<interruptions, outboxes>>
           \/ /\ Interrupt /\ Abandon(d)
  /\ op' = Idle
  /\ UNCHANGED <<up, tmp, files, put, accepted, received, day, ioErrors>>

\* Whoever waits for a reply gets an error.
Waiting(d) == step[d] \in {"answering", "deleting"}
Crash ==
  /\ up /\ Interrupt
  /\ up' = FALSE /\ items' = {} /\ stored' = 0 /\ op' = Idle
  /\ batch' = [d \in Devices |-> IF Waiting(d) THEN <<>> ELSE batch[d]]
  /\ step' = [d \in Devices |-> IF Waiting(d) THEN "take" ELSE step[d]]
  /\ copy' = [d \in Devices |-> IF Waiting(d) THEN {} ELSE copy[d]]
  /\ acks' = [d \in Devices |-> IF Waiting(d) THEN {} ELSE acks[d]]
  /\ lost' = lost \cup UNION {acks[d] : d \in {c \in Devices : Waiting(c)}}
  /\ UNCHANGED <<tmp, files, put, accepted, received, fetched, settled, day, ioErrors>>

\* RelayStore::open: interrupted writes and expired envelopes are removed; a
\* directory over the cap is refused.
Alive == {e \in files : ~Expired(e)}
WithinCap == Total(Alive) <= Cap
Start ==
  /\ ~up /\ WithinCap
  /\ up' = TRUE /\ tmp' = {}
  /\ files' = Alive /\ items' = Alive /\ stored' = Total(Alive)
  /\ UNCHANGED <<op, clientVars, day, faults>>

----------------------------------------------------------------------------
(* The daemons.                                                            *)

\* A number is used again when its envelope is gone.
Gone(e)  == /\ e \notin files \cup tmp /\ op.envelope # e
            /\ \A d \in Devices : e \notin ToSet(batch[d])
Fresh(e) == Gone(e) /\ \A m \in 1 .. e.n - 1 : ~Gone([e EXCEPT !.n = m])

\* deposit_if_due: a sender without an accepted deposit makes another.
Deposit(e) ==
  /\ e.kind = "delivery" /\ Fresh(e)
  /\ e.offer \notin settled
  /\ \A n \in 1 .. Attempts[e.kind] : [e EXCEPT !.n = n] \notin accepted
  /\ Request(e)
  /\ UNCHANGED <<up, batch, step, received, outboxes, day, faults>>

\* poll: the first items of the window, in the order of their ids.
Polled(d) == {i \in DOMAIN IdOrder : LET e == IdOrder[i]
                                     IN e \in Kept /\ To(e) = d /\ InWindow(e)}
Batched(d) ==
  LET mine == Polled(d)
      Nth(n) == CHOOSE i \in mine : Cardinality({j \in mine : j < i}) = n - 1
  IN [n \in {m \in 1 .. Batch : m <= Cardinality(mine)} |-> IdOrder[Nth(n)]]
DeleteOnFetch(d) == (items \ Kept) \cup ToSet(Batched(d))
PolledAway(d) == items \ Kept
\* The poll works on a copy of the outbox, detached from the file (poll_relays).
\* There the row of a recorded deposit awaits the ack or not: it does from
\* mark_relay_deposited until an attempt to reach the peer directly fails.
Recorded(o) == \E n \in 1 .. Attempts["delivery"] :
                 [offer |-> o, kind |-> "delivery", n |-> n] \in accepted
Awaited(d)  == {o \in Offers \ settled : /\ Recorded(o)
                                         /\ \E e \in ToSet(Batched(d)) :
                                              e.kind = "ack" /\ e.offer = o}
Poll(d) ==
  /\ up /\ op = Idle /\ batch[d] = <<>> /\ acks[d] = {}
  /\ Batched(d) # <<>>
  /\ files' = files \ PolledAway(d) /\ items' = Kept /\ stored' = Total(Kept)
  /\ batch' = [batch EXCEPT ![d] = Batched(d)]
  /\ \E rows \in SUBSET Awaited(d) : copy' = [copy EXCEPT ![d] = rows]
  /\ UNCHANGED <<up, tmp, op, put, accepted, step, received, acks, fetched, lost, settled,
                 day, faults>>

\* receive_relay_delivery returns an ack only after finalize_received_offer.
CommitIf(o) == received' \in {received, received \cup {o}}
Commit(o)   == received' = received \cup {o}

\* An item that cannot be taken up ends the poll with an error, and the items
\* behind it with it.  apply_ack settles a row of the poll's copy that awaits it,
\* and drops the ack of any other row; the item goes in either case.
Take(d) ==
  /\ batch[d] # <<>> /\ step[d] = "take"
  /\ LET e == Head(batch[d]) IN
     \/ /\ e.kind = "delivery" /\ e.offer \in Refused
        /\ Abandon(d) /\ UNCHANGED received
     \/ /\ e.kind = "delivery" /\ e.offer \notin Refused
        /\ Commit(e.offer)
        /\ step' = [step EXCEPT ![d] = "answer"] /\ UNCHANGED <<batch, outboxes>>
     \/ /\ e.kind = "ack"
        /\ fetched' = fetched \cup {e.offer}
        /\ acks' = [acks EXCEPT ![d] = @ \cup ({e.offer} \cap copy[d])]
        /\ copy' = [copy EXCEPT ![d] = @ \ {e.offer}]
        /\ lost' = lost \cup ({e.offer} \ (copy[d] \cup acks[d] \cup settled))
        /\ step' = [step EXCEPT ![d] = "delete"]
        /\ UNCHANGED <<batch, received, settled>>
  /\ UNCHANGED <<relayVars, put, accepted, day, faults>>

\* The poll has returned: sync_entry_from writes the acked rows of its copy into
\* the outbox file, if the daemon still runs and can open it.
LeftInCopy(d) == settled
Settled(d)    == settled \cup acks[d]
Carry(d) ==
  /\ batch[d] = <<>> /\ acks[d] # {}
  /\ \/ settled' = Settled(d) /\ UNCHANGED <<lost, interruptions>>
     \/ Interrupt /\ lost' = lost \cup acks[d] /\ UNCHANGED settled
  /\ acks' = [acks EXCEPT ![d] = {}]
  /\ UNCHANGED <<relayVars, put, accepted, batch, step, received, copy, fetched, day,
                 ioErrors>>

\* The ack is deposited; a full relay, or none, ends the poll.
Answer(d, e) ==
  /\ batch[d] # <<>> /\ step[d] = "answer"
  /\ e.kind = "ack" /\ e.offer = Head(batch[d]).offer /\ Fresh(e)
  /\ Request(e)
  /\ IF Fits(e)
     THEN step' = [step EXCEPT ![d] = "answering"] /\ UNCHANGED <<batch, outboxes>>
     ELSE Abandon(d)
  /\ UNCHANGED <<up, received, day, faults>>

\* The item is deleted; one that is gone already does not matter.
Delete(d) ==
  /\ batch[d] # <<>> /\ step[d] = "delete" /\ up /\ op = Idle
  /\ LET e == Head(batch[d]) IN
     \/ /\ e \in items
        /\ files' = files \ {e}
        /\ op' = [kind |-> "unlink", envelope |-> e]
        /\ step' = [step EXCEPT ![d] = "deleting"]
        /\ UNCHANGED batch
     \/ /\ e \notin items
        /\ batch' = [batch EXCEPT ![d] = Tail(@)]
        /\ step' = [step EXCEPT ![d] = "take"]
        /\ UNCHANGED <<files, op>>
  /\ UNCHANGED <<up, tmp, items, stored, put, accepted, received, outboxes, day, faults>>

\* The relay is down when the daemon calls it.
Unreachable(d) ==
  /\ ~up /\ batch[d] # <<>> /\ step[d] \in {"answer", "delete"}
  /\ Abandon(d)
  /\ UNCHANGED <<relayVars, put, accepted, received, day, faults>>

Midnight ==
  /\ day < MaxDay /\ day' = day + 1
  /\ UNCHANGED <<relayVars, clientVars, faults>>

----------------------------------------------------------------------------
Next ==
  \/ Publish \/ Enter \/ SyncFails \/ Forget \/ Crash \/ Start \/ Midnight
  \/ \E e \in Envelopes : Deposit(e)
  \/ \E d \in Devices : Poll(d)
  \/ \E d \in Devices : Take(d)
  \/ \E d \in Devices : Carry(d)
  \/ \E d \in Devices, e \in Envelopes : Answer(d, e)
  \/ \E d \in Devices : Delete(d)
  \/ \E d \in Devices : Unreachable(d)

\* The relay serves and is restarted, the daemons poll and their outbox
\* workers retry, though each may find the relay busy or down; days pass as
\* they like.
Serve   == Publish \/ Enter \/ Forget \/ Start
Work(d) == \/ Poll(d) \/ Take(d) \/ Carry(d) \/ Delete(d) \/ Unreachable(d)
           \/ \E e \in Envelopes : Answer(d, e)

Fairness ==
  /\ WF_vars(Serve)
  /\ SF_vars(\E e \in Envelopes : Deposit(e))
  /\ \A d \in Devices : SF_vars(Work(d))

Spec == Init /\ [][Next]_vars /\ Fairness

----------------------------------------------------------------------------
(* What it promises.                                                       *)

\* Whether the device an envelope is for has dealt with it: committed the delivery,
\* or read the ack.
Done(e) == IF e.kind = "delivery" THEN e.offer \in received ELSE e.offer \in fetched

\* An accepted envelope is in the directory, whatever crashed, until it expires
\* or the device it is for has dealt with it ("errors instead of silent loss").
AcceptedSurvives == \A e \in accepted : e \in files \/ Expired(e) \/ Done(e)

\* Between requests the relay knows what its directory holds and counts it
\* right (storage_bytes), whatever was interrupted before.  A failed sync leaves
\* a file it does not count.
Accounted == up /\ op = Idle /\ ioErrors = 0 => items = files /\ stored = Total(items)

\* A relay that stopped can start again: its directory is within its own cap
\* (RelayStore::open refuses it otherwise).
CanStart == ioErrors = 0 => Total(Alive) <= Cap

\* An offer as its sender sees it: owed from its first deposit, cleared by the ack.
Sealed(o) == \E n \in 1 .. Attempts["delivery"] :
               put[[offer |-> o, kind |-> "delivery", n |-> n]] # Nothing
duty == [o \in Offers |-> IF o \in settled THEN "cleared"
                          ELSE IF Sealed(o) THEN "owed" ELSE "absent"]

Promise == INSTANCE Handoff WITH Ids <- Offers, Reopenable <- {}

\* The relay and the daemons that share it keep the promise of Handoff, and take
\* no settled duty up again (relay::poll: commit, ack, delete).
RelayKeepsPromise == Promise!Spec

\* A delivery that was accepted is acknowledged to its sender, in the outbox file,
\* or a poll of the sender has lost an ack of it, behind which it ended in an error
\* or whose row it did not find awaiting one, or the recipient's window for its tag
\* has passed (poll, enqueue, apply_ack, poll_relays), while the relay has room for
\* acks and no sync failed.
Acknowledged ==
  \A o \in Offers \ Refused :
    \A n \in 1 .. Attempts["delivery"] :
      LET e == [offer |-> o, kind |-> "delivery", n |-> n]
      IN e \in accepted ~> (o \in settled \/ o \in lost \/ day > 0 \/ ioErrors > 0)
=============================================================================
