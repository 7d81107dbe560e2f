# TLA+ models of Abra

Abra hands the state of an agent (files, sessions, checkpoints) from one device to another. A daemon,
`cadabra`, runs on each device. It keeps a store of *capsules*, an *outbox* of deliveries it owes other
devices and a *trust store* of the devices it knows. It talks to other daemons over authenticated streams,
or through blind store-and-forward *relays* when a device cannot be reached.

This directory holds models of the parts of the system where order, concurrency and failure matter, the
configurations that check them on small instances, and proofs of what holds for every instance. Line
numbers refer to the commit the models were written from; `PROJECT.json` maps every definition that models
code to its lines.

## Inventory

| Component | Source (under `crates/` unless said) | State | Operations | What makes it hard | What makes it correct |
|---|---|---|---|---|---|
| Outbox | `abra-net/src/outbox.rs` | `outbox/net.cjson`: a row per delivery (state, attempts, backoff) | `enqueue` `transition` `fail_attempt` `apply_ack` `mark_relay_deposited` `expire` `cancel` `sync_entry_from` | detached in-memory copies written back over the file | acked rows are delivered; settled rows stay settled; every row is settled |
| Delivery session | `abra-net/src/delivery.rs` | row copy; staged objects; `net/pending-acks` | `send_offer` and what it calls; `handle_connection` and what it calls | either side crashes or drops the connection between any two steps; acks are replayed | ack only after commit; no ack is lost for good |
| Outbox worker, relay polling | `cadabra/src/lib.rs` 585-765, `cadabra/src/relay.rs` | the tick's list, one detached session per row; marks in `config/relays.json` | `work_outbox` `deposit_if_due` `poll_relays` | works for minutes on rows collected earlier, while the user, polls and revocations go on | withdrawn rows are not sent; no row is stranded |
| Relay service | `abra-relay/src` | items per tag, files | `enqueue` `poll_bounded` `delete` `expire` | duplicates, expiry, caps, restarts | an acknowledged item survives restarts until deleted or expired |
| Capsule records | `abra-core/src/capsule.rs` | snapshots, leases, winner, evidence, labels | `insert_snapshot` `accept_lease` `apply_label` | rules depend on what has arrived already | the head only moves to descendants; one writer per epoch |
| Capsule store | `abra-core/src/store.rs` | a directory per capsule | `receive_full` `accept_lease` `apply_label` `adopt_capsule_state` `record_fork_label` `reload_capsule` | several files per operation; replayed in another order than written | reload gives what was written |
| Capsule synchronisation | `abra-net/src/delivery.rs` 791-857, 1961-2121; `cadabra/src/lib.rs` 1253-1775, 2732-2772, 3032-3087 | offers, held labels (`net/pending-labels.json`) | `snapshot_workspace` `native_attach` `take_lease` `build_offer` `finalize_received_offer` `retry_pending_main_labels` | offers late, repeated, out of order; takeovers race; sessions work on stores of their own | devices do not lose or rewind heads, and catch up |
| Trust store, pairing, enrolment, control | `abra-net/src/auth.rs`, `control.rs` | `net/trust.json`, a copy of it per handle | `register_ticket` `accept_pair_request` `confirm_pair` `remove_peer` `bind_enrollment` `install_bind_certificate` `apply_revocations` `revoke_token` `verify_and_record` ... | stale copies are merged into the file; approvals take minutes | removal and revocation win over stale copies; tickets and control messages act once |
| Transfer and resume | `abra-net/src/delivery.rs` 644-726, 1564-1791, `abra-core/src/cas.rs` | partial files and staging per offer | `handle_plan` `compute_have` `append_partial` `commit_verified_partial` sweep | two sessions on one offer, crash in an append | only true objects are committed; a retry can go on |
| Grants and forwarding | `cadabra/src/lib.rs` 2517-2712 | policies, `forwarded.json` | `apply_receive_grants` `forward_grant` | failure between mark and send | forwarded at most once |
| Workspaces | `cadabra/src/lib.rs` 1900-2340, 3160-3480 | the directory, `.abra`, stagings and backups beside it | `accept` `replacement_guards` `replace_workspace` `materialize_provenance` and its undo | renames that fail half way, crashes, the user's edits | files of the user are not lost |
| Content store, manifests, restore plan | `abra-core/src/{cas,manifest,link,restore}.rs` | objects, trees | `commit_file` `snapshot_dir` `materialize` `closure` | hashing and file formats | an object has the bytes of its digest |
| Process checkpoints | `abra-runtime/src/process.rs` | bundles; the processes themselves | `capture` `resume-source` `restore` `preflight` | PIDs are reused; failure between freeze and resume | only the captured processes are signalled; their files match |
| Firecracker adapter | `adapters/firecracker/src/fc.rs` | `state.json`, disk and TAP per slot, one NAT rule | `up` `down` `snapshot` `restore` | a command fails or is killed at any step | guest and disk agree; a guest runs and is reachable |
| Adapter host, other adapters | `abra-adapter/src`, `adapters/` | child processes | invoke, cancel, time out | none between invocations | one answer per invocation |
| Observation, sandbox | `abra-runtime/src/{observe,sandbox}.rs` | none | read `/proc`, git, files | none | - |
| Transports, identities, encodings, CLI, viewer | `abra-net/src/{transport,framing}.rs`, `abra-core/src/{identity,canonical,util}.rs`, `abra-cli`, `viewer/` | connections, keys | I/O, cryptography, text | none that a model of this kind reaches | - |

How they interact: commands reach the daemon over a local socket and run under the *node lock*, for which
the daemon reloads store, trust and outbox from disk (`locked_node`). The outbox worker takes the lock only
to collect due rows and to write results back. In between it drives each session on a detached copy.
Sessions that receive, and forwards of grants, meet the commands only in files: the offer's directory, the
trust file, `forwarded.json`. Process checkpoints and the Firecracker adapter are programs of their own, one
process per command and no lock between them.
Inbound sessions do not take the lock at all: each opens a store of its own (`detached_node`). Relay polls
work on a detached copy too. So the files are the shared state, and every actor but the commands holds
copies of them that can be stale.

The hazards this gives rise to are listed in `PROJECT.json`, each at its line, with the properties that
cover it or the reason why none does yet.

## Modules

| Module | Content |
|---|---|
| `OutboxEntry` | the row and each mutator of `outbox.rs` as an operator from rows to rows |
| `Delivery` | the state machine of one sending daemon, its recipients and relays; extends `OutboxEntry` |
| `Handoff` | what the outbox promises a caller of `send`: the abstract specification of `Delivery` and `RelayQueue` |
| `Capsule` | records of a capsule, acceptance rules, reload, as pure operators |
| `CapsuleSync` | the state machine of devices that write one capsule and offer it to each other; extends `Capsule` |
| `Trust` | the trust file of one device, the copies its sessions and commands hold, control messages |
| `Transfer` | how the objects of one offer reach the receiver's store |
| `RelayQueue` | the relay's queue with its directory, and the daemons that deposit and poll |
| `Checkpoint` | capture, resume and restore of a process tree |
| `Workspace` | one workspace directory and everything that replaces it |
| `Firecracker` | the slots of the Firecracker adapter |
| `DeliveryProofs` | theorems about `Delivery`, and that it implements `Handoff` |
| `CapsuleSyncProofs`, `TrustProofs`, `TransferProofs`, `RelayQueueProofs`, `CheckpointProofs`, `WorkspaceProofs`, `FirecrackerProofs` | theorems about `CapsuleSync`, `Trust`, `Transfer`, `RelayQueue`, `Checkpoint`, `Workspace`, `Firecracker` |
| `MCDelivery`, `MCCapsule`, `MCTrust`, `MCTransfer`, `MCRelayQueue`, `MCCheckpoint`, `MCWorkspace`, `MCFirecracker` | model values and constraints for TLC |

### Delivery

`outbox`, `deposited`, `trusted` are the sender's files; `committed` and `pendingAck` the recipients';
`mail` and `receipts` what relays hold. `phase`, `batch`, `cur` and `copy` are the worker: the tick's
list, the row being served and its detached copy. `polling` and `view` are the poll with its detached
outbox; `handler`, `ackWire` and `pickup` the recipients' sessions. There is an action for each await of
`send_offer_inner` and `handle_connection`, since everything else may run there: `Collect`, `DialOk`,
`TrustChecked`, `HealthOk`, `OfferAccepted`, `HaveReceived`, `StreamDone`, `AckRead`, `Report`, then the
deposit (`DepositStart`, `DepositTo`, `DepositDone`), and on the other side `PeerGreets` to
`PeerForgetsAck`. A session can fail at every one of them (`SessionError`, `PeerFails`), a crash can come
at any time (`SenderCrash`, `PeerCrash`), and requests to relays fail before or after they took effect.

An offer, the plan and the objects are not modelled here, only the fact that all objects have arrived
(`PeerStages`): that step is `Transfer`. A row's offer id is the row's id. A failing reload of the node is
modelled where it loses a result (`DialFailed`, `ReportLost`). A relay is a set of items that may expire; how
it keeps them is `RelayQueue`.

`Handoff` knows only what is owed and what has been received. `Delivery` implements it under the mapping
`duty` (`KeepsPromise`). The parameter `Reopenable` makes the one weakness of the implementation visible:
an attempt under way may write over a duty settled meanwhile. Without relays this is confined to the
deliveries the user cancels.

### Capsule and CapsuleSync

A signature matters only as a tie-break, so a lease is a number with an epoch, a holder and a predecessor,
and a main op carries the number of its snapshot. `disk[d]` is the directory of the capsule on device `d`.
`Reload` is `reload_capsule`: it sorts leases and main ops and applies the acceptance rules to them in turn,
and is what every operation starts from. `session[d]` is the store an inbound session loaded. The store
operators (`PutSnap`, `PutLease`, `PutMain`, `PutFork`) change a copy and the files together, in the order
in which the code calls them; `ReceiveCut` and the second disjunct of `Author` are crashes between them.
`told[d]` is a history variable: the head that the device's last operation left in its memory.

Offers stay in `offers` for ever, so they can be received late, in any order and again. A receipt tries to
adopt leases and label as one bundle, holds the label otherwise (`held`), and retries every held label.

`Workers` are the tasks that accept connections and the relay poll. Each can hold a session open while the device
takes a lease, authors, attaches, sends, or receives in another session: no lock is between them (`detached_node`).
A session writes by the copy it loaded when it began. Where that makes a difference, that is, where a session that
had just loaded its store would have refused the offer or would have left other files, another queue or another ack
(`Alike`), the device enters the history variable `overtaken`. The code promises nothing there: a head can go back,
an acked label or a held one can be missed (see Findings). The properties, but for `ReloadKeepsHead` which needs no
exception, speak of every other device, whatever sessions it has open. A receipt is one step from its first file to
its last, cut short only by a crash. A snapshot has at most one parent, as every writer in `cadabra` has it; user
labels and leases of mode `transfer` are left out.

### Trust

`disk` is `net/trust.json`, `mem[s]` the copy session `s` holds. An operation (`RegisterTicket`,
`AcceptPair`, `ConfirmPair`, `RemovePeer`, `BindEnrollment`, `InstallCertificate`, `RevokeToken`,
`ApplyRevocations`, `ReceiveControl`, ...) takes its lock, reloads, and leaves in `doing` the copies it is
going to save, one or two as the code saves once or twice. `Save` is the step that writes one of them:
`Saved(copy, disk)` is `save` with `merge_disk_state`, `prune_expired` and `remove_revoked_guests`. Between
the two, any operation of another lock may save. `SaveHints` is the save without a lock, of whatever copy a
session's last frame left it. `PairRequest`, `Approve` and `PairRefused` are the ten minutes a request waits
for the user. `stale`, `through` and `acted` are history variables: the tickets minted before a removal, whom
the file has ever trusted by which ticket or token (recorded at each save), and the acts of a control message.

### Transfer

A file is the sequence of its chunks. `partial` and `staged` are the offer's directory, which two sessions share;
`view[s]` is what the hashers of session `s` have seen, which is not always what is in the file. `Plan` answers with
what is there (`HasHere`, offsets of partial files), `Link` links the objects of the store into the staging area,
`Read`, `Write`, `Move` take a chunk, append it and move a finished object, `Check` is the comparison of closure and
plan, `Settle` and `Reply` are the ack and the removal of the directory. `commit_file` is two steps, as it is two in
the code: `Hash` reads the staged file through, `Save` looks at lengths once more and renames what lies under that
path by then. Between them the other session may move a file of its own there; `swapped` records the objects for
which that was a wrong one (see Findings). The sender gives a session up after five seconds without an ack
(`AckTimeout`) and dials again, while the receiver may still work on the old one.

### RelayQueue

The relay writes an envelope to a temporary file (`Deposit`), renames it (`Publish`), syncs the directory
(`SyncFails` if it cannot), and enters it in memory (`Enter`); a delete forgets and unlinks (`Forget`). It may crash
between any two of them and starts from its directory. On the other side are the polls of two daemons: `Poll`
fetches at most `Batch` items, `Take`, `Answer`, `Delete` handle the first of them, and an error gives up the batch
(`Abandon`, `Unreachable`). A poll works on an outbox of its own, read when it begins: `copy` are the rows that
await an ack in it, `acks` those it has settled there. An ack whose row does not await one, because it is queued
again, is passed over and its item deleted all the same. Only when the whole poll has returned does `Carry` write
the acks into the file, `settled`. An error or a crash before that drops them, and with the items deleted nothing
brings them back: `lost` records these, `fetched` the acks read at all. The tags of days decide what a poll asks
for. `Batched` gives the n-th place of a poll to the item with n - 1 others before it in the order of ids.

It implements `Handoff` too (`RelayKeepsPromise`): an offer is owed from its first deposit, received when its
recipient takes it up, cleared when its sender has the ack. Here nothing is reopenable. How a sender's row
follows these acks is `Delivery`'s matter.

### Checkpoint

`proc` is `/proc`: for each PID the start time of its process, its state and whether it is the application's.
Processes fork, exit, are reaped, killed, continued from outside, and PIDs are given out again. `cmd[k]`
holds what command `k` has read: the root's identity, the tree, what is left to signal. CRIU is external: it
stops the tree or fails with any part stopped, restores or fails with the processes running or not. `dest`
is the machine that restores.

Two commands may be at work on one tree at any time, and a SIGCONT from outside may come at any moment: the code takes
no lock on the processes and does not look again after the copy. `crossed` records the commands it cannot protect:
one that copies the workspace when a process of the tree is continued, and one that has found the tree frozen,
or is waking it, when another command freezes it. The properties speak of the others.

### Workspace

`dir` is the directory (`files` one number for the tree, `rec` its `.abra/snapshot_id`, `cap` its
`.abra/capsule_id`), `stage` the backup beside it, `kept` what recovery left. `op` is the one replacement
that holds the node mutex, moved on by `MoveOut`, `MoveIn`, `Drop`, `Materialize`, `WriteMetadata`, each with
its failure; who began it decides what follows: `accept --replace`, the linked accept with its import and
undo (`link`, `inbox`), or a receive grant (`grant`) that then marks and enqueues. A grant lets go of the mutex
as soon as the files are in place (`GrantHead`) and writes the metadata beside whatever runs by then
(`GrantRecord`). The import of a linked accept runs without the mutex too, and an undo has no guard.

`replacement_guards` compares the directory with the snapshot it records. It lets a replacement pass unseen
when none is recorded, or one this store does not have (`Elsewhere`). The user edits at any moment, during a
replacement as well: `op.edit` is what he has made since it began. `work` holds the trees the user made and
nobody gave up by `--discard-local`. Two history variables keep apart what the code does not protect: `unrecorded`,
trees replaced with nothing to compare them with, and `late`, trees made after the guards had looked and taken away
by the move or by an undo. `NothingLost` is about all others; the findings name both.

### Firecracker

`vm[i]` is a process, `record[s]` the one `state.json` names. A guest's memory and a disk are the number of
the last write they have seen. Each command is its steps in order; at each a fault or a kill may strike,
and `Killed` leaves what the drop guards would have cleaned up. Commands on different slots run at the same
time. `down` reads the `state.json` of one slot after the other (`Look`, `idle`) before it deletes the NAT rule
(`Unrule`), and another slot may come up meanwhile. `cut` records the slots whose state such a `down`
had found to run nothing when it deleted the rule, until an `up` or a restore sets the rule again.

`strays` are the slots on which a kill left a process that no `state.json` names. Such a process still writes
the slot's disk, so on these slots nothing is claimed; and a native snapshot taken there can have a memory
and a disk of two moments, which a restore carries to other slots. `Coherent` therefore has `OneMoment`, all
native snapshots are whole, as its premise, and `CapturedAtOnce` says that `OneMoment` holds unless a slot
has strays.

## Runs

| Run | Checks | Shows |
|---|---|---|
| `direct` | `TypeOK` `PhaseMatchesRow` `KeepsPromise` `EventuallySettled` `EventuallyAckedOrReplayed` | two deliveries to one peer, direct sessions, two faults, three attempts |
| `relay` | `AckedMeansCommitted` `DurableStatesRest` `AwaitingMeansDeposited` `SettledStays` `WithdrawnIsNotSent` `RevokedPeerIsNotSent` | one delivery, sessions and a relay at once, revocation, two faults |
| `leases` | `ReloadKeepsHead` `AckedIsLoaded` `HeadNeverRewinds` | takeovers, races, a term that ends, a crash between files, a session open beside any of it |
| `order` | `CaughtUp` | a line of three snapshots in any order of arrival, in sessions open beside other operations |
| `pairing` | `RemovedStaysRemoved` `AdmitsOne` `RecordsStay` | two sessions, requests for one ticket, an invitation, removals at any moment |
| `enrol` | `RevokedIsGone` `ActedOnce` | a guest with tokens of two issuers, revocations out of order, a control message repeated, a crash |
| `resume` | `OnlyTrueBytesEnter` `AckedIsStored` `Delivered` | two sessions share the files of an offer; a lost link, a wrong chunk, a restart |
| `queue` | `AcceptedSurvives` `Accounted` `CanStart` `RelayKeepsPromise` `Acknowledged` | two offers over a relay with room for two and a half; a crash or a failed sync, a poll that fails with acks in its copy, expiry |
| `process` | `CopiedWhileStopped` `NeverAStranger` `SaysResumed` `RestoredHasItsFiles` | a tree of up to two processes, two commands at the same time, a SIGCONT at any moment, PIDs used twice |
| `replace` | `NothingLost` `ReadMeansImported` `ForwardedOnce` `RestoredExactly` | a directory edited at any moment, two snapshots, a linked accept, a grant, one fault or crash |
| `edits` | `KeepsLocalEdits` (violated) | a directory that records no snapshot, or one the store lacks, is replaced without a guard |
| `vm` | `Coherent` `CapturedAtOnce` `RunsAgain` `Reachable` | two slots with a command on each at the same time, a fault or kill at any step |

Deadlock is not checked: each of the systems rests when there is nothing to deliver, nobody calls it and its
bounds on faults are used up.

### Bounds

- `MaxAttempts` 3 (2 with relays) for 20. Code compares attempts with the limit and with
  `relay_after_attempts` only, so it takes a few to have a retry, a retry after a deposit and a last attempt.
  Attempts beyond the limit are not told apart (`AttemptCeiling`).
- `MaxFaults` 2 in `Delivery`: crashes, broken connections, lost requests. `EventuallyAckedOrReplayed` needs
  fewer faults than attempts; two are what it takes to fail in different ways in consecutive attempts, or to
  crash both sides.
- Two deliveries share a tick in `direct`, so that a row can wait in the tick's list while another is served.
- `CapsuleSync`: two devices, one or two leases after the grant and two or three snapshots: enough for a chain of
  takeovers, a race, an orphan, an orphan's orphan and a fork. `MaxOffers` 2 or 3: each snapshot of the line can be
  offered once, with the head it had then. One worker per device, so a session is open beside the device's own
  operations; two sessions of one device meet in the theorems, which have any number. `IdsInOrder` (in `order`)
  keeps the behaviours in which snapshots are numbered as they are written; `leases` goes without it.
- `Trust`: `pairing` has one ticket of this device and one of another, two sessions that are opened twice and
  three changes of a peer's pairing (paired, removed, paired again), all at any moment of each other.
  `enrol` has one session, a token of each issuer and a crash. Sessions are interchangeable (symmetry).
  `AutoConfirm` is `FALSE`, the longer path; the theorems have it either way.
- `Transfer`: an empty object, one of two chunks, one of two chunks that is native; one lost link or ack
  timeout, one wrong chunk, one restart. A second of each would repeat what the first one does to the files.
- `RelayQueue`: room for two deliveries and half of a third, so that a deposit and an ack compete for it; two
  acks per offer, because a first one may be lost; polls of two items, so that one can fail after the first has been
  handled, and one can leave items out; ids that put an ack before and one behind the deliveries; one crash, lost
  reply or failed sync.
- `Checkpoint`: a root and one descendant, two processes per PID, a write, a kill and a SIGCONT from outside, two
  commands at a time. `CheckpointProofs` has any number of each.
- `Workspace`: two trees (the one that is there and an edit), two snapshots, one trouble. `WorkspaceProofs` has any
  number of each.
- `Firecracker`: three processes for two slots, one write, one fault, a command on each slot.
  `FirecrackerProofs` has any number of each.

### Fairness

`FairSpec` of `Delivery` asks that the worker takes a step when it can, that each handler does, and that a
backoff runs out. The code justifies each: `spawn_outbox_worker` ticks every 100 ms for ever, every network
await of a session has a timeout, the tasks that accept connections serve them to the end, and time passes.
Nothing is assumed of the user, of polls and of relays; `Delivery` claims no progress over relays, because
envelopes expire and an error in a poll loses acks.

`Transfer` asks the same of a receiver's session, of the sender's dialling and of its five seconds without an
ack. `Delivered` claims delivery only as long as sessions do not overlap: two that do can undo each other's
work, and the retry after them is bounded by attempts, not by this module.

`RelayQueue` is weakly fair to the relay, which serves and is restarted, and strongly fair to deposits and to
each daemon's poll loop: they come back every tick, but may find the relay down or busy each time they are
looked at. `Acknowledged` is claimed for the recipient's window of days, while no sync failed, and unless the sender's
poll has `lost` an ack of the offer.

`CapsuleSync`, `Trust`, `Checkpoint`, `Workspace` and `Firecracker` have no liveness property: nothing in the
code makes a device offer its snapshots again, and the others are commands somebody has to call.

## Findings

`PROJECT.json` quotes the sentence and the line of each.

- A workspace that records no snapshot, or one the store lacks, is replaced without a guard (run `edits`).
- *Outbox.* A failed dial requeues a cancelled row; a session that ends in an error writes its stale copy over a
  row that a poll has acked meanwhile (`sync_entry_from` spares only the cancelled and expired); a replayed ack makes its
  own session fail; an aged row is retried and never `expired`. `SettledStays` names the first two as its only ways
  from a terminal row back to `queued` or `failed`, `PhaseMatchesRow` the third as its only exception;
  `EventuallySettled` holds because aged rows end as `failed`.
- *Capsules.* An inbound session that another operation overtakes writes by a stale store: it rewinds a head, loses a
  label it has acked as `capsule-head`, puts a second lease of an epoch or a second first snapshot on disk, so that an
  acked snapshot is not loaded again, and leaves a label held that is ready. `HeadNeverRewinds`, `AckedIsLoaded` and
  `CaughtUp` fail without their exception for `overtaken`. A device with only
  an orphan writes a second first snapshot; takeovers of one epoch never converge.
- *Trust.* A stale save writes the old local role and mesh profile back. It also writes a guest's old
  certificate over a newer one; `remove_revoked_guests` then drops it, the guest stays trusted without a
  certificate, and the next revocation of it is passed over (`DelegationIsJudged`
  fails with two sessions).
- *Transfer.* The retries of a guest never fit the partial file it left; `skip_native` never stages an
  object that is portable as well; objects that were complete are asked for again; `commit_file` renames a file
  that another session of the offer may have put there since it hashed the object.
- *Relay.* A full relay takes no ack, so only expiry empties it (with room for two deliveries and no more,
  `Acknowledged` fails); an envelope outlives the days its recipient polls for; a poll that fails after it has deleted
  an ack's item loses the ack, since its outbox is carried over only when it returns.
- *Checkpoints.* The message after a failed capture looks at the root only; a SIGCONT, a `resume-source`, or a second
  capture that fails, continues processes whose workspace is being copied, and the bundle is published all the same
  (`CopiedWhileStopped` excepts the captures this has `crossed`).
- *Workspaces.* An edit made while the incoming tree is staged, after the comparison, is moved out and deleted; an
  edit made during an import that fails is replaced by the undo, which compares nothing; a failure between
  replacement and import is not undone; the next replacement deletes backups that were kept.
- *Firecracker.* `down` of one slot takes the NAT rule from another that starts (`Reachable` excepts the slots
  such a `down` has `cut` off).

## Proofs

`DeliveryProofs` proves about `Spec`, from the named assumptions on the constants only (`MaxAttempts` at least
one, recipients are peers, `None` is no id and no relay):

- `TypeCorrect`: `Spec => []TypeOK`. `TypeOK` is not inductive: actions of a session use `copy[cur]`, so the
  worker must have a current delivery whenever it is not idle or between two. `Typed` adds that (`Serving`).
- `AckedCommitted`: `Spec => []AckedMeansCommitted`. An ack passes through six places before a row becomes
  acked. `Evidence` says of all of them, the handlers, the stored acks, the wire, the relays' receipts, both
  detached copies and the file, that they are never ahead of the recipient's store. It is inductive because
  `committed` only grows and each place is filled from one before it.
- `RowsRest`, `AwaitingDeposited`, `SessionFollowsTable`: `DurableStatesRest`, `AwaitingMeansDeposited` and
  `PhaseMatchesRow` are invariants. They hold each other up and are proved together as `Course`: what a
  session writes back depends on the phase it ended in, and what the copy holds in a phase on what was
  collected.
- `SettledRows`: `Spec => SettledStays`, by cases over the actions that write `outbox`: only a dial that fails and the
  error of a session write over a terminal row, and the second never over a cancelled one.
- `CancelledStays` and `RevokedStays`: `Spec => WithdrawnIsNotSent` and `Spec => RevokedPeerIsNotSent`. `Quiet` and
  `Withheld` name every place a delivery can be on its way from, and are kept by each step while the row is
  cancelled or its peer not trusted: the worker collects pending rows only, and both the handshake and the
  deposit of a tick that trusted the peer look at the trust store again.
- `KeepsThePromise`: `Spec => KeepsPromise`, that is, `Delivery` implements `Handoff` under the mapping `duty`, with
  relays and without. Each step is shown to move one duty by a step of `Handoff` (`OneMove`), the collection
  to drop and the end of a poll to clear a set of them. It rests on `Evidence` (a duty is cleared only when
  the recipient has the delivery), on `Course`, and on two more invariants: what anybody holds of a delivery
  was enqueued (`Enqueued`), and without relays only the user settles a row that the worker serves, so only a
  cancelled duty can be taken up again (`InHand`).

`CapsuleSyncProofs`, for any devices, workers, leases, snapshots, offers, expiries and crashes, with any number of
sessions open beside every operation. The theorems hold up to the first receipt by an overtaken copy on any device
(`overtaken = {}`); TLC checks the stronger form, in which a device that was not overtaken keeps its promises
whatever the others have done, and reload finds the head on every device. The invariant is `Unspoilt`: while nobody
has been overtaken, `Settled`, `Rooted` and `Pursued` hold. A session's store may be older than the files; a receipt
that keeps `overtaken` empty has, by `Alike`, the outcome of one by a store just loaded, and that one is proved
about.

- `HeadIsReloaded`: `Spec => [](overtaken = {} => ReloadKeepsHead)`; `AcksAreKept`, the same of `AckedIsLoaded`;
  `HeadsOnlyMoveOn`: `Spec /\ [](overtaken = {}) => HeadNeverRewinds`. What is on disk is a set of files that
  `Reload` replays in the order of epochs, which need not be the order they came in. `Sound` is what makes the order
  not matter: each lease extends another of the device, and no two are of one epoch; each main op is under a lease
  of the device, on a snapshot whose ancestors are there; any two main ops lie on one line; there is at most one
  first snapshot.
- `ReloadIs` proves that replaying sound files accepts them all: memory is `Shown`, a function of the files. From
  there `PutLeaseIs`, `PutSnapIs`, `PutMainIs`, `PutForkIs`, `WithLeasesIs` and `RetryIs` show of each store
  operation that a copy that shows its files (`Right`) shows them again afterwards, that they have only become more,
  and that the head has stayed or gone to a descendant (`Onward`), also when the operation refuses, or is cut short.
- The invariant `Settled` adds to sound files that `told` is the head on disk, that the leases of an offer extend
  each other or the grant, and that what an ack speaks for is on the disk of the device that gave it (`Keeps`).
- `Reload` folds over sets, and rules speak of ancestors. The proofs about folds go by `SetInduction`:
  a set of subsets has a minimal element in the strict order of subsets; `FoldExists` shows with it
  that a fold is a function. `Line` and `Chain` are least closed sets, so that being an ancestor needs no recursion.
- `DevicesCatchUp`: `Spec => [](overtaken = {} => CaughtUp)`. The inductive invariant is `Settled`, `Rooted` and
  `Pursued` together. `Ready` says what makes the rules accept a label: its lease is the device's highest and has
  not ended, its line is on the device, it is newer than the head and below it. `Pursued` says that, as long as no
  receipt was cut short, no held label is ready, and that the label of every acked offer is held or not newer than
  the head. A receipt keeps it because it ends with `retry_pending_main_labels`: `RetryTries` shows that the fold
  has tried each held label on a copy with at least the files there were, and `ReadyBefore` that a label passed over
  is not made ready by one adopted after it in the same pass. No other operation makes a held label ready: what a
  device authors is new, and a lease it takes over makes ready its own labels only, which it has (`WaitsOn`). This
  needs `Rooted`: snapshots form one genealogy in which ids are not given twice, and every label and offer is of
  files of the device that wrote it, so a new snapshot cannot be on the line of an older label.

`TrustProofs`, for any peers, tokens, tickets, sessions, messages and bounds:

- `RecordsKept`: `Spec => RecordsStay`. A save merges, so versions and sets can only grow, provided that the
  file and every copy of it number their pairings: the invariant `Copies`, shown action by action.
- `ControlOnce`: `Spec => []ActedOnce`. The strengthening `Hearing`: a session about to act on a message has
  its nonce in the file, or holds the nonce lock with one save to go, and no two sessions are about to act
  on one message. The file keeps a nonce by `RecordsKept`'s lemma on saves (`SaveGrows`).
- `OneAdmission` and `RemovalStays`: `Spec => []AdmitsOne`, `Spec => []RemovedStaysRemoved`. Neither is inductive:
  a copy read long ago is saved much later, and a save merges. The invariant `Admission` says that there are
  two functions, from tickets and from tokens to the one peer each may ever admit, that account for the file,
  every session's copy and every copy still to be saved. The holder of the lock of pairings (of bindings) may
  be ahead of the file (`Leads`, `Binds`); everybody else's copy is behind it (`Follows`, `Behind`), so the merge
  keeps the file's answer. It also says that a session in an operation has a peer (`Connected`) and that no
  lock is held twice (`Exclusive`).
- `RevocationHolds`: `Spec => []RevokedIsGone`, because every save ends with `remove_revoked_guests`.

`TransferProofs`, for any plan, sizes, sessions and bounds:

- `TrueBytesEnter`: `Spec => OnlyTrueBytesEnter`. Every step leaves an object of the store alone, puts its true
  bytes there or takes a wrong object out (`Kept`), but for the objects in `swapped`. For the others a staged file that a
  session has hashed and not yet renamed is the true one, if it is there still.
- `AckedStored`: `Spec => []AckedIsStored`, by `Course`. `Save` trusts a file of the same length that the store has
  already, so the proof needs `Clean`: once a session has answered a plan, which hashes all it has, the store holds
  no wrong object outside `swapped`, and by `Kept` never one again while that session is open. A session that saves
  requires the whole closure, and what it has moved stays.

`RelayQueueProofs`, for any devices, offers, envelopes and bounds:

- `AcceptedStays`: `Spec => []AcceptedSurvives`. A file leaves the directory when it has expired or when its
  device deletes it. `Working` says that a device past the first step of an item has dealt with it, `Writing`
  that the relay replies to a deposit whose file is there. Time only goes on, so what has expired stays
  expired until its number is sealed anew, and a new number is not accepted yet.
- `BooksAreRight` and `StartsAgain`: `Spec => []Accounted` and `Spec => []CanStart`, by `Books`: memory, count and
  directory differ by the one envelope the relay works on (`Booked`), and what is in the directory fits the
  cap. An envelope is written only when it fits beside what memory holds, which is then the directory's
  content, and it is counted when it is entered. `TotalAdds` and `TotalGrows` are the two facts about byte counts;
  they follow from the cardinalities of the two kinds of envelope, finitely many because the ids form a sequence.
- `RelayHandsOff`: `Spec => RelayKeepsPromise`, that is, `RelayQueue` implements `Handoff` under the mapping `duty`.
  The invariant `Traced` says that all the directory, the memory, a request and the polls hold is `Genuine`: sealed
  once, and if it is an ack, of an offer its recipient has committed, as every ack a poll has read; that a poll
  holds what is for its device only, and that the relay unlinks what the device it is for waits for. `Answer` keeps
  it by `Working`. `Carried` adds that a poll's copy, and then the file, calls only rows acked whose ack a poll has
  read. `BatchedIs` shows that a poll returns such envelopes; it rests on `Ranks`, that a finite set of numbers has
  an element of every rank.

`CheckpointProofs`, for any process tree, any commands at the same time, and any bounds:

- `OnlyOursContinued`: `Spec => []NeverAStranger`. An identity (PID and start time) is *genuine* while no
  stranger can have it: the PID's process is the application's, or a later one. `Held` says that every
  identity in a command or a bundle is genuine. It is kept because a PID is only given out again with a
  later start time, and established because capture lists descendants of a root it has identified.
- `BundleIsOfOneMoment`, `RestoredWhole`, `ResumedIsResumed`: the invariants `CopiedWhileStopped`,
  `RestoredHasItsFiles` and the action property `SaysResumed`, for the commands that were not `crossed`.
  `CaptureInv` adds to the invariant above `Copying`: from the moment `CollectTree` has found every process stopped
  until the bundle is published, none of the application runs, and the image was taken of the files as they are.
  Before that moment `Fresh` claims this of a tree that is still frozen only: a process that was continued is found
  running by `CollectTree` unless another command stops it again, and one that has exited is found too, because a
  parent that is stopped reaps none of its children. `Landed` says what a destination has checked before its
  restore, `Waking` that the processes recorded and still stopped are those left on the list of a resume.

`WorkspaceProofs`, for any number of trees, snapshots and troubles:

- `FilesSurvive`: `Spec => []NothingLost`, by `Guarded`: the trees neither `unrecorded` nor `late` are in the
  directory, in snapshots or in recovery directories, and a replacement that was guarded and is about to move has all of
  them elsewhere than in the directory but what the user has made since.
- `ImportedFirst` and `PassedOnOnce`: `ReadMeansImported` and `ForwardedOnce`, by `Importing` and `Marking`,
  which tie the step of the linked accept and of the grant to what is on disk by then.
- `RestoresExactly`: `Spec => RestoredExactly`, by `Undoing`. From the start of a linked accept to the end of its
  undo the files and the snapshot noted are those a restore works with, unless the user edits them on the way, and a
  directory the accept had made was empty and recorded nothing.

`FirecrackerProofs`, for any slots, processes, writes and faults, commands of different slots at the same time:

- `GuestsAgree`, `SnapshotsWhole`, `GuestsRunAgain`: `Spec => []Coherent`, `Spec => []CapturedAtOnce`, `Spec =>
  []RunsAgain`. The invariant `Inv` is one of each slot (`SlotInv`): what its record, its socket and its command
  name are processes of this slot (`Names`), a slot without strays has no other (`Known`), a guest is paused at the
  steps that copy it (`Frozen`), the images a command holds and the memory of a guest fit its disk (`ImagesFit`,
  `Agrees`). A step of one slot leaves the rest alone (`Apart`), and `FineIsEnough` makes of that and of the slot's
  own `SlotInv` the whole invariant; so each action is proved for its own slot only.
- `GuestsReachable`: `Spec => []Reachable`, with any commands on other slots. `NetInv` adds that a command past its
  network step, and a recorded guest at rest, has the TAP, and the rule or is one of those `cut` off: a `down`
  deletes the rule only when it has read every slot as running nothing.

`tlapm` checks each module in one to a few minutes.

Only model-checked: `EventuallySettled`, `EventuallyAckedOrReplayed`, `Delivered` and `Acknowledged`, the liveness
properties; fairness and `ENABLED` are beyond the prover. Every other property of a passing run has its theorem. The
four about capsules are proved for as long as no device is overtaken, and model-checked beyond. `KeepsLocalEdits`
does not hold of the code (run `edits`), nor does `DelegationIsJudged` (Findings), so no theorem states them.

## Not modelled

Cryptography, encodings and hashing; transports; the command line and the viewer; the adapter host, whose
invocations are sequential; the other adapters; observation and the sandbox, which only read or decide.

Within the modelled components: the half of `apply_receive_grants` for partial deliveries (import, mark,
forward in the same order as the linked accept), user labels, leases of mode `transfer`, limits on fork
labels and on offered leases, storage and message limits other than the relay's cap, guests' scopes,
addresses, and `retry_fresh`, which no program code calls. In `CapsuleSync` a receipt is one step between
crashes, so two receipts of one device do not mix file by file. In `Workspace` there is one
linked accept and one pass of a grant at a time, removing `snapshot_id` in the undo succeeds (the code ignores its
failure), nobody creates files where there is no directory, and a directory that belongs to a capsule the store
lacks is left out: every caller of `replacement_guards` has just loaded that capsule. In `Firecracker` PIDs are
not reused and a slot has one command at a time.

## Plan

1. *Done.* `OutboxEntry`, `Delivery`, `Handoff`, `Capsule`, `CapsuleSync`, `Trust`, `Transfer`, `RelayQueue`,
   `Checkpoint`, `Workspace`, `Firecracker`; proofs about all of them.
2. `RelayQueue` in the place of `mail` and `receipts` of `Delivery`.
3. `CapsuleSync` with a limit on fork labels and with partial adoption, if runs stay within minutes.
