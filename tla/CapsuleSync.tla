---------------------------- MODULE CapsuleSync ----------------------------
(***************************************************************************)
(* Devices that write to one capsule and offer each other its snapshots.   *)
(*                                                                         *)
(* Every operation loads the capsule from the disk, works on that copy and *)
(* writes the records it adds, one file after another; a crash keeps those *)
(* already written.  An offer carries one snapshot with the sender's       *)
(* lease chain and main label; relays keep it, so it may arrive late, more *)
(* than once and after later ones.  The receiver keeps the snapshot in any *)
(* case, and adopts the leases and the label together or not at all.  A    *)
(* main label it could not adopt is held and retried after every receipt.  *)
(*                                                                         *)
(* The daemon serializes its own operations with the node lock, but an     *)
(* inbound session (or a relay poll) has a store of its own, loaded when   *)
(* it begins and used when the last object has arrived: the device's other *)
(* operations and sessions run in between and write files it does not show.*)
(* `overtaken` records where such a copy has made a difference: the        *)
(* session wrote, or acked, what one that had loaded its store just then   *)
(* would not have.  What the capsule must keep, it keeps on every other    *)
(* device.                                                                 *)
(***************************************************************************)
EXTENDS Capsule, Sequences, SequencesExt

CONSTANTS
  Workers,    \* the daemon's accept workers and its relay poll, one session each
  MaxOffers,  \* bound: offers sent
  MaxCrashes, \* bound: crashes
  Expirable   \* the leases whose term may end

ASSUME SyncAssumption ==
  /\ MaxOffers \in Nat /\ MaxCrashes \in Nat
  /\ Expirable \subseteq LeaseSigs \cup {Grant.sig}

VARIABLES
  disk,     \* disk[d]: the capsule's files on d
  held,     \* held[d], durable: the main labels not adopted yet, in order
  session,  \* session[d][w]: the copy the session of d's worker w loaded, or Closed
  offers,   \* the offers sent
  acks,     \* the acks given, with the shelf they name
  told,     \* told[d]: the main label d's last operation left it with
  expired,  \* the leases whose term has ended
  crashes,  \* crashes so far
  overtaken \* history: the devices on which a session went by an older copy

vars == <<disk, held, session, offers, acks, told, expired, crashes, overtaken>>

Closed == [snaps |-> {}, leases |-> {}, winner |-> Grant, main |-> NoOp]

Offer == [from : Devices, snap : Snapshot, chain : SUBSET Lease,
          main : MainOp \cup {NoOp}]

Shelf == {"capsule-head", "capsule-fork"}

TypeOK ==
  /\ disk \in [Devices -> Disk]
  /\ held \in [Devices -> Seq(MainOp)]
  /\ session \in [Devices -> [Workers -> Handle]]
  /\ offers \subseteq Offer
  /\ acks \subseteq [by : Devices, offer : offers, shelf : Shelf]
  /\ told \in [Devices -> MainOp \cup {NoOp}]
  /\ expired \subseteq Expirable
  /\ crashes \in 0 .. MaxCrashes
  /\ overtaken \subseteq Devices

\* capsule_create on the creator; nobody else knows the capsule.
Init ==
  /\ disk = [d \in Devices |->
               IF d = Creator THEN [NoCapsule EXCEPT !.leases = {Grant}] ELSE NoCapsule]
  /\ held = [d \in Devices |-> <<>>]
  /\ session = [d \in Devices |-> [w \in Workers |-> Closed]]
  /\ offers = {} /\ acks = {}
  /\ told = [d \in Devices |-> NoOp]
  /\ expired = {}
  /\ crashes = 0
  /\ overtaken = {}

\* A number no signature and no snapshot has used.
FreshSig == LeaseSigs \ UNION {{l.sig : l \in disk[d].leases} : d \in Devices}
FreshId  == SnapIds \ UNION {Ids(disk[d].snaps) : d \in Devices}

----------------------------------------------------------------------------
(* The store: a copy and the files behind it.  Each operator makes one     *)
(* change to both.                                                         *)

Opened(d) == [mem |-> Reload(disk[d]), disk |-> disk[d]]

\* Writes no lease.
PutLeaseInMemory(st, l) == [st EXCEPT !.mem = AcceptLease(@, l)]

\* Leases that do not win are not written.
PutLease(st, l) ==
  [mem |-> AcceptLease(st.mem, l),
   disk |-> [st.disk EXCEPT !.leases = IF Beats(st.mem.winner, l)
                                       THEN @ \cup {l} ELSE @]]

\* Writes a snapshot only once its parent is here.
PutSnapUnlessOrphan(st, s) ==
  [mem |-> [st.mem EXCEPT !.snaps = @ \cup {s}],
   disk |-> [st.disk EXCEPT !.snaps = IF Orphan(st.mem.snaps, s) THEN @ ELSE @ \cup {s}]]

PutSnap(st, s) ==
  [mem |-> [st.mem EXCEPT !.snaps = @ \cup {s}],
   disk |-> [st.disk EXCEPT !.snaps = @ \cup {s}]]

PutMain(st, op) ==
  [mem |-> ApplyMain(st.mem, op),
   disk |-> [st.disk EXCEPT !.ops = IF MainWins(st.mem, op) THEN @ \cup {op} ELSE @]]

PutFork(st, id) == [st EXCEPT !.disk.forks = @ \cup {id}]

\* An operation of d has ended and leaves the store at st.
Ends(d, st) ==
  /\ disk' = [disk EXCEPT ![d] = st.disk]
  /\ told' = [told EXCEPT ![d] = st.mem.main]

\* d crashed when the files k had been written, and is restarted.
Restarts(d, k) ==
  /\ crashes < MaxCrashes
  /\ crashes' = crashes + 1
  /\ disk' = [disk EXCEPT ![d] = k]
  /\ told' = [told EXCEPT ![d] = Reload(k).main]
  /\ session' = [session EXCEPT ![d] = [w \in Workers |-> Closed]]

----------------------------------------------------------------------------
(* The writers.                                                            *)

Succession(h, d, sig) ==
  [sig |-> sig, epoch |-> h.winner.epoch + 1, holder |-> d, prev |-> h.winner.sig]

\* lease_take; renew_leases does the same for a holder whose lease runs out.
TakeLease(d) ==
  /\ Known(disk[d])
  /\ \E sig \in FreshSig :
       LET st == Opened(d) IN Ends(d, PutLease(st, Succession(st.mem, d, sig)))
  /\ UNCHANGED <<held, session, offers, acks, expired, crashes, overtaken>>

\* The snapshot s has been stored: label it a fork, or move main to it.
Labelled(st, s) ==
  LET op == NextOp(st.mem, s.id, s.writer)
  IN IF Forked(st.mem, s, expired) THEN PutFork(st, s.id)
     ELSE IF MainAllowed(st.mem, op, expired) THEN PutMain(st, op) ELSE st

\* ensure_lease: the store d writes its snapshot to.
Leased(d, noLease) ==
  LET st    == Opened(d)
      holds == ActiveLease(st.mem, expired) /\ st.mem.winner.holder = d
  IN IF holds \/ noLease THEN {st}
     ELSE {PutLease(st, Succession(st.mem, d, sig)) : sig \in FreshSig}

\* snapshot_workspace: the new snapshot's parent is the head, if there is one.
Author(d) ==
  /\ Known(disk[d])
  /\ \E noLease \in BOOLEAN, id \in FreshId : \E st \in Leased(d, noLease) :
       LET s == [id |-> id, parent |-> st.mem.main.snap, writer |-> d]
       IN IF ~Insertable(st.mem, s)
          THEN Ends(d, st) /\ UNCHANGED <<session, crashes>>
          ELSE \/ Ends(d, Labelled(PutSnap(st, s), s)) /\ UNCHANGED <<session, crashes>>
               \/ Restarts(d, PutSnap(st, s).disk)
  /\ UNCHANGED <<held, offers, acks, expired, overtaken>>

\* native_attach: a snapshot under any parent the device has.
Attach(d) ==
  /\ Known(disk[d])
  /\ \E id \in FreshId, p \in Ids(Reload(disk[d]).snaps) :
       LET s == [id |-> id, parent |-> p, writer |-> d]
       IN Ends(d, Labelled(PutSnap(Opened(d), s), s))
  /\ UNCHANGED <<held, session, offers, acks, expired, crashes, overtaken>>

\* A session of the outbox worker, or a deposit at a relay, builds the offer of
\* a snapshot that was sent.
SendOffer(d) ==
  /\ Cardinality(offers) < MaxOffers
  /\ LET h == Reload(disk[d])
     IN \E s \in h.snaps :
          offers' = offers \cup {[from |-> d, snap |-> s, chain |-> Chain(h),
                                  main |-> h.main]}
  /\ UNCHANGED <<disk, held, session, acks, told, expired, crashes, overtaken>>

\* The term of a lease ends.
Expire(sig) ==
  /\ sig \in Expirable \ expired
  /\ expired' = expired \cup {sig}
  /\ UNCHANGED <<disk, held, session, offers, acks, told, crashes, overtaken>>

----------------------------------------------------------------------------
(* The receivers.                                                          *)

\* An inbound session begins and loads a store of its own.
OpenSession(d, w) ==
  /\ \E o \in offers : o.from # d
  /\ session[d][w] = Closed
  /\ session' = [session EXCEPT ![d][w] = Reload(disk[d])]
  /\ UNCHANGED <<disk, held, offers, acks, told, expired, crashes, overtaken>>

\* It ends without a delivery.
CloseSession(d, w) ==
  /\ session[d][w] # Closed
  /\ session' = [session EXCEPT ![d][w] = Closed]
  /\ UNCHANGED <<disk, held, offers, acks, told, expired, crashes, overtaken>>

\* The store of a session of d that loaded the copy h; it creates the capsule if
\* d does not know it.
Acquainted(d, h) ==
  [mem |-> h, disk |-> [disk[d] EXCEPT !.leases = @ \cup {Grant}]]

\* The session has ended.  What a copy that was overtaken shows is gone with it;
\* the daemon loads its store before it acts on the arrival.
Received(d, w, st) ==
  /\ disk' = [disk EXCEPT ![d] = st.disk]
  /\ told' = [told EXCEPT ![d] = IF session[d][w] = Reload(disk[d]) THEN st.mem.main
                                 ELSE Reload(st.disk).main]
  /\ session' = [session EXCEPT ![d][w] = Closed]

\* The leases of the offer that are new here; they must link up with the winner.
News(h, o) == o.chain \ h.leases

Contiguous(h, o) ==
  \A l \in News(h, o) : \E k \in News(h, o) \cup {h.winner} : Extends(k, l)

WithLeases(st, o) ==
  MapThenFoldSet(LAMBDA l, s : PutLease(s, l), st, LAMBDA l : l,
    LAMBDA S : CHOOSE l \in S : \A k \in S : k.epoch <= l.epoch,
    News(st.mem, o))

\* The whole bundle of leases and label is valid.
Adoptable(st, o) ==
  /\ Contiguous(st.mem, o)
  /\ o.main = NoOp \/ MainAllowed(WithLeases(st, o).mem, o.main, expired)

Adopted(st, o) ==
  IF ~Adoptable(st, o) THEN st
  ELSE IF o.main = NoOp THEN WithLeases(st, o)
  ELSE PutMain(WithLeases(st, o), o.main)

\* adopt_offer_capsule_state answers Ok(true).
Moved(st, o) ==
  Adoptable(st, o) /\ o.main # NoOp /\ Adopted(st, o).mem.main.snap = o.main.snap

\* Does not retry the labels held back.
NoRetry(st, queue) == [store |-> st, queue |-> queue]

\* Every held label is tried once; those that fail stay, in order.
Retry(st, queue) ==
  FoldLeft(LAMBDA r, op : IF MainAllowed(r.store.mem, op, expired)
                          THEN [r EXCEPT !.store = PutMain(@, op)]
                          ELSE [r EXCEPT !.queue = Append(@, op)],
           [store |-> st, queue |-> <<>>], queue)

\* finalize_received_offer on the copy h: the store it leaves, the labels held
\* back, and the shelf its ack names.
Receipt(d, h, o) ==
  LET snap  == PutSnap(Acquainted(d, h), o.snap)
      moved == Moved(snap, o)
      next  == IF moved THEN Adopted(snap, o)
               ELSE PutFork(Adopted(snap, o), o.snap.id)
      queue == IF moved \/ o.main = NoOp \/ Contains(held[d], o.main)
               THEN held[d] ELSE Append(held[d], o.main)
      last  == Retry(next, queue)
  IN [store |-> last.store, queue |-> last.queue,
      shelf |-> IF moved THEN "capsule-head" ELSE "capsule-fork"]

\* The files a crash in its course may leave.
Stages(d, h, o) ==
  LET snap == PutSnap(Acquainted(d, h), o.snap)
  IN {Acquainted(d, h).disk, snap.disk, Adopted(snap, o).disk}
       \cup (IF Adoptable(snap, o) THEN {WithLeases(snap, o).disk} ELSE {})

\* A session that had just loaded its store could have done the same.
Alike(d, o, r) ==
  LET fresh == Receipt(d, Reload(disk[d]), o)
  IN /\ Insertable(Reload(disk[d]), o.snap)
     /\ fresh.store.disk = r.store.disk
     /\ fresh.queue = r.queue /\ fresh.shelf = r.shelf

Receive(d, w, o) ==
  LET r == Receipt(d, session[d][w], o)
  IN /\ session[d][w] # Closed
     /\ Insertable(session[d][w], o.snap)
     /\ Received(d, w, r.store)
     /\ held' = [held EXCEPT ![d] = r.queue]
     /\ acks' = acks \cup {[by |-> d, offer |-> o, shelf |-> r.shelf]}
     /\ overtaken' = IF Alike(d, o, r) THEN overtaken ELSE overtaken \cup {d}
     /\ UNCHANGED <<offers, expired, crashes>>

\* A second snapshot without a parent is refused; there is no ack.
Refuse(d, w, o) ==
  /\ session[d][w] # Closed
  /\ ~Insertable(session[d][w], o.snap)
  /\ Received(d, w, Acquainted(d, session[d][w]))
  /\ UNCHANGED <<held, offers, acks, expired, crashes, overtaken>>

\* A crash in the course of Receive: the sender has no ack and offers again.
ReceiveCut(d, w, o) ==
  /\ session[d][w] # Closed
  /\ Insertable(session[d][w], o.snap)
  /\ \E k \in Stages(d, session[d][w], o) :
       /\ Restarts(d, k)
       /\ overtaken' = IF /\ Insertable(Reload(disk[d]), o.snap)
                          /\ k \in Stages(d, Reload(disk[d]), o)
                       THEN overtaken ELSE overtaken \cup {d}
  /\ UNCHANGED <<held, offers, acks, expired>>

----------------------------------------------------------------------------

\* The offers of other devices.
Incoming(d) == {o \in offers : o.from # d}

Next ==
  \/ \E d \in Devices : TakeLease(d) \/ Author(d) \/ Attach(d) \/ SendOffer(d)
  \/ \E d \in Devices, w \in Workers : OpenSession(d, w) \/ CloseSession(d, w)
  \/ \E d \in Devices, w \in Workers : \E o \in Incoming(d) : Receive(d, w, o)
  \/ \E d \in Devices, w \in Workers : \E o \in Incoming(d) : Refuse(d, w, o)
  \/ \E d \in Devices, w \in Workers : \E o \in Incoming(d) : ReceiveCut(d, w, o)
  \/ \E sig \in Expirable : Expire(sig)

Spec == Init /\ [][Next]_vars

----------------------------------------------------------------------------
(* What the capsule must keep, on every device where no session has gone   *)
(* by an older copy of its store (`overtaken`, see Alike): detached_node   *)
(* takes no lock, and a session that writes leases, labels or a first      *)
(* snapshot judged against such a copy can break all but the second.       *)

\* The main label a fresh load of d's store shows, and every snapshot written.
MainOf(d) == Reload(disk[d]).main
AllSnaps == UNION {disk[d].snaps : d \in Devices}

(* Whatever arrives, in whatever order, while the device's own operations  *)
(* and other sessions run, and wherever it crashes, the head it shows only *)
(* moves on to descendants of itself (the check of apply_label, and its    *)
(* replay by reload_capsule).                                              *)
HeadNeverRewinds ==
  [][\A d \in Devices \ overtaken' : told[d] # NoOp =>
       Descends(UNION {disk'[c].snaps : c \in Devices}, told'[d].snap, told[d].snap)]_vars

(* The files written are enough: reload_capsule, which replays the main    *)
(* ops among the leases they were signed under, comes to the head that the *)
(* operation that wrote them showed.  This goes for operations on a device *)
(* that was overtaken as well, though its files may hold two leases of one *)
(* epoch; what an overtaken copy itself shows is thrown away unread.       *)
ReloadKeepsHead == \A d \in Devices : told[d] = MainOf(d)

(* An ack of finalize_received_offer is a promise about the store: the     *)
(* snapshot is still there after any reload; a delivery acked as a head    *)
(* had its label adopted, and the head is on that label's line ever since; *)
(* any other has a fork label.                                             *)
AckedIsLoaded ==
  \A a \in acks : a.by \notin overtaken =>
    /\ a.offer.snap \in Reload(disk[a.by]).snaps
    /\ a.shelf = "capsule-head" =>
         Descends(AllSnaps, MainOf(a.by).snap, a.offer.main.snap)
    /\ a.shelf = "capsule-fork" => a.offer.snap.id \in disk[a.by].forks

(* Offers may arrive in any order: once b has acked an offer with a's head *)
(* in it and every snapshot of that head's line, and its winner is the     *)
(* lease the head was set under, b does not stay at a head that a's is a   *)
(* later descendant of: the label held back has been adopted by            *)
(* retry_pending_main_labels.  A receipt cut short by a crash is excluded, *)
(* it is made up for by the next one, and so is one by an older copy.      *)
CaughtUp ==
  \A a \in Devices, b \in Devices \ overtaken :
    LET x == Reload(disk[a])
        y == Reload(disk[b])
        received == {k.offer.snap.id : k \in {k \in acks : k.by = b}}
                      \cup Ids({s \in disk[b].snaps : s.writer = b})
    IN ~ /\ crashes = 0
         /\ x.winner = y.winner /\ x.winner.sig \notin expired
         /\ x.main # NoOp /\ x.main.epoch = x.winner.epoch
         /\ \E k \in acks : k.by = b /\ k.offer.main = x.main
         /\ Line(AllSnaps, x.main.snap) \subseteq received
         /\ Newer(x.main, y.main)
         /\ y.main = NoOp \/ Descends(AllSnaps, x.main.snap, y.main.snap)
=============================================================================
