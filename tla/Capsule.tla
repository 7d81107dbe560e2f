------------------------------ MODULE Capsule ------------------------------
(***************************************************************************)
(* One capsule as a device holds it, and the rules by which its records    *)
(* are accepted (crates/abra-core/src/capsule.rs and store.rs).            *)
(*                                                                         *)
(* A capsule is three kinds of signed records: snapshots, which form a     *)
(* DAG; leases, each linked to its predecessor, which elect the device     *)
(* that may write; and label-ops, of which only those that set `main`, the *)
(* head, are kept here.  A device has the records on its disk and works on *)
(* a copy it loaded from there.                                            *)
(*                                                                         *)
(* A signature is abstracted to what the rules read of it, its place in    *)
(* the order of bytes that breaks ties: leases carry a number, and a main  *)
(* op the number of its snapshot.  Writers take any unused number, so any  *)
(* order can come about.  Every writer names at most one parent.           *)
(***************************************************************************)
EXTENDS Naturals, FiniteSets, Folds

CONSTANTS
  Devices,    \* full peers that trust one another
  Creator,    \* the device that created the capsule
  LeaseSigs,  \* signatures of leases after the grant
  SnapIds     \* snapshot ids

NoSnap  == 0
Genesis == 0
Grant   == [sig |-> 1, epoch |-> 1, holder |-> Creator, prev |-> Genesis]
NoOp    == [seq |-> 0, snap |-> NoSnap, epoch |-> 0, by |-> Creator]

ASSUME CapsuleAssumption ==
  /\ Creator \in Devices
  /\ LeaseSigs \subseteq Nat \ {Genesis, Grant.sig}
  /\ SnapIds \subseteq Nat \ {NoSnap}
  /\ IsFiniteSet(Devices) /\ IsFiniteSet(LeaseSigs) /\ IsFiniteSet(SnapIds)

Epochs == 1 .. Cardinality(LeaseSigs) + 1

Snapshot == [id : SnapIds, parent : SnapIds \cup {NoSnap}, writer : Devices]
Lease    == [sig : LeaseSigs, epoch : Epochs \ {1}, holder : Devices,
             prev : LeaseSigs \cup {Grant.sig}] \cup {Grant}
MainOp   == [seq : 1 .. Cardinality(SnapIds), snap : SnapIds,
             epoch : Epochs, by : Devices]

\* The records on a disk; no lease at all stands for an unknown capsule.
Disk == [snaps : SUBSET Snapshot, leases : SUBSET Lease,
         ops : SUBSET MainOp, forks : SUBSET SnapIds]

NoCapsule == [snaps |-> {}, leases |-> {}, ops |-> {}, forks |-> {}]
Known(disk) == disk.leases # {}

\* A capsule in memory; `leases` leaves out those kept as evidence only.
Handle == [snaps : SUBSET Snapshot, leases : SUBSET Lease,
           winner : Lease, main : MainOp \cup {NoOp}]

NewHandle == [snaps |-> {}, leases |-> {Grant}, winner |-> Grant, main |-> NoOp]

----------------------------------------------------------------------------
(* Snapshots.                                                              *)

\* id and every ancestor of it that snaps knows the way to: what is in every
\* set that holds id, and the parent of each snapshot it holds.
Line(snaps, id) ==
  LET Leads(S) == /\ id \in S \cup {NoSnap}
                  /\ \A s \in snaps : s.id \in S => s.parent \in S \cup {NoSnap}
  IN {x \in SnapIds : \A S \in SUBSET SnapIds : Leads(S) => x \in S}

Descends(snaps, id, ancestor) == ancestor \in Line(snaps, id)

Ids(snaps) == {s.id : s \in snaps}

\* A snapshot whose parent is not here; the orphan flag looks no further up.
Orphan(snaps, s) == s.parent \notin Ids(snaps) \cup {NoSnap}

\* Only one snapshot may be without a parent.
Insertable(h, s) ==
  s.parent = NoSnap => \A x \in h.snaps : x.parent = NoSnap => x = s

----------------------------------------------------------------------------
(* Leases.                                                                 *)

Extends(w, l) == l.prev = w.sig /\ l.epoch = w.epoch + 1
Races(w, l)   == l.prev = w.prev /\ l.epoch = w.epoch

\* l takes over from the winner w.
Beats(w, l) == Extends(w, l) \/ (Races(w, l) /\ l.sig > w.sig)

AcceptLease(h, l) ==
  [h EXCEPT !.leases = IF Extends(h.winner, l) \/ Races(h.winner, l)
                       THEN @ \cup {l} ELSE @,
            !.winner = IF Beats(@, l) THEN l ELSE @]

\* The winner's ancestry after the grant, as an offer carries it.
Chain(h) ==
  LET Leads(S) == /\ h.winner \in S
                  /\ \A l \in h.leases : (\E k \in S : k.prev = l.sig) => l \in S
  IN {l \in h.leases \ {Grant} : \A S \in SUBSET h.leases : Leads(S) => l \in S}

ActiveLease(h, expired) == h.winner.sig \notin expired

Forked(h, s, expired) == ~ActiveLease(h, expired) \/ h.winner.holder # s.writer

----------------------------------------------------------------------------
(* The main label.                                                         *)

Newer(op, old) ==
  op.seq > old.seq \/ (op.seq = old.seq /\ op.snap > old.snap)

\* apply_label answers with anything but an error.
MainAllowed(h, op, expired) ==
  /\ ActiveLease(h, expired)
  /\ op.by = h.winner.holder /\ op.epoch = h.winner.epoch
  /\ \E s \in h.snaps : s.id = op.snap /\ ~Orphan(h.snaps, s)
  /\ (h.main # NoOp /\ Newer(op, h.main)) => Descends(h.snaps, op.snap, h.main.snap)

MainWins(h, op) == Newer(op, h.main)

ApplyMain(h, op) == [h EXCEPT !.main = IF MainWins(h, op) THEN op ELSE @]

NextOp(h, id, by) ==
  [seq |-> h.main.seq + 1, snap |-> id, epoch |-> h.winner.epoch, by |-> by]

----------------------------------------------------------------------------
(* Loading a capsule from the disk.  Directory order is the order of ids,  *)
(* which writers draw at random.                                           *)

LoadSnaps(snaps) ==
  {s \in snaps : s.parent = NoSnap
                   => \A x \in snaps : x.parent = NoSnap => s.id <= x.id}

\* Leases are accepted in the order of their epochs, then of their signatures.
LoadLeases(leases) ==
  MapThenFoldSet(LAMBDA l, h : AcceptLease(h, l), NewHandle, LAMBDA l : l,
    LAMBDA S : CHOOSE l \in S : \A k \in S :
                 k.epoch < l.epoch \/ (k.epoch = l.epoch /\ k.sig <= l.sig),
    leases \ {Grant})

\* Main ops are applied in the order of their leases' epochs, then of their
\* numbers, each after the leases up to its epoch and whether or not its lease
\* is still active.
Reload(disk) ==
  LET snaps == LoadSnaps(disk.snaps)
      Then(op, main) ==
        LET h == [LoadLeases({l \in disk.leases : l.epoch <= op.epoch})
                    EXCEPT !.snaps = snaps, !.main = main]
        IN IF MainAllowed(h, op, {}) THEN ApplyMain(h, op).main ELSE main
      Last(S) == CHOOSE op \in S : \A x \in S :
                   \/ x.epoch < op.epoch
                   \/ x.epoch = op.epoch /\ (x = op \/ Newer(op, x))
  IN [LoadLeases(disk.leases)
        EXCEPT !.snaps = snaps,
               !.main = MapThenFoldSet(Then, NoOp, LAMBDA op : op, Last, disk.ops)]

=============================================================================
