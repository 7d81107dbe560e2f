----------------------------- MODULE Workspace -----------------------------
(* A capsule's workspace directory on one device: `snapshot`, `accept` with *)
(* --replace, the linked accept that restores a workspace and then runs an  *)
(* adapter's import, the receive grant that mirrors a head and passes it    *)
(* on (crates/cadabra/src/lib.rs), and snapshot_dir and materialize of      *)
(* crates/abra-core/src/cas.rs under them.                                  *)
(*                                                                          *)
(* The daemon's node mutex is held from the guards of a replacement until   *)
(* the files are in place, and but for a grant until the metadata is: `op`. *)
(* An import and a grant's metadata are written outside it, and the user    *)
(* edits the directory whenever he likes.  A file tree is one number, new   *)
(* for every edit; what is in the directory while entries are being moved   *)
(* is Mixed.  Labels and leases are CapsuleSync's; here a snapshot either   *)
(* moves `main` or is a fork.                                               *)
EXTENDS Integers, Sequences, FiniteSets

CONSTANTS MaxContents,   \* bound: the file trees ever made
          MaxSnapshots,  \* bound: the snapshots of the capsule
          MaxTroubles    \* bound: operations of the file system that fail,
                         \* and crashes of the daemon

ASSUME ConstantAssumption ==
    MaxContents \in Nat \ {0} /\ MaxSnapshots \in Nat \ {0}
    /\ MaxTroubles \in Nat

Nothing == 0
Mixed == -1
Elsewhere == -1      \* a snapshot that this store does not have
Contents == 1..MaxContents

VARIABLES dir,      \* the directory: its files, .abra/capsule_id, .abra/snapshot_id
          stage,    \* the old files in the .abra-into- directory beside it
          kept,     \* old files in .abra-recovery- directories
          snaps,    \* the capsule's snapshots in the store
          main,     \* the snapshot its label names
          op,       \* the replacement that holds the node mutex
          link,     \* the linked accept
          inbox,    \* the partial delivery it accepts
          grant,    \* heads whose auto-accept failed, and what was passed on
          made,     \* the file trees made so far
          work,     \* the user's own file trees that nobody gave up
          unrecorded, \* history: those replaced with no snapshot to compare them with
          late,     \* history: those replaced that he made after the guards had looked
          spent     \* how much of MaxTroubles is used up

user == <<made, work, unrecorded, late>>
history == <<snaps, main>>
vars == <<dir, stage, kept, history, op, link, inbox, grant, user, spent>>

SnapshotIds == 1..MaxSnapshots
Known == 1..Len(snaps)

\* `edit` is the tree the user has made while the replacement is at work.
NoOp == [who |-> "none", step |-> "none", snap |-> 0, files |-> Nothing, edit |-> Nothing]
NoLink == [pc |-> "idle", fresh |-> FALSE, files |-> Nothing, rec |-> 0]

(* A workspace made by `abra init` has no snapshot_id; one that came with   *)
(* `accept` has, of this store or, if the directory or the store is a copy, *)
(* of another; or there is no directory yet.                                *)
Init == /\ dir \in {[files |-> 1, cap |-> TRUE, rec |-> 0],
                    [files |-> 1, cap |-> TRUE, rec |-> 1],
                    [files |-> 1, cap |-> TRUE, rec |-> Elsewhere],
                    [files |-> Nothing, cap |-> FALSE, rec |-> 0]}
        /\ stage = Nothing /\ kept = {}
        /\ snaps = <<[files |-> 1, parent |-> 0]>>
        /\ main = 1
        /\ op = NoOp /\ link = NoLink
        /\ inbox = [read |-> FALSE, imported |-> FALSE]
        /\ grant = [errors |-> {}, pc |-> "idle", snap |-> 0, forwarded |-> {},
                    queued |-> [s \in SnapshotIds |-> 0]]
        /\ made = 1 /\ work = {} /\ unrecorded = {} /\ late = {}
        /\ spent = 0

-----------------------------------------------------------------------------
(* The user, and snapshots from elsewhere.                                  *)

(* Trees that the user has replaced by an edit of his own, given up or put  *)
(* into a snapshot.                                                         *)
Settled(trees) == /\ work' = work \ trees
                  /\ unrecorded' = unrecorded \ trees
                  /\ late' = late \ trees

(* The user changes a file, whatever else is under way.                     *)
Edit == /\ dir.cap \/ dir.files # Nothing
        /\ made < MaxContents
        /\ made' = made + 1
        /\ dir' = [dir EXCEPT !.files = made']
        /\ op' = IF op = NoOp THEN op ELSE [op EXCEPT !.edit = made']
        /\ work' = (work \ {dir.files}) \cup {made'}
        /\ unrecorded' = unrecorded \ {dir.files}
        /\ late' = late \ {dir.files}
        /\ UNCHANGED <<stage, kept, history, link, inbox, grant, spent>>

(* The tree of the directory's files as it is now, `.abra` left out.        *)
snapshot_dir == dir.files

(* snapshot: the files become objects of the store, and main moves unless   *)
(* the snapshot is a fork.  The directory's snapshot_id stays what it was.  *)
Snapshot ==
    /\ op = NoOp /\ dir.cap /\ snapshot_dir \in Contents
    /\ Len(snaps) < MaxSnapshots
    /\ snaps' = Append(snaps, [files |-> snapshot_dir, parent |-> main])
    /\ main' \in {main, Len(snaps')}
    /\ Settled({dir.files})
    /\ UNCHANGED <<dir, stage, kept, op, link, inbox, grant, made, spent>>

(* A snapshot of another device arrives, on top of any this device knows or *)
(* of one it does not have; main names no such orphan.  Its files are new,  *)
(* or those of a snapshot that is known.                                    *)
Receive ==
    /\ op = NoOp
    /\ Len(snaps) < MaxSnapshots
    /\ made' \in {made, made + 1} /\ made' <= MaxContents
    /\ \E p \in Known \cup {Elsewhere} :
       \E files \in IF made' = made THEN {snaps[s].files : s \in Known} ELSE {made'} :
          /\ snaps' = Append(snaps, [files |-> files, parent |-> p])
          /\ main' \in {main} \cup (IF p \in Known THEN {Len(snaps')} ELSE {})
    /\ UNCHANGED <<dir, stage, kept, op, link, inbox, grant, work, unrecorded, late, spent>>

-----------------------------------------------------------------------------
(* replacement_guards.                                                      *)

(* Parents come before their children. *)
Ancestors[s \in Elsewhere..MaxSnapshots] ==
    {s} \cup (IF s \in Known THEN Ancestors[snaps[s].parent] ELSE {})
descends_from(incoming, recorded) == recorded \in Ancestors[incoming]

Unguarded == TRUE
Clean == snapshot_dir = snaps[dir.rec].files

(* Without a recorded snapshot, or a store that knows the capsule, there is *)
(* no check; without the recorded snapshot in the store none of the files.  *)
replacement_guards(incoming, discard_local, allow_divergence) ==
    dir.rec # 0 /\ Known # {} =>
        /\ discard_local \/ (dir.rec \in Known => Clean)
        /\ allow_divergence \/ descends_from(incoming, dir.rec)

(* What a replacement may throw away: files the caller gave up, and files   *)
(* that no recorded snapshot was there to compare with.  A directory left   *)
(* half moved has the rest of what a recovery directory keeps.              *)
Held == IF dir.files = Mixed THEN kept ELSE {dir.files}
GivesUp(discard_local) ==
    IF discard_local THEN Settled(Held)
    ELSE /\ unrecorded' = IF dir.rec \in Known THEN unrecorded
                          ELSE unrecorded \cup (Held \cap work)
         /\ UNCHANGED <<work, late>>

-----------------------------------------------------------------------------
(* replace_workspace, one step for each point where it can be cut off.      *)

Begins(who, step, snap, files) ==
    op' = [who |-> who, step |-> step, snap |-> snap, files |-> files, edit |-> Nothing]
Continues(step) == op' = [op EXCEPT !.step = step]

Faulty == spent < MaxTroubles /\ spent' = spent + 1

(* How each caller takes a failure: accept reports it, and a linked accept, *)
(* which then forgets what it would have restored; a grant records it       *)
(* against the head.                                                        *)
GrantEnds(errors) == grant' = [grant EXCEPT !.pc = "idle", !.snap = 0, !.errors = @ \cup errors]
Fails == /\ op' = NoOp
         /\ link' = IF op.who \in {"linked", "undo"} THEN NoLink ELSE link
         /\ IF op.who = "grant" THEN GrantEnds({op.snap}) ELSE UNCHANGED grant

(* Directories left by an interrupted replacement are removed, the new tree *)
(* is staged, and the old entries are moved out, as they are by now; an     *)
(* undo never looked at them.                                               *)
MoveOut ==
    /\ op.step = "move"
    /\ stage' = dir.files
    /\ dir' = [dir EXCEPT !.files = Mixed]
    /\ late' = late \cup ((IF op.who = "undo" THEN Held ELSE {op.edit}) \cap work)
    /\ Continues("in")
    /\ UNCHANGED <<kept, history, link, inbox, grant, made, work, unrecorded, spent>>

(* Moving out fails: what was moved is moved back, or, if that fails too,   *)
(* kept in a recovery directory.                                            *)
MoveOutFails ==
    /\ op.step = "move"
    /\ Faulty
    /\ stage' = Nothing
    /\ \/ UNCHANGED <<dir, kept>>
       \/ /\ kept' = kept \cup Held
          /\ dir' = [dir EXCEPT !.files = Mixed]
    /\ unrecorded' = unrecorded \ Held
    /\ Fails
    /\ UNCHANGED <<history, inbox, made, work, late>>

(* The new entries take the place of what the user has put there meanwhile, *)
(* or some of it stays among them.                                          *)
Overwritten == {dir.files} \cap work
MoveIn ==
    /\ op.step = "in"
    /\ \/ dir' = [dir EXCEPT !.files = op.files]
       \/ Overwritten # {} /\ dir' = [dir EXCEPT !.files = Mixed]
    /\ late' = late \cup Overwritten
    /\ Continues("drop")
    /\ UNCHANGED <<stage, kept, history, link, inbox, grant, made, work, unrecorded, spent>>

MoveInFails ==
    /\ op.step = "in"
    /\ Faulty
    /\ stage' = Nothing
    /\ \/ /\ dir' = [dir EXCEPT !.files = stage]
          /\ UNCHANGED kept
       \/ /\ kept' = kept \cup {stage}
          /\ dir' = [dir EXCEPT !.files = Mixed]
    /\ unrecorded' = unrecorded \ {stage}
    /\ late' = (late \ {stage}) \cup Overwritten
    /\ Fails
    /\ UNCHANGED <<history, inbox, made, work>>

(* The staging directory goes, with the old files in it.  A grant releases  *)
(* the mutex here.                                                          *)
InPlace == IF op.who = "grant"
           THEN op' = NoOp /\ grant' = [grant EXCEPT !.pc = "record"]
           ELSE Continues("metadata") /\ UNCHANGED grant
Drop ==
    /\ op.step = "drop"
    /\ stage' = Nothing
    /\ InPlace
    /\ UNCHANGED <<dir, kept, history, link, inbox, user, spent>>

(* materialize, into a directory that is absent or empty.  A failure leaves *)
(* what was written.                                                        *)
Materialize ==
    /\ op.step = "fresh"
    /\ dir.files = Nothing
    /\ dir' = [dir EXCEPT !.files = op.files]
    /\ InPlace
    /\ UNCHANGED <<stage, kept, history, link, inbox, user, spent>>

MaterializeFails ==
    /\ op.step = "fresh"
    /\ \/ dir.files # Nothing /\ UNCHANGED <<dir, spent>>
       \/ dir.files = Nothing /\ Faulty /\ dir' = [dir EXCEPT !.files = Mixed]
    /\ Fails
    /\ UNCHANGED <<stage, kept, history, inbox, user>>

(* write_workspace_metadata and the end of the command.                     *)
Finishes ==
    /\ op' = NoOp
    /\ link' = CASE op.who = "linked" -> [link EXCEPT !.pc = "import"]
                 [] op.who = "undo" -> [NoLink EXCEPT !.pc = "restored"]
                 [] OTHER -> link

FilesOnly(snap) == [dir EXCEPT !.cap = TRUE]
CapsuleOnly == [dir EXCEPT !.cap = TRUE, !.rec = 0]
Recorded(snap) == [dir EXCEPT !.cap = TRUE, !.rec = snap]

WriteMetadata ==
    /\ op.step = "metadata"
    /\ dir' = Recorded(op.snap)
    /\ Finishes
    /\ UNCHANGED <<stage, kept, history, inbox, grant, user, spent>>

(* A write before capsule_id fails; or the one of snapshot_id does, and the *)
(* old one is taken away.  In a linked accept the lease may fail after it.  *)
WriteMetadataFails ==
    /\ op.step = "metadata"
    /\ Faulty
    /\ dir' \in {dir, CapsuleOnly}
                \cup (IF op.who = "linked" THEN {Recorded(op.snap)} ELSE {})
    /\ Fails
    /\ UNCHANGED <<stage, kept, history, inbox, user>>

-----------------------------------------------------------------------------
(* accept of a full snapshot: --replace into the capsule's directory, or    *)
(* plain into one that is empty.                                            *)
AcceptReplace(s, discard_local, allow_divergence) ==
    /\ op = NoOp /\ s \in Known
    /\ dir.cap
    /\ replacement_guards(s, discard_local, allow_divergence)
    /\ Begins("accept", "move", s, snaps[s].files)
    /\ GivesUp(discard_local)
    /\ UNCHANGED <<dir, stage, kept, history, link, inbox, grant, made, spent>>

AcceptFresh(s) ==
    /\ op = NoOp /\ s \in Known
    /\ ~dir.cap
    /\ Begins("accept", "fresh", s, snaps[s].files)
    /\ UNCHANGED <<dir, stage, kept, history, link, inbox, grant, user, spent>>

-----------------------------------------------------------------------------
(* The linked accept: materialize_provenance, import_partial, and the       *)
(* WorkspaceRestore applied when the import fails.                          *)

MaterializeProvenance(s, discard_local, allow_divergence) ==
    /\ op = NoOp /\ link.pc = "idle" /\ s \in Known
    /\ link' = [pc |-> "workspace", fresh |-> ~dir.cap, files |-> snapshot_dir, rec |-> dir.rec]
    /\ \/ /\ dir.cap
          /\ replacement_guards(s, discard_local, allow_divergence)
          /\ Begins("linked", "move", s, snaps[s].files)
          /\ GivesUp(discard_local)
       \/ /\ ~dir.cap
          /\ Begins("linked", "fresh", s, snaps[s].files)
          /\ UNCHANGED <<work, unrecorded, late>>
    /\ UNCHANGED <<dir, stage, kept, history, inbox, grant, made, spent>>

(* The adapter runs without the mutex, for minutes perhaps. *)
BeforeImport(i) == [i EXCEPT !.read = TRUE]
AfterImport(i) == [i EXCEPT !.imported = TRUE]

Import ==
    /\ link.pc = "import"
    /\ link' = [link EXCEPT !.pc = "mark"]
    /\ inbox' = AfterImport(inbox)
    /\ UNCHANGED <<dir, stage, kept, history, op, grant, user, spent>>

MarkRead ==
    /\ link.pc = "mark" /\ op = NoOp
    /\ inbox' = [inbox EXCEPT !.read = TRUE]
    /\ link' = NoLink
    /\ UNCHANGED <<dir, stage, kept, history, op, grant, user, spent>>

ImportFails ==
    /\ link.pc = "import"
    /\ link' = [link EXCEPT !.pc = "undo"]
    /\ UNCHANGED <<dir, stage, kept, history, op, inbox, grant, user, spent>>

(* The directory is removed, or its files are replaced by those it had: no  *)
(* guard looks at what has become of it since.  That the old snapshot_id,   *)
(* where there was none, can be taken away again is not in doubt here.      *)
UndoRemove ==
    /\ link.pc = "undo" /\ op = NoOp /\ link.fresh
    /\ dir' = [files |-> Nothing, cap |-> FALSE, rec |-> 0]
    /\ link' = [NoLink EXCEPT !.pc = "restored"]
    /\ late' = late \cup (Held \cap work)
    /\ UNCHANGED <<stage, kept, history, op, inbox, grant, made, work, unrecorded, spent>>

UndoReplace ==
    /\ link.pc = "undo" /\ op = NoOp /\ ~link.fresh
    /\ Begins("undo", "move", link.rec, link.files)
    /\ UNCHANGED <<dir, stage, kept, history, link, inbox, grant, user, spent>>

(* The command has said that the workspace was restored; another may begin. *)
LinkAgain ==
    /\ link.pc = "restored"
    /\ link' = NoLink
    /\ UNCHANGED <<dir, stage, kept, history, op, inbox, grant, user, spent>>

-----------------------------------------------------------------------------
(* apply_receive_grants of the head a session changed, and forward_grant.   *)

(* The heads are collected first, and the mutex released.                   *)
GrantCollect ==
    /\ op = NoOp /\ grant.pc = "idle"
    /\ main \notin grant.errors
    /\ dir.rec # main
    /\ grant' = [grant EXCEPT !.pc = "head", !.snap = main]
    /\ UNCHANGED <<dir, stage, kept, history, op, link, inbox, user, spent>>

GrantHead ==
    /\ op = NoOp /\ grant.pc = "head"
    /\ \/ /\ dir.cap
          /\ replacement_guards(grant.snap, FALSE, FALSE)
          /\ Begins("grant", "move", grant.snap, snaps[grant.snap].files)
          /\ GivesUp(FALSE)
          /\ UNCHANGED grant
       \/ /\ dir.cap
          /\ ~replacement_guards(grant.snap, FALSE, FALSE)
          /\ GrantEnds({grant.snap})
          /\ UNCHANGED <<op, work, unrecorded, late>>
       \/ /\ ~dir.cap
          /\ Begins("grant", "fresh", grant.snap, snaps[grant.snap].files)
          /\ UNCHANGED <<grant, work, unrecorded, late>>
    /\ UNCHANGED <<dir, stage, kept, history, link, inbox, made, spent>>

(* The metadata of a grant is written beside whatever has the mutex by now. *)
GrantRecord ==
    /\ grant.pc = "record"
    /\ dir.cap \/ dir.files # Nothing
    /\ dir' = Recorded(grant.snap)
    /\ grant' = [grant EXCEPT !.pc = "forward"]
    /\ UNCHANGED <<stage, kept, history, op, link, inbox, user, spent>>

(* It fails, as it must without the directory, or the record of where the   *)
(* workspace is does, which is no error of the head.                        *)
GrantRecordFails ==
    /\ grant.pc = "record"
    /\ \/ /\ dir.files = Nothing /\ ~dir.cap /\ UNCHANGED <<dir, spent>>
          /\ GrantEnds({grant.snap})
       \/ /\ Faulty /\ dir' \in {dir, CapsuleOnly}
          /\ GrantEnds({grant.snap})
       \/ /\ Faulty /\ dir' = Recorded(grant.snap)
          /\ GrantEnds({})
    /\ UNCHANGED <<stage, kept, history, op, link, inbox, user>>

(* The pair of snapshot and peer is written to forwarded.json before the    *)
(* delivery is queued; a pair that is there already is skipped.             *)
QueuesFirst(g) == [g EXCEPT !.pc = "enqueue"]
Marked(g) == [g EXCEPT !.pc = "enqueue", !.forwarded = @ \cup {g.snap}]

ForwardMark ==
    /\ grant.pc = "forward"
    /\ grant' = IF grant.snap \in grant.forwarded THEN [grant EXCEPT !.pc = "idle", !.snap = 0]
                ELSE Marked(grant)
    /\ UNCHANGED <<dir, stage, kept, history, op, link, inbox, user, spent>>

ForwardQueue ==
    /\ grant.pc = "enqueue" /\ op = NoOp
    /\ grant' = [grant EXCEPT !.pc = "idle", !.snap = 0, !.queued[grant.snap] = @ + 1]
    /\ UNCHANGED <<dir, stage, kept, history, op, link, inbox, user, spent>>

Unmarked(g) == [g EXCEPT !.pc = "idle", !.snap = 0, !.forwarded = @ \ {g.snap}]

ForwardFails ==
    /\ grant.pc = "enqueue" /\ op = NoOp
    /\ Faulty
    /\ grant' = Unmarked(grant)
    /\ UNCHANGED <<dir, stage, kept, history, op, link, inbox, user>>

(* policy clear forgets the heads that failed. *)
ClearErrors ==
    /\ grant.errors # {}
    /\ grant' = [grant EXCEPT !.errors = {}]
    /\ UNCHANGED <<dir, stage, kept, history, op, link, inbox, user, spent>>

-----------------------------------------------------------------------------
(* A sibling workspace is replaced: every .abra-into- directory under the   *)
(* common parent goes first.                                                *)
SiblingReplaced ==
    /\ op = NoOp /\ stage # Nothing
    /\ stage' = Nothing
    /\ UNCHANGED <<dir, kept, history, op, link, inbox, grant, user, spent>>

(* The daemon dies: commands are forgotten, files and records stay.         *)
Crash ==
    /\ op # NoOp \/ link # NoLink \/ grant.pc # "idle"
    /\ Faulty
    /\ op' = NoOp /\ link' = NoLink
    /\ GrantEnds({})
    /\ UNCHANGED <<dir, stage, kept, history, inbox, user>>

Next ==
    \/ Edit \/ Snapshot \/ Receive
    \/ MoveOut \/ MoveOutFails \/ MoveIn \/ MoveInFails \/ Drop
    \/ Materialize \/ MaterializeFails
    \/ WriteMetadata \/ WriteMetadataFails
    \/ \E s \in SnapshotIds, d, v \in BOOLEAN : AcceptReplace(s, d, v)
    \/ \E s \in SnapshotIds : AcceptFresh(s)
    \/ \E s \in SnapshotIds, d, v \in BOOLEAN : MaterializeProvenance(s, d, v)
    \/ Import \/ MarkRead \/ ImportFails
    \/ UndoRemove \/ UndoReplace \/ LinkAgain
    \/ GrantCollect \/ GrantHead \/ GrantRecord \/ GrantRecordFails
    \/ ForwardMark \/ ForwardQueue \/ ForwardFails \/ ClearErrors
    \/ SiblingReplaced \/ Crash

Spec == Init /\ [][Next]_vars

-----------------------------------------------------------------------------
(* Every variable has its type.                                             *)
TypeOK ==
    /\ dir.files \in Contents \cup {Nothing, Mixed} /\ dir.rec \in Elsewhere..Len(snaps)
    /\ dir.rec # 0 => dir.cap
    /\ stage \in Contents \cup {Nothing, Mixed}
    /\ main \in Known
    /\ \A s \in Known : snaps[s].files \in Contents /\ snaps[s].parent \in Elsewhere..(s - 1)
    /\ op.step \in {"none", "move", "in", "drop", "fresh", "metadata"}
    /\ work \subseteq Contents /\ unrecorded \cup late \subseteq work

(* Where a file tree can still be found. *)
Found == {dir.files, stage} \cup kept \cup {snaps[s].files : s \in Known}

(* The user's files are never lost, through any mixture of replacements,    *)
(* undos, failures and crashes: they are in the directory, beside it or in  *)
(* a snapshot, unless the caller gave them up.  The exceptions, where the   *)
(* code keeps less than its documents promise: files replaced where no      *)
(* recorded snapshot was there to compare them with, and files that he made *)
(* after the guards had looked, until the move or an undo took them away.   *)
NothingLost == work \ (unrecorded \cup late) \subseteq Found

(* Replacing a workspace keeps local edits unless --discard-local is given, *)
(* in a directory that records no snapshot too.                             *)
KeepsLocalEdits == unrecorded \subseteq Found

(* When a linked accept says the workspace was restored, the directory has  *)
(* the files and the recorded snapshot it had before, but for what the user *)
(* has edited while it was put back.                                        *)
RestoredExactly ==
    [][(link.pc # "restored" /\ link'.pc = "restored") =>
          /\ dir'.files = link.files \/ op.edit # Nothing
          /\ dir'.rec = link.rec]_vars

(* A delivery is marked read only when its import has run to its end.       *)
ReadMeansImported == inbox.read => inbox.imported

(* A head is passed on at most once, whatever is accepted again, undone or  *)
(* cut short by a crash.                                                    *)
ForwardedOnce == \A s \in SnapshotIds : grant.queued[s] <= 1
=============================================================================
