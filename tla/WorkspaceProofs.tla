-------------------------- MODULE WorkspaceProofs --------------------------
(* What is proved of Workspace for every number of file trees, snapshots    *)
(* and troubles.  The theorems rest on five invariants, the last four each *)
(* proved from the first:                                                   *)
(*   Shape     the records are records, and what names a snapshot names one *)
(*             of the store: `dir.rec`, the replacement's and the linked    *)
(*             accept's snapshot;                                           *)
(*   Guarded   the files promised to the user are in the directory, in a    *)
(*             snapshot or in a recovery directory, and of those that a     *)
(*             guarded replacement is about to move he made all but what    *)
(*             the store or a recovery directory has after it had looked;   *)
(*   Importing an import has run when its delivery is about to be marked;   *)
(*   Marking   a head about to be queued is marked and not yet queued;      *)
(*   Undoing   a restore has what the linked accept noted before it.        *)
EXTENDS Workspace, SequenceTheorems, TLAPS

Shape ==
    /\ snaps \in Seq([files : Contents, parent : Int])
    /\ Len(snaps) <= MaxSnapshots
    /\ main \in Known
    /\ dir = [files |-> dir.files, cap |-> dir.cap, rec |-> dir.rec]
    /\ dir.rec \in Elsewhere..Len(snaps)
    /\ op = [who |-> op.who, step |-> op.step, snap |-> op.snap, files |-> op.files,
             edit |-> op.edit]
    /\ op.snap \in Elsewhere..Len(snaps)
    /\ link = [pc |-> link.pc, fresh |-> link.fresh, files |-> link.files, rec |-> link.rec]
    /\ link.rec \in Elsewhere..Len(snaps)
    /\ inbox = [read |-> inbox.read, imported |-> inbox.imported]
    /\ grant = [errors |-> grant.errors, pc |-> grant.pc, snap |-> grant.snap,
                forwarded |-> grant.forwarded, queued |-> grant.queued]
    /\ grant.snap \in 0..Len(snaps)
    /\ grant.queued \in [SnapshotIds -> Nat]
    /\ made \in 1..MaxContents
    /\ work \subseteq Contents

SnapFiles == {snaps[s].files : s \in Known}

\* The user's trees that the code's documents promise to keep, and does.
Promised == work \ (unrecorded \cup late)

Guarded ==
    /\ Promised \subseteq {dir.files} \cup SnapFiles \cup kept
    /\ op.step = "move" /\ op.who # "undo" =>
          Promised \subseteq {op.edit} \cup SnapFiles \cup kept

Importing ==
    /\ link.pc = "mark" => inbox.imported
    /\ inbox.read => inbox.imported

Marking ==
    /\ op.who = "grant" => grant.pc = "head"
    /\ grant.pc # "idle" => grant.snap # 0
    /\ grant.pc = "enqueue" =>
          grant.snap \in grant.forwarded /\ grant.queued[grant.snap] = 0
    /\ \A s \in SnapshotIds :
          grant.queued[s] # 0 => grant.queued[s] = 1 /\ s \in grant.forwarded

\* How far a restore, and the accept that it takes back, have come.
Undoing ==
    /\ ~dir.cap => dir.rec = 0
    /\ op = NoOp <=> op.step = "none"
    /\ op.who = "linked" <=> link.pc = "workspace"
    /\ op.step = "in" => dir.files = Mixed \/ op.edit # Nothing
    /\ op.who = "undo" =>
          /\ link.pc = "undo" /\ op.snap = link.rec /\ op.files = link.files
          /\ op.step # "fresh"
          /\ op.step \in {"drop", "metadata"} => dir.files = op.files \/ op.edit # Nothing
    /\ op.who = "linked" /\ link.fresh =>
          /\ op.step \in {"fresh", "metadata"} /\ link.rec = 0
          /\ op.step = "metadata" \/ dir.files = Nothing => link.files = Nothing
    /\ link.pc \in {"import", "undo"} /\ link.fresh => link.rec = 0 /\ link.files = Nothing

-----------------------------------------------------------------------------
(* The store only grows: a snapshot keeps its place and its files, so every *)
(* number that named a snapshot still does.                                 *)
LEMMA StoreGrows ==
    ASSUME Shape, NEW e \in [files : Contents, parent : Int], snaps' = Append(snaps, e)
    PROVE  /\ snaps' \in Seq([files : Contents, parent : Int])
           /\ Len(snaps') = Len(snaps) + 1
           /\ Elsewhere..Len(snaps) \subseteq Elsewhere..Len(snaps')
           /\ 0..Len(snaps) \subseteq 0..Len(snaps')
           /\ Known \subseteq Known' /\ Len(snaps') \in Known'
           /\ SnapFiles' = SnapFiles \cup {e.files}
  <1>1. snaps \in Seq([files : Contents, parent : Int]) BY DEF Shape
  <1>2. /\ snaps' \in Seq([files : Contents, parent : Int])
        /\ Len(snaps') = Len(snaps) + 1 /\ Len(snaps) \in Nat
        /\ \A i \in 1..Len(snaps) : snaps'[i] = snaps[i]
        /\ snaps'[Len(snaps) + 1] = e
    BY <1>1
  <1>3. Known' = Known \cup {Len(snaps) + 1} BY <1>2 DEF Known
  <1>4. SnapFiles' = SnapFiles \cup {e.files} BY <1>2, <1>3 DEF SnapFiles, Known
  <1> QED BY <1>2, <1>3, <1>4 DEF Known, Elsewhere

(* Counting one more delivery of a snapshot leaves every count a number.    *)
LEMMA CountedOnce ==
    ASSUME NEW f \in [SnapshotIds -> Nat], NEW i
    PROVE  [f EXCEPT ![i] = @ + 1] \in [SnapshotIds -> Nat]
  <1>1. CASE i \in SnapshotIds
    <2>1. f[i] + 1 \in Nat BY <1>1
    <2> QED BY <2>1
  <1>2. CASE i \notin SnapshotIds BY <1>2
  <1> QED BY <1>1, <1>2

(* The records stay records, and every number in them stays one of the      *)
(* store's: no action makes the store forget a snapshot.                    *)
LEMMA ShapeInit == Init => Shape
  <1> SUFFICES ASSUME Init PROVE Shape OBVIOUS
  <1>1. 1 <= MaxSnapshots /\ 1 \in 1..MaxContents BY ConstantAssumption
  <1>2. snaps = <<[files |-> 1, parent |-> 0]>> BY DEF Init
  <1>3. Len(snaps) = 1 /\ snaps \in Seq([files : Contents, parent : Int])
    BY <1>1, <1>2 DEF Contents
  <1>4. /\ dir.rec \in Elsewhere..Len(snaps)
        /\ dir = [files |-> dir.files, cap |-> dir.cap, rec |-> dir.rec]
    BY <1>3 DEF Init, Elsewhere
  <1>5. /\ op.snap \in Elsewhere..Len(snaps) /\ link.rec \in Elsewhere..Len(snaps)
        /\ op = [who |-> op.who, step |-> op.step, snap |-> op.snap, files |-> op.files,
                 edit |-> op.edit]
        /\ link = [pc |-> link.pc, fresh |-> link.fresh, files |-> link.files, rec |-> link.rec]
    BY <1>3 DEF Init, NoOp, NoLink, Elsewhere
  <1> QED BY <1>1, <1>3, <1>4, <1>5 DEF Init, Shape, Known

(* What arrives is one snapshot more.                                       *)
LEMMA ReceivedIsOne ==
    ASSUME Shape, Receive
    PROVE  \E p \in Int, f \in Contents : snaps' = Append(snaps, [files |-> f, parent |-> p])
  <1>1. PICK p \in Known \cup {Elsewhere} :
          \E f \in IF made' = made THEN {snaps[s].files : s \in Known} ELSE {made'} :
             snaps' = Append(snaps, [files |-> f, parent |-> p])
    BY DEF Receive
  <1>2. PICK f \in IF made' = made THEN {snaps[s].files : s \in Known} ELSE {made'} :
             snaps' = Append(snaps, [files |-> f, parent |-> p])
    BY <1>1
  <1>3. p \in Int BY <1>1 DEF Known, Elsewhere
  <1>4. \A s \in Known : snaps[s].files \in Contents
    <2>1. snaps \in Seq([files : Contents, parent : Int]) BY DEF Shape
    <2>2. \A s \in 1..Len(snaps) : snaps[s] \in [files : Contents, parent : Int]
      BY <2>1, ElementOfSeq
    <2> QED BY <2>2 DEF Known
  <1>5. made' \in {made, made + 1} /\ made' <= MaxContents BY DEF Receive
  <1>6. made' \in Contents BY <1>5, ConstantAssumption DEF Shape, Contents
  <1>7. f \in Contents BY <1>2, <1>4, <1>6
  <1> QED BY <1>2, <1>3, <1>7

(* A grant that ends keeps its record and names no snapshot.                *)
LEMMA GrantEndsShape ==
    ASSUME Shape, NEW errors, GrantEnds(errors)
    PROVE  /\ grant' = [errors |-> grant'.errors, pc |-> "idle", snap |-> 0,
                        forwarded |-> grant.forwarded, queued |-> grant.queued]
           /\ grant'.pc = "idle" /\ grant'.snap = 0
           /\ grant'.forwarded = grant.forwarded /\ grant'.queued = grant.queued
  BY DEF GrantEnds, Shape

(* Every action keeps the shape of the directories, the store and the steps.*)
LEMMA ShapeStep == Shape /\ [Next]_vars => Shape'
  <1> SUFFICES ASSUME Shape, [Next]_vars PROVE Shape' OBVIOUS
  <1>a. /\ Len(snaps) \in Nat /\ main \in 1..Len(snaps) /\ work \subseteq Contents
        /\ grant.snap \in 0..Len(snaps) /\ grant.queued \in [SnapshotIds -> Nat]
    BY DEF Shape, Known
  <1>b. /\ 0 \in 0..Len(snaps) /\ 0..Len(snaps) \subseteq Elsewhere..Len(snaps)
        /\ NoOp.snap \in Elsewhere..Len(snaps) /\ NoLink.rec \in Elsewhere..Len(snaps)
        /\ NoOp = [who |-> NoOp.who, step |-> NoOp.step, snap |-> NoOp.snap,
                   files |-> NoOp.files, edit |-> NoOp.edit]
        /\ NoLink = [pc |-> NoLink.pc, fresh |-> NoLink.fresh, files |-> NoLink.files,
                     rec |-> NoLink.rec]
    BY <1>a DEF NoOp, NoLink, Elsewhere
  <1> DEFINE DirShape == /\ dir' = [files |-> dir'.files, cap |-> dir'.cap, rec |-> dir'.rec]
                         /\ dir'.rec \in Elsewhere..Len(snaps)
             OpShape == /\ op' = [who |-> op'.who, step |-> op'.step, snap |-> op'.snap,
                                  files |-> op'.files, edit |-> op'.edit]
                        /\ op'.snap \in Elsewhere..Len(snaps)
             LinkShape == /\ link' = [pc |-> link'.pc, fresh |-> link'.fresh,
                                      files |-> link'.files, rec |-> link'.rec]
                          /\ link'.rec \in Elsewhere..Len(snaps)
             GrantShape == /\ grant' = [errors |-> grant'.errors, pc |-> grant'.pc,
                                        snap |-> grant'.snap, forwarded |-> grant'.forwarded,
                                        queued |-> grant'.queued]
                           /\ grant'.snap \in 0..Len(snaps)
                           /\ grant'.queued \in [SnapshotIds -> Nat]
             InboxShape == inbox' = [read |-> inbox'.read, imported |-> inbox'.imported]
  <1>c. /\ dir' = dir => DirShape
        /\ op' = op \/ op' = NoOp => OpShape
        /\ link' = link \/ link' = NoLink => LinkShape
        /\ grant' = grant => GrantShape
        /\ inbox' = inbox => InboxShape
    BY <1>b DEF Shape
  <1>d. ASSUME NEW x, dir' = [dir EXCEPT !.files = x] PROVE DirShape BY <1>d DEF Shape
  <1>e. ASSUME NEW x, Continues(x) PROVE OpShape BY <1>e DEF Continues, Shape
  <1>f. ASSUME NEW who, NEW step, NEW s \in Elsewhere..Len(snaps), NEW f,
               Begins(who, step, s, f)
        PROVE  OpShape
    BY <1>f DEF Begins
  <1>g. ASSUME NEW e, GrantEnds(e) PROVE GrantShape BY <1>a, <1>b, <1>g, GrantEndsShape
  <1>h. ASSUME Fails PROVE OpShape /\ LinkShape /\ GrantShape
    <2>1. op' = NoOp /\ (link' = NoLink \/ link' = link) BY <1>h DEF Fails
    <2>2. GrantEnds({op.snap}) \/ grant' = grant BY <1>h DEF Fails
    <2> QED BY <1>c, <1>g, <2>1, <2>2
  <1>i. ASSUME DirShape, OpShape, LinkShape, GrantShape, InboxShape, UNCHANGED history,
               work' \subseteq Contents, made' \in 1..MaxContents
        PROVE  Shape'
    BY <1>i DEF Shape, history, Known
  <1>j. made \in 1..MaxContents BY DEF Shape
  <1>k. ASSUME NEW s, dir' = Recorded(s), s \in Elsewhere..Len(snaps) PROVE DirShape
    BY <1>k DEF Recorded, Shape
  <1> DEFINE GrantAt(pc) == grant' = [grant EXCEPT !.pc = pc]
  <1>l. ASSUME NEW pc, GrantAt(pc) PROVE GrantShape BY <1>a, <1>l DEF Shape
  <1>1. CASE Edit
    <2>0. made < MaxContents /\ made' = made + 1 BY <1>1 DEF Edit
    <2>1. made' \in 1..MaxContents BY <2>0, ConstantAssumption DEF Shape
    <2>2. work' \subseteq Contents BY <1>a, <1>1, <2>1 DEF Edit, Contents
    <2>3. DirShape BY <1>d, <1>1 DEF Edit
    <2>4. OpShape
      <3>1. op' = op \/ op' = [op EXCEPT !.edit = made'] BY <1>1 DEF Edit
      <3> QED BY <1>c, <3>1 DEF Shape
    <2>5. UNCHANGED <<history, link, inbox, grant>> BY <1>1 DEF Edit
    <2> HIDE DEF DirShape, OpShape, LinkShape, GrantShape, InboxShape
    <2> QED BY <1>c, <1>i, <2>1, <2>2, <2>3, <2>4, <2>5
  <1>2. CASE Snapshot
    <2> DEFINE e == [files |-> snapshot_dir, parent |-> main]
    <2>1. e \in [files : Contents, parent : Int] /\ snaps' = Append(snaps, e)
      BY <1>a, <1>2 DEF Snapshot, Shape, snapshot_dir
    <2>2. Len(snaps') \in Known' /\ Elsewhere..Len(snaps) \subseteq Elsewhere..Len(snaps')
          /\ 0..Len(snaps) \subseteq 0..Len(snaps')
          /\ Known \subseteq Known' /\ Len(snaps') = Len(snaps) + 1
          /\ snaps' \in Seq([files : Contents, parent : Int])
      BY <2>1, StoreGrows
    <2> HIDE DEF e
    <2>3. Len(snaps') <= MaxSnapshots BY <1>a, <2>2, <1>2, ConstantAssumption DEF Snapshot
    <2>4. work' \subseteq Contents BY <1>a, <1>2 DEF Snapshot, Settled
    <2> QED BY <1>a, <1>2, <2>2, <2>3, <2>4 DEF Snapshot, Shape
  <1>3. CASE Receive
    <2>1. PICK p \in Int : \E f \in Contents : snaps' = Append(snaps, [files |-> f, parent |-> p])
      BY <1>3, ReceivedIsOne
    <2>2. PICK f \in Contents : snaps' = Append(snaps, [files |-> f, parent |-> p]) BY <2>1
    <2> DEFINE e == [files |-> f, parent |-> p]
    <2>3. e \in [files : Contents, parent : Int] /\ snaps' = Append(snaps, e) BY <2>2
    <2>4. Len(snaps') \in Known' /\ Elsewhere..Len(snaps) \subseteq Elsewhere..Len(snaps')
          /\ 0..Len(snaps) \subseteq 0..Len(snaps')
          /\ Known \subseteq Known' /\ Len(snaps') = Len(snaps) + 1
          /\ snaps' \in Seq([files : Contents, parent : Int])
      BY <2>3, StoreGrows
    <2> HIDE DEF e
    <2>5. Len(snaps') <= MaxSnapshots BY <1>a, <2>4, <1>3, ConstantAssumption DEF Receive
    <2>6. made' \in 1..MaxContents /\ main' \in Known'
      <3>1. main' = main \/ main' = Len(snaps') BY <1>3 DEF Receive
      <3>2. made' \in {made, made + 1} /\ made' <= MaxContents BY <1>3 DEF Receive
      <3> QED BY <1>a, <1>j, <2>4, <3>1, <3>2, ConstantAssumption DEF Known
    <2>7. UNCHANGED <<dir, op, link, inbox, grant, work>> BY <1>3 DEF Receive
    <2> QED BY <1>a, <2>4, <2>5, <2>6, <2>7 DEF Shape
  <1> HIDE DEF DirShape, OpShape, LinkShape, GrantShape, InboxShape, GrantAt
  <1>4. CASE MoveOut
    <2>1. DirShape /\ OpShape BY <1>d, <1>e, <1>4 DEF MoveOut
    <2> QED BY <1>a, <1>c, <1>i, <1>j, <1>4, <2>1 DEF MoveOut
  <1>5. CASE MoveOutFails
    <2>1. DirShape BY <1>c, <1>d, <1>5 DEF MoveOutFails
    <2> QED BY <1>a, <1>c, <1>h, <1>i, <1>j, <1>5, <2>1 DEF MoveOutFails
  <1>6. CASE MoveIn
    <2>1. DirShape /\ OpShape BY <1>d, <1>e, <1>6 DEF MoveIn
    <2> QED BY <1>a, <1>c, <1>i, <1>j, <1>6, <2>1 DEF MoveIn
  <1>7. CASE MoveInFails
    <2>1. DirShape BY <1>d, <1>7 DEF MoveInFails
    <2> QED BY <1>a, <1>c, <1>h, <1>i, <1>j, <1>7, <2>1 DEF MoveInFails
  <1>8. CASE Drop \/ Materialize
    <2>1. InPlace /\ UNCHANGED <<history, link, inbox, user>> BY <1>8 DEF Drop, Materialize
    <2>2. DirShape BY <1>c, <1>d, <1>8 DEF Drop, Materialize
    <2>3. OpShape /\ GrantShape
      <3>1. CASE op.who = "grant"
        <4>1. op' = NoOp /\ GrantAt("record") BY <2>1, <3>1 DEF InPlace, GrantAt
        <4> QED BY <1>c, <1>l, <4>1
      <3>2. CASE op.who # "grant" BY <1>c, <1>e, <2>1, <3>2 DEF InPlace
      <3> QED BY <3>1, <3>2
    <2> QED BY <1>a, <1>c, <1>i, <1>j, <2>1, <2>2, <2>3 DEF user
  <1>10. CASE MaterializeFails
    <2>1. DirShape BY <1>c, <1>d, <1>10 DEF MaterializeFails
    <2> QED BY <1>a, <1>c, <1>h, <1>i, <1>j, <1>10, <2>1 DEF MaterializeFails, user
  <1>11. CASE WriteMetadata
    <2>1. DirShape
      <3>1. op.snap \in Elsewhere..Len(snaps) /\ dir' = Recorded(op.snap)
        BY <1>11 DEF WriteMetadata, Shape
      <3> QED BY <1>k, <3>1
    <2>2. LinkShape
      <3>1. \/ link' = link \/ link' = [link EXCEPT !.pc = "import"]
            \/ link' = [NoLink EXCEPT !.pc = "restored"]
        BY <1>11 DEF WriteMetadata, Finishes
      <3> QED BY <1>b, <3>1 DEF LinkShape, Shape, NoLink
    <2>3. op' = NoOp BY <1>11 DEF WriteMetadata, Finishes
    <2> QED BY <1>a, <1>c, <1>i, <1>j, <1>11, <2>1, <2>2, <2>3 DEF WriteMetadata, user
  <1>12. CASE WriteMetadataFails
    <2>1. dir' = dir \/ dir' = CapsuleOnly \/ dir' = Recorded(op.snap)
      BY <1>12 DEF WriteMetadataFails
    <2>2. DirShape
      <3>2. CASE dir' = CapsuleOnly BY <1>b, <3>2 DEF CapsuleOnly, Shape, DirShape
      <3>3. op.snap \in Elsewhere..Len(snaps) BY DEF Shape
      <3> QED BY <1>c, <1>k, <2>1, <3>2, <3>3
    <2> QED BY <1>a, <1>c, <1>h, <1>i, <1>j, <1>12, <2>2 DEF WriteMetadataFails, user
  <1>m. \A s \in Known : s \in Elsewhere..Len(snaps) BY <1>a DEF Known, Elsewhere
  <1>n. ASSUME NEW d, GivesUp(d) PROVE work' \subseteq Contents
    BY <1>a, <1>n DEF GivesUp, Settled
  <1>13. CASE \E s \in SnapshotIds, d, v \in BOOLEAN : AcceptReplace(s, d, v)
    <2>1. PICK s \in SnapshotIds, d \in BOOLEAN, v \in BOOLEAN : AcceptReplace(s, d, v) BY <1>13
    <2>2. OpShape BY <1>f, <1>m, <2>1 DEF AcceptReplace
    <2>3. work' \subseteq Contents BY <1>n, <2>1 DEF AcceptReplace
    <2> QED BY <1>c, <1>i, <1>j, <2>1, <2>2, <2>3 DEF AcceptReplace
  <1>14. CASE \E s \in SnapshotIds : AcceptFresh(s)
    <2>1. OpShape BY <1>f, <1>m, <1>14 DEF AcceptFresh
    <2> QED BY <1>a, <1>c, <1>i, <1>j, <1>14, <2>1 DEF AcceptFresh, user
  <1>15. CASE \E s \in SnapshotIds, d, v \in BOOLEAN : MaterializeProvenance(s, d, v)
    <2>1. PICK s \in SnapshotIds, d \in BOOLEAN, v \in BOOLEAN : MaterializeProvenance(s, d, v)
      BY <1>15
    <2>2. OpShape BY <1>f, <1>m, <2>1 DEF MaterializeProvenance
    <2>3. work' \subseteq Contents BY <1>a, <1>n, <2>1 DEF MaterializeProvenance
    <2>4. LinkShape BY <2>1 DEF MaterializeProvenance, LinkShape, Shape
    <2> QED BY <1>c, <1>i, <1>j, <2>1, <2>2, <2>3, <2>4 DEF MaterializeProvenance
  <1>16. CASE Import \/ ImportFails
    <2>1. LinkShape /\ InboxShape
      BY <1>16 DEF Import, ImportFails, AfterImport, LinkShape, InboxShape, Shape
    <2> QED BY <1>a, <1>c, <1>i, <1>j, <1>16, <2>1 DEF Import, ImportFails, user
  <1>17. CASE MarkRead
    <2>1. InboxShape BY <1>17 DEF MarkRead, InboxShape, Shape
    <2> QED BY <1>a, <1>c, <1>i, <1>j, <1>17, <2>1 DEF MarkRead, user
  <1>19. CASE UndoRemove
    <2>1. DirShape BY <1>b, <1>19 DEF UndoRemove, DirShape
    <2>2. LinkShape BY <1>b, <1>19 DEF UndoRemove, LinkShape, NoLink
    <2> QED BY <1>a, <1>c, <1>i, <1>j, <1>19, <2>1, <2>2 DEF UndoRemove
  <1>20. CASE UndoReplace
    <2>1. link.rec \in Elsewhere..Len(snaps) BY DEF Shape
    <2>2. OpShape BY <1>f, <1>20, <2>1 DEF UndoReplace
    <2> QED BY <1>a, <1>c, <1>i, <1>j, <1>20, <2>2 DEF UndoReplace, user
  <1>21. CASE LinkAgain \/ SiblingReplaced
    BY <1>a, <1>c, <1>i, <1>j, <1>21 DEF LinkAgain, SiblingReplaced, user
  <1>22. CASE GrantCollect
    <2>1. GrantShape
      <3>1. grant' = [grant EXCEPT !.pc = "head", !.snap = main] BY <1>22 DEF GrantCollect
      <3>2. main \in 0..Len(snaps) BY <1>a
      <3> QED BY <1>a, <3>1, <3>2 DEF GrantShape, Shape
    <2> QED BY <1>a, <1>c, <1>i, <1>j, <1>22, <2>1 DEF GrantCollect, user
  <1>23. CASE GrantHead
    <2>1. /\ \/ op' = op \/ Begins("grant", "move", grant.snap, snaps[grant.snap].files)
             \/ Begins("grant", "fresh", grant.snap, snaps[grant.snap].files)
          /\ grant' = grant \/ GrantEnds({grant.snap})
          /\ GivesUp(FALSE) \/ work' = work
          /\ UNCHANGED <<dir, history, link, inbox, made>>
      BY <1>23 DEF GrantHead
    <2>2. OpShape BY <1>a, <1>b, <1>c, <1>f, <2>1
    <2>3. GrantShape BY <1>c, <1>g, <2>1
    <2>4. work' \subseteq Contents BY <1>a, <1>n, <2>1
    <2> QED BY <1>c, <1>i, <1>j, <2>1, <2>2, <2>3, <2>4
  <1>24. CASE GrantRecord
    <2>1. DirShape BY <1>a, <1>b, <1>k, <1>24 DEF GrantRecord
    <2>2. GrantShape BY <1>l, <1>24 DEF GrantRecord, GrantAt
    <2> QED BY <1>a, <1>c, <1>i, <1>j, <1>24, <2>1, <2>2 DEF GrantRecord, user
  <1>25. CASE GrantRecordFails
    <2>1. dir' = dir \/ dir' = CapsuleOnly \/ dir' = Recorded(grant.snap)
      BY <1>25 DEF GrantRecordFails
    <2>2. DirShape
      <3>2. CASE dir' = CapsuleOnly BY <1>b, <3>2 DEF CapsuleOnly, Shape, DirShape
      <3> QED BY <1>a, <1>b, <1>c, <1>k, <2>1, <3>2
    <2>3. GrantShape BY <1>g, <1>25 DEF GrantRecordFails
    <2> QED BY <1>a, <1>c, <1>i, <1>j, <1>25, <2>2, <2>3 DEF GrantRecordFails, user
  <1>26. CASE ForwardMark
    <2>1. GrantShape BY <1>a, <1>b, <1>26 DEF ForwardMark, Marked, GrantShape, Shape
    <2> QED BY <1>a, <1>c, <1>i, <1>j, <1>26, <2>1 DEF ForwardMark, user
  <1>27. CASE ForwardQueue
    <2> DEFINE q == [grant.queued EXCEPT ![grant.snap] = @ + 1]
    <2>1. grant' = [grant EXCEPT !.pc = "idle", !.snap = 0, !.queued = q]
      BY <1>27 DEF ForwardQueue
    <2>2. q \in [SnapshotIds -> Nat] BY <1>a, CountedOnce
    <2> HIDE DEF q
    <2>3. GrantShape BY <1>b, <2>1, <2>2 DEF GrantShape, Shape
    <2> QED BY <1>a, <1>c, <1>i, <1>j, <1>27, <2>3 DEF ForwardQueue, user
  <1>28. CASE ForwardFails \/ ClearErrors
    <2>1. GrantShape
      BY <1>a, <1>b, <1>28 DEF ForwardFails, Unmarked, ClearErrors, GrantShape, Shape
    <2> QED BY <1>a, <1>c, <1>i, <1>j, <1>28, <2>1 DEF ForwardFails, ClearErrors, user
  <1>29. CASE Crash BY <1>a, <1>c, <1>g, <1>i, <1>j, <1>29 DEF Crash, user
  <1>30. CASE UNCHANGED vars BY <1>a, <1>c, <1>i, <1>j, <1>30 DEF vars, user
  <1> QED BY <1>1, <1>2, <1>3, <1>4, <1>5, <1>6, <1>7, <1>8, <1>10, <1>11, <1>12, <1>13, <1>14,
            <1>15, <1>16, <1>17, <1>19, <1>20, <1>21, <1>22, <1>23, <1>24, <1>25, <1>26, <1>27,
            <1>28, <1>29, <1>30 DEF Next

-----------------------------------------------------------------------------
(* What the guards are for: after them and after what the caller gives up,  *)
(* the promised files that will be overwritten are in a snapshot or kept.   *)
(* In a directory that records a snapshot of the store they are that        *)
(* snapshot's, or the caller gave them up.                                  *)
LEMMA GuardsSuffice ==
    ASSUME Shape, Guarded, NEW incoming, NEW d \in BOOLEAN, NEW v \in BOOLEAN,
           replacement_guards(incoming, d, v), GivesUp(d)
    PROVE  Promised' \subseteq SnapFiles \cup kept
  <1>1. Promised \subseteq {dir.files} \cup SnapFiles \cup kept BY DEF Guarded
  <1>2. work \subseteq Contents /\ Mixed \notin Contents
    BY ConstantAssumption DEF Shape, Mixed, Contents
  <1>3. \A x \in work : x = dir.files => x \in Held BY <1>2 DEF Held
  <1>4. CASE d
    <2>1. work' = work \ Held /\ unrecorded' = unrecorded \ Held /\ late' = late \ Held
      BY <1>4 DEF GivesUp, Settled
    <2> QED BY <1>1, <1>3, <2>1 DEF Promised
  <1>5. CASE ~d /\ dir.rec \notin Known
    <2>1. work' = work /\ late' = late /\ unrecorded' = unrecorded \cup (Held \cap work)
      BY <1>5 DEF GivesUp
    <2> QED BY <1>1, <1>3, <2>1 DEF Promised
  <1>6. CASE ~d /\ dir.rec \in Known
    <2>1. UNCHANGED <<work, late, unrecorded>> BY <1>6 DEF GivesUp
    <2>2. dir.rec # 0 /\ Known # {}
      <3>1. Len(snaps) \in Nat BY DEF Shape
      <3> QED BY <1>6, <3>1 DEF Known
    <2>3. dir.files = snaps[dir.rec].files
      BY <1>6, <2>2 DEF replacement_guards, Clean, snapshot_dir
    <2>4. dir.files \in SnapFiles BY <1>6, <2>3 DEF SnapFiles
    <2> QED BY <1>1, <2>1, <2>4 DEF Promised
  <1> QED BY <1>4, <1>5, <1>6

(* A file tree in a snapshot stays in one.                                  *)
LEMMA FilesStay ==
    ASSUME Shape, [Next]_vars
    PROVE  SnapFiles \subseteq SnapFiles'
  <1>1. CASE snaps' = snaps BY <1>1 DEF SnapFiles, Known
  <1>2. CASE Snapshot
    <2>1. Len(snaps) \in Nat /\ main \in 1..Len(snaps) BY DEF Shape, Known
    <2>2. /\ [files |-> snapshot_dir, parent |-> main] \in [files : Contents, parent : Int]
          /\ snaps' = Append(snaps, [files |-> snapshot_dir, parent |-> main])
      BY <1>2, <2>1 DEF Snapshot
    <2> QED BY <2>2, StoreGrows
  <1>3. CASE Receive
    <2>1. PICK p \in Int, f \in Contents : snaps' = Append(snaps, [files |-> f, parent |-> p])
      BY <1>3, ReceivedIsOne
    <2>2. [files |-> f, parent |-> p] \in [files : Contents, parent : Int] OBVIOUS
    <2> QED BY <2>1, <2>2, StoreGrows
  <1>4. CASE Next /\ ~Snapshot /\ ~Receive
    <2>1. UNCHANGED snaps
      BY <1>4 DEF Next, history, Edit, MoveOut, MoveOutFails, MoveIn, MoveInFails, Drop,
         Materialize, MaterializeFails, WriteMetadata, WriteMetadataFails, AcceptReplace,
         AcceptFresh, MaterializeProvenance, Import, MarkRead, ImportFails, UndoRemove,
         UndoReplace, LinkAgain, GrantCollect, GrantHead, GrantRecord, GrantRecordFails,
         ForwardMark, ForwardQueue, ForwardFails, ClearErrors, SiblingReplaced, Crash
    <2> QED BY <1>1, <2>1
  <1> QED BY <1>1, <1>2, <1>3, <1>4 DEF vars, history

(* Guarded holds in every reachable state: a step either leaves a promised  *)
(* tree where it is, or its tree is by then no longer promised.             *)
LEMMA GuardedStep == Shape /\ Guarded /\ [Next]_vars => Guarded'
  <1> SUFFICES ASSUME Shape, Guarded, [Next]_vars PROVE Guarded' OBVIOUS
  <1>a. SnapFiles \subseteq SnapFiles' BY FilesStay
  <1>b. /\ Promised \subseteq {dir.files} \cup SnapFiles \cup kept
        /\ op.step = "move" /\ op.who # "undo" =>
              Promised \subseteq {op.edit} \cup SnapFiles \cup kept
    BY DEF Guarded
  <1>c. /\ dir = [files |-> dir.files, cap |-> dir.cap, rec |-> dir.rec]
        /\ op = [who |-> op.who, step |-> op.step, snap |-> op.snap, files |-> op.files,
                 edit |-> op.edit]
    BY DEF Shape
  <1>d. /\ work \subseteq Contents /\ Mixed \notin Contents /\ Nothing \notin Contents
        /\ \A x \in work : x = dir.files => x \in Held
    BY ConstantAssumption DEF Shape, Mixed, Nothing, Contents, Held
  <1>e. CASE Promised' \subseteq SnapFiles \cup kept /\ kept \subseteq kept'
    BY <1>a, <1>e DEF Guarded
  <1>f. CASE /\ Promised' \subseteq {dir'.files} \cup SnapFiles \cup kept'
             /\ op'.step # "move" \/ op'.who = "undo"
    BY <1>a, <1>f DEF Guarded
  <1>g. NoOp.step = "none" BY DEF NoOp
  <1>1. CASE Edit
    <2>1. /\ dir' = [dir EXCEPT !.files = made'] /\ UNCHANGED kept
          /\ op' = IF op = NoOp THEN op ELSE [op EXCEPT !.edit = made']
          /\ Promised' \subseteq (Promised \ {dir.files}) \cup {made'}
      BY <1>1 DEF Edit, Promised
    <2>2. dir'.files = made' BY <1>c, <2>1
    <2>3. Promised' \subseteq {made'} \cup SnapFiles \cup kept' BY <1>b, <2>1
    <2>4. op'.step = "move" => op'.edit = made' BY <1>c, <1>g, <2>1
    <2> QED BY <1>a, <2>2, <2>3, <2>4 DEF Guarded
  <1>2. CASE Snapshot
    <2>1. op' = NoOp /\ UNCHANGED <<dir, kept>> /\ Promised' \subseteq Promised
      BY <1>2 DEF Snapshot, Settled, Promised
    <2> QED BY <1>b, <1>f, <1>g, <2>1
  <1>3. CASE Receive \/ Import \/ MarkRead \/ ImportFails \/ LinkAgain \/ GrantCollect
             \/ GrantRecord \/ GrantRecordFails \/ ForwardMark \/ ForwardQueue
             \/ ForwardFails \/ ClearErrors \/ SiblingReplaced \/ UNCHANGED vars
    <2>1. UNCHANGED <<op, kept, work, unrecorded, late>>
      BY <1>3 DEF Receive, Import, MarkRead, ImportFails, LinkAgain, GrantCollect, GrantRecord,
         GrantRecordFails, ForwardMark, ForwardQueue, ForwardFails, ClearErrors,
         SiblingReplaced, vars, user
    <2>2. dir' = dir \/ dir' = CapsuleOnly \/ dir' = Recorded(grant.snap)
      BY <1>3 DEF Receive, Import, MarkRead, ImportFails, LinkAgain, GrantCollect, GrantRecord,
         GrantRecordFails, ForwardMark, ForwardQueue, ForwardFails, ClearErrors,
         SiblingReplaced, vars
    <2>3. dir'.files = dir.files BY <1>c, <2>2 DEF CapsuleOnly, Recorded
    <2> QED BY <1>a, <1>b, <2>1, <2>3 DEF Guarded, Promised
  <1>4. CASE MoveOut
    <2>1. /\ op'.step = "in" /\ UNCHANGED <<kept, work, unrecorded>>
          /\ late' = late \cup ((IF op.who = "undo" THEN Held ELSE {op.edit}) \cap work)
          /\ op.step = "move"
      BY <1>c, <1>4 DEF MoveOut, Continues
    <2>2. Promised' \subseteq SnapFiles \cup kept
      <3>1. CASE op.who = "undo" BY <1>b, <1>d, <2>1, <3>1 DEF Promised
      <3>2. CASE op.who # "undo" BY <1>b, <2>1, <3>2 DEF Promised
      <3> QED BY <3>1, <3>2
    <2> QED BY <1>e, <2>1, <2>2
  <1>5. CASE MoveOutFails
    <2>1. /\ op' = NoOp /\ UNCHANGED <<work, late>> /\ unrecorded' = unrecorded \ Held
          /\ UNCHANGED <<dir, kept>> \/ kept' = kept \cup Held
      BY <1>5 DEF MoveOutFails, Fails
    <2>2. Promised' \subseteq Promised \cup (Held \cap work) BY <2>1 DEF Promised
    <2>3. Held \subseteq {dir.files} \cup kept BY DEF Held
    <2>4. Promised \subseteq work BY DEF Promised
    <2>5. Promised' \subseteq {dir'.files} \cup SnapFiles \cup kept'
      <3>1. CASE UNCHANGED <<dir, kept>> BY <1>b, <2>2, <2>3, <3>1
      <3>2. CASE kept' = kept \cup Held BY <1>b, <1>d, <2>2, <2>4, <3>2
      <3> QED BY <2>1, <3>1, <3>2
    <2> QED BY <1>f, <1>g, <2>1, <2>5
  <1>6. CASE MoveIn
    <2>1. /\ op'.step = "drop" /\ UNCHANGED <<kept, work, unrecorded>>
          /\ late' = late \cup ({dir.files} \cap work)
      BY <1>c, <1>6 DEF MoveIn, Continues, Overwritten
    <2>2. Promised' \subseteq SnapFiles \cup kept BY <1>b, <2>1 DEF Promised
    <2> QED BY <1>e, <2>1, <2>2
  <1>7. CASE MoveInFails
    <2>1. /\ op' = NoOp /\ UNCHANGED work /\ unrecorded' = unrecorded \ {stage}
          /\ late' = (late \ {stage}) \cup ({dir.files} \cap work)
          /\ \/ dir' = [dir EXCEPT !.files = stage] /\ UNCHANGED kept
             \/ kept' = kept \cup {stage}
      BY <1>7 DEF MoveInFails, Fails, Overwritten
    <2>2. Promised' \subseteq SnapFiles \cup kept \cup {stage} BY <1>b, <2>1 DEF Promised
    <2>3. dir'.files = stage \/ stage \in kept' BY <1>c, <2>1
    <2> QED BY <1>f, <1>g, <2>1, <2>2, <2>3
  <1>8. CASE Drop \/ Materialize \/ MaterializeFails \/ WriteMetadata \/ WriteMetadataFails
    <2>1. UNCHANGED <<kept, user>> /\ (op' = NoOp \/ op'.step = "metadata")
      BY <1>c, <1>8 DEF Drop, Materialize, MaterializeFails, WriteMetadata, WriteMetadataFails,
         InPlace, Continues, Fails, Finishes
    <2>2. dir'.files = dir.files \/ dir.files = Nothing
      BY <1>c, <1>8 DEF Drop, Materialize, MaterializeFails, WriteMetadata, WriteMetadataFails,
         Recorded, CapsuleOnly
    <2>3. Promised' = Promised /\ Promised \subseteq work BY <2>1 DEF Promised, user
    <2>4. Promised' \subseteq {dir'.files} \cup SnapFiles \cup kept'
      BY <1>b, <1>d, <2>1, <2>2, <2>3
    <2> QED BY <1>f, <1>g, <2>1, <2>4
  <1>9. CASE \E s \in SnapshotIds, d, v \in BOOLEAN : AcceptReplace(s, d, v)
    <2>1. PICK s \in SnapshotIds, d \in BOOLEAN, v \in BOOLEAN :
              replacement_guards(s, d, v) /\ GivesUp(d) /\ UNCHANGED kept
      BY <1>9 DEF AcceptReplace
    <2> QED BY <1>e, <2>1, GuardsSuffice
  <1>10. CASE \E s \in SnapshotIds : AcceptFresh(s)
    <2>1. UNCHANGED <<dir, kept, user>> /\ op'.step = "fresh"
      BY <1>10 DEF AcceptFresh, Begins
    <2> QED BY <1>b, <1>f, <2>1 DEF Promised, user
  <1>11. CASE \E s \in SnapshotIds, d, v \in BOOLEAN : MaterializeProvenance(s, d, v)
    <2>1. PICK s \in SnapshotIds, d \in BOOLEAN, v \in BOOLEAN :
              MaterializeProvenance(s, d, v)
      BY <1>11
    <2>2. /\ UNCHANGED <<dir, kept>>
          /\ \/ replacement_guards(s, d, v) /\ GivesUp(d)
             \/ op'.step = "fresh" /\ UNCHANGED <<work, unrecorded, late>>
      BY <2>1 DEF MaterializeProvenance, Begins
    <2>3. CASE op'.step = "fresh" /\ UNCHANGED <<work, unrecorded, late>>
      BY <1>b, <1>f, <2>2, <2>3 DEF Promised
    <2>4. CASE replacement_guards(s, d, v) /\ GivesUp(d) BY <1>e, <2>2, <2>4, GuardsSuffice
    <2> QED BY <2>2, <2>3, <2>4
  <1>12. CASE GrantHead
    <2>1. /\ UNCHANGED <<dir, kept>>
          /\ \/ replacement_guards(grant.snap, FALSE, FALSE) /\ GivesUp(FALSE)
             \/ (op' = NoOp \/ op'.step = "fresh") /\ UNCHANGED <<work, unrecorded, late>>
      <3>1. /\ UNCHANGED <<dir, kept>> /\ op = NoOp
            /\ \/ replacement_guards(grant.snap, FALSE, FALSE) /\ GivesUp(FALSE)
               \/ UNCHANGED <<op, work, unrecorded, late>>
               \/ /\ Begins("grant", "fresh", grant.snap, snaps[grant.snap].files)
                  /\ UNCHANGED <<work, unrecorded, late>>
        BY <1>12 DEF GrantHead
      <3>2. Begins("grant", "fresh", grant.snap, snaps[grant.snap].files) => op'.step = "fresh"
        BY DEF Begins
      <3> QED BY <3>1, <3>2
    <2>2. CASE replacement_guards(grant.snap, FALSE, FALSE) /\ GivesUp(FALSE)
      BY <1>e, <2>1, <2>2, GuardsSuffice
    <2>3. CASE (op' = NoOp \/ op'.step = "fresh") /\ UNCHANGED <<work, unrecorded, late>>
      BY <1>b, <1>f, <1>g, <2>1, <2>3 DEF Promised
    <2> QED BY <2>1, <2>2, <2>3
  <1>13. CASE UndoRemove
    <2>1. /\ UNCHANGED <<kept, work, unrecorded>> /\ late' = late \cup (Held \cap work)
      BY <1>13 DEF UndoRemove
    <2>2. Promised' \subseteq SnapFiles \cup kept BY <1>b, <1>d, <2>1 DEF Promised
    <2> QED BY <1>e, <2>1, <2>2
  <1>14. CASE UndoReplace
    <2>1. UNCHANGED <<dir, kept, user>> /\ op'.who = "undo" BY <1>14 DEF UndoReplace, Begins
    <2> QED BY <1>b, <1>f, <2>1 DEF Promised, user
  <1>15. CASE Crash
    <2>1. UNCHANGED <<dir, kept, user>> /\ op' = NoOp BY <1>15 DEF Crash
    <2> QED BY <1>b, <1>f, <1>g, <2>1 DEF Promised, user
  <1> QED BY <1>1, <1>2, <1>3, <1>4, <1>5, <1>6, <1>7, <1>8, <1>9, <1>10, <1>11, <1>12, <1>13,
            <1>14, <1>15 DEF Next

-----------------------------------------------------------------------------
(* An import's end comes before its mark in every linked accept.            *)
LEMMA ImportingStep == Shape /\ Importing /\ [Next]_vars => Importing'
  <1> SUFFICES ASSUME Shape, Importing, [Next]_vars PROVE Importing' OBVIOUS
  <1>a. link = [pc |-> link.pc, fresh |-> link.fresh, files |-> link.files, rec |-> link.rec]
    BY DEF Shape
  <1>b. inbox = [read |-> inbox.read, imported |-> inbox.imported] BY DEF Shape
  <1>c. (link.pc = "mark" => inbox.imported) /\ (inbox.read => inbox.imported)
    BY DEF Importing
  <1>d. CASE UNCHANGED inbox /\ (link'.pc = "mark" => link.pc = "mark")
    BY <1>c, <1>d DEF Importing
  <1>e. CASE UNCHANGED <<inbox, link>> BY <1>d, <1>e
  <1>1. CASE Import
    <2>1. inbox' = [inbox EXCEPT !.imported = TRUE] BY <1>1 DEF Import, AfterImport
    <2>2. inbox'.imported BY <1>b, <2>1
    <2> QED BY <2>2 DEF Importing
  <1>2. CASE MarkRead
    <2>1. inbox.imported /\ inbox' = [inbox EXCEPT !.read = TRUE] BY <1>2, <1>c DEF MarkRead
    <2>2. inbox'.imported BY <1>b, <2>1
    <2> QED BY <2>2 DEF Importing
  <1>3. CASE MoveOutFails \/ MoveInFails \/ MaterializeFails \/ WriteMetadataFails
    <2>1. Fails /\ UNCHANGED inbox
      BY <1>3 DEF MoveOutFails, MoveInFails, MaterializeFails, WriteMetadataFails
    <2>2. link'.pc \in {"idle", link.pc} BY <2>1 DEF Fails, NoLink
    <2> QED BY <1>d, <2>1, <2>2
  <1>4. CASE WriteMetadata
    <2>1. Finishes /\ UNCHANGED inbox BY <1>4 DEF WriteMetadata
    <2>2. link'.pc \in {"import", "restored", link.pc} BY <1>a, <2>1 DEF Finishes, NoLink
    <2> QED BY <1>d, <2>1, <2>2
  <1>5. CASE \E s \in SnapshotIds, d, v \in BOOLEAN : MaterializeProvenance(s, d, v)
    <2>1. link'.pc = "workspace" /\ UNCHANGED inbox BY <1>5 DEF MaterializeProvenance
    <2> QED BY <1>d, <2>1
  <1>6. CASE ImportFails \/ UndoRemove \/ LinkAgain \/ Crash
    <2>0. UNCHANGED inbox /\ link' \in {[link EXCEPT !.pc = "undo"],
              [NoLink EXCEPT !.pc = "restored"], NoLink}
      BY <1>6 DEF ImportFails, UndoRemove, LinkAgain, Crash
    <2>1. link'.pc \in {"undo", "restored", "idle"} BY <1>a, <2>0 DEF NoLink
    <2> QED BY <1>d, <2>0, <2>1
  <1>7. CASE Edit \/ Snapshot \/ Receive \/ MoveOut \/ MoveIn \/ Drop \/ Materialize
             \/ UndoReplace \/ GrantCollect \/ GrantHead \/ GrantRecord \/ GrantRecordFails
             \/ ForwardMark \/ ForwardQueue \/ ForwardFails
             \/ ClearErrors \/ SiblingReplaced \/ UNCHANGED vars
    <2>1. UNCHANGED <<inbox, link>>
      BY <1>7 DEF Edit, Snapshot, Receive, MoveOut, MoveIn, Drop, Materialize, UndoReplace,
         GrantCollect, GrantHead, GrantRecord, GrantRecordFails, ForwardMark, ForwardQueue,
         ForwardFails, ClearErrors, SiblingReplaced, vars
    <2> QED BY <1>e, <2>1
  <1>8. CASE \/ \E s \in SnapshotIds, d, v \in BOOLEAN : AcceptReplace(s, d, v)
             \/ \E s \in SnapshotIds : AcceptFresh(s)
    <2>1. UNCHANGED <<inbox, link>> BY <1>8 DEF AcceptReplace, AcceptFresh
    <2> QED BY <1>e, <2>1
  <1> QED BY <1>1, <1>2, <1>3, <1>4, <1>5, <1>6, <1>7, <1>8 DEF Next

(* A head is queued only while its mark stands and no delivery of it was    *)
(* queued before, and the mark outlives the delivery.                       *)
LEMMA MarkingStep == Shape /\ Marking /\ [Next]_vars => Marking'
  <1> SUFFICES ASSUME Shape, Marking, [Next]_vars PROVE Marking' OBVIOUS
  <1>a. /\ grant = [errors |-> grant.errors, pc |-> grant.pc, snap |-> grant.snap,
                    forwarded |-> grant.forwarded, queued |-> grant.queued]
        /\ grant.queued \in [SnapshotIds -> Nat]
        /\ grant.snap \in 0..Len(snaps) /\ main \in 1..Len(snaps)
        /\ Len(snaps) \in Nat /\ Len(snaps) <= MaxSnapshots
        /\ op = [who |-> op.who, step |-> op.step, snap |-> op.snap, files |-> op.files,
                 edit |-> op.edit]
    BY DEF Shape, Known
  <1>b. /\ op.who = "grant" => grant.pc = "head"
        /\ grant.pc # "idle" => grant.snap # 0
        /\ grant.pc = "enqueue" =>
              grant.snap \in grant.forwarded /\ grant.queued[grant.snap] = 0
        /\ \A s \in SnapshotIds :
              grant.queued[s] # 0 => grant.queued[s] = 1 /\ s \in grant.forwarded
    BY DEF Marking
  <1>c. CASE /\ UNCHANGED <<grant.pc, grant.snap, grant.forwarded, grant.queued>>
             /\ op'.who = "grant" => op.who = "grant"
    BY <1>b, <1>c DEF Marking
  <1>d. CASE UNCHANGED <<grant, op>> BY <1>c, <1>d
  <1>e. NoOp.who = "none" BY DEF NoOp
  <1>f. ASSUME NEW e, GrantEnds(e), op'.who # "grant" PROVE Marking'
    <2>1. /\ grant'.pc = "idle" /\ grant'.forwarded = grant.forwarded
          /\ grant'.queued = grant.queued
      BY <1>f, GrantEndsShape
    <2> QED BY <1>b, <1>f, <2>1 DEF Marking
  <1>1. CASE MoveOut \/ MoveIn \/ Edit
    <2>1. UNCHANGED grant /\ (op' = op \/ \E x : op' = [op EXCEPT !.step = x]
                                       \/ op' = [op EXCEPT !.edit = made'])
      BY <1>1 DEF MoveOut, MoveIn, Edit, Continues
    <2>2. op'.who = op.who BY <1>a, <2>1
    <2> QED BY <1>c, <2>1, <2>2
  <1>2. CASE MoveOutFails \/ MoveInFails \/ MaterializeFails \/ WriteMetadataFails
    <2>1. Fails BY <1>2 DEF MoveOutFails, MoveInFails, MaterializeFails, WriteMetadataFails
    <2>2. op' = NoOp /\ (GrantEnds({op.snap}) \/ UNCHANGED grant) BY <2>1 DEF Fails
    <2> QED BY <1>c, <1>e, <1>f, <2>2
  <1>3. CASE WriteMetadata
    <2>1. op' = NoOp /\ UNCHANGED grant BY <1>3 DEF WriteMetadata, Finishes
    <2> QED BY <1>c, <1>e, <2>1
  <1>4. CASE Drop \/ Materialize
    <2>1. InPlace BY <1>4 DEF Drop, Materialize
    <2>2. CASE op.who = "grant"
      <3>1. op' = NoOp /\ grant' = [grant EXCEPT !.pc = "record"] BY <2>1, <2>2 DEF InPlace
      <3>2. /\ grant'.pc = "record" /\ grant'.snap = grant.snap
            /\ grant'.forwarded = grant.forwarded /\ grant'.queued = grant.queued
        BY <1>a, <3>1
      <3> QED BY <1>b, <1>e, <2>2, <3>1, <3>2 DEF Marking
    <2>3. CASE op.who # "grant"
      <3>1. UNCHANGED grant /\ op' = [op EXCEPT !.step = "metadata"]
        BY <2>1, <2>3 DEF InPlace, Continues
      <3>2. op'.who = op.who BY <1>a, <3>1
      <3> QED BY <1>c, <3>1, <3>2
    <2> QED BY <2>2, <2>3
  <1>5. CASE GrantCollect
    <2>1. /\ op' = op /\ op = NoOp /\ grant' = [grant EXCEPT !.pc = "head", !.snap = main]
      BY <1>5 DEF GrantCollect
    <2>2. /\ grant'.pc = "head" /\ grant'.snap # 0
          /\ grant'.forwarded = grant.forwarded /\ grant'.queued = grant.queued
      BY <1>a, <2>1
    <2> QED BY <1>b, <2>2 DEF Marking
  <1>6. CASE GrantHead
    <2>1. /\ grant.pc = "head"
          /\ UNCHANGED grant \/ (UNCHANGED op /\ op = NoOp /\ GrantEnds({grant.snap}))
      BY <1>6 DEF GrantHead
    <2>2. CASE UNCHANGED grant BY <1>b, <2>1, <2>2 DEF Marking
    <2> QED BY <1>e, <1>f, <2>1, <2>2
  <1>7. CASE GrantRecord
    <2>1. /\ grant.pc = "record" /\ UNCHANGED op /\ grant' = [grant EXCEPT !.pc = "forward"]
      BY <1>7 DEF GrantRecord
    <2>2. /\ grant'.pc = "forward" /\ grant'.snap = grant.snap
          /\ grant'.forwarded = grant.forwarded /\ grant'.queued = grant.queued
      BY <1>a, <2>1
    <2> QED BY <1>b, <2>1, <2>2 DEF Marking
  <1>8. CASE GrantRecordFails
    <2>1. /\ grant.pc = "record" /\ UNCHANGED op /\ \E e : GrantEnds(e)
      BY <1>8 DEF GrantRecordFails
    <2> QED BY <1>b, <1>f, <2>1
  <1>9. CASE ForwardMark
    <2>1. /\ grant.pc = "forward" /\ UNCHANGED op
          /\ grant' = IF grant.snap \in grant.forwarded
                      THEN [grant EXCEPT !.pc = "idle", !.snap = 0]
                      ELSE [grant EXCEPT !.pc = "enqueue", !.forwarded = @ \cup {grant.snap}]
      BY <1>9 DEF ForwardMark, Marked
    <2>2. op'.who # "grant" BY <1>b, <2>1
    <2>3. CASE grant.snap \in grant.forwarded
      <3>1. /\ grant'.pc = "idle"
            /\ grant'.forwarded = grant.forwarded /\ grant'.queued = grant.queued
        BY <1>a, <2>1, <2>3
      <3> QED BY <1>b, <2>2, <3>1 DEF Marking
    <2>4. CASE grant.snap \notin grant.forwarded
      <3>1. /\ grant'.pc = "enqueue" /\ grant'.snap = grant.snap
            /\ grant'.forwarded = grant.forwarded \cup {grant.snap}
            /\ grant'.queued = grant.queued
        BY <1>a, <2>1, <2>4
      <3>2. grant.snap \in SnapshotIds BY <1>a, <1>b, <2>1, ConstantAssumption DEF SnapshotIds
      <3>3. grant.queued[grant.snap] = 0 BY <1>b, <2>4, <3>2
      <3> QED BY <1>b, <2>1, <2>2, <3>1, <3>3 DEF Marking
    <2> QED BY <2>3, <2>4
  <1>10. CASE ForwardQueue
    <2> DEFINE q == [grant.queued EXCEPT ![grant.snap] = @ + 1]
    <2>1. /\ grant.pc = "enqueue" /\ UNCHANGED op
          /\ grant' = [grant EXCEPT !.pc = "idle", !.snap = 0, !.queued = q]
      BY <1>10 DEF ForwardQueue
    <2>2. grant.snap \in SnapshotIds BY <1>a, <1>b, <2>1, ConstantAssumption DEF SnapshotIds
    <2>3. q[grant.snap] = 1 /\ \A s \in SnapshotIds : s # grant.snap => q[s] = grant.queued[s]
      BY <1>a, <1>b, <2>1, <2>2
    <2> HIDE DEF q
    <2>4. /\ grant'.pc = "idle" /\ grant'.forwarded = grant.forwarded /\ grant'.queued = q
      BY <1>a, <2>1
    <2>5. \A s \in SnapshotIds : q[s] # 0 => q[s] = 1 /\ s \in grant.forwarded
      BY <1>b, <2>1, <2>3
    <2> QED BY <1>b, <2>1, <2>4, <2>5 DEF Marking
  <1>11. CASE ForwardFails
    <2>1. /\ grant.pc = "enqueue" /\ UNCHANGED op
          /\ grant' = [grant EXCEPT !.pc = "idle", !.snap = 0, !.forwarded = @ \ {grant.snap}]
      BY <1>11 DEF ForwardFails, Unmarked
    <2>2. /\ grant'.pc = "idle" /\ grant'.forwarded = grant.forwarded \ {grant.snap}
          /\ grant'.queued = grant.queued
      BY <1>a, <2>1
    <2> QED BY <1>b, <2>1, <2>2 DEF Marking
  <1>12. CASE ClearErrors
    <2>1. UNCHANGED op /\ grant' = [grant EXCEPT !.errors = {}] BY <1>12 DEF ClearErrors
    <2>2. UNCHANGED <<grant.pc, grant.snap, grant.forwarded, grant.queued>> BY <1>a, <2>1
    <2> QED BY <1>c, <2>1, <2>2
  <1>13. CASE Crash BY <1>e, <1>f, <1>13 DEF Crash
  <1>14. CASE Snapshot \/ Receive \/ Import \/ MarkRead \/ ImportFails \/ UndoRemove
              \/ LinkAgain \/ SiblingReplaced \/ UNCHANGED vars
    <2>1. UNCHANGED <<grant, op>>
      BY <1>14 DEF Snapshot, Receive, Import, MarkRead, ImportFails, UndoRemove,
         LinkAgain, SiblingReplaced, vars
    <2> QED BY <1>d, <2>1
  <1>15. CASE \/ UndoReplace
              \/ \E s \in SnapshotIds, d, v \in BOOLEAN : AcceptReplace(s, d, v)
              \/ \E s \in SnapshotIds : AcceptFresh(s)
              \/ \E s \in SnapshotIds, d, v \in BOOLEAN : MaterializeProvenance(s, d, v)
    <2>1. UNCHANGED grant /\ op'.who \in {"undo", "accept", "linked"}
      BY <1>15 DEF UndoReplace, AcceptReplace, AcceptFresh, MaterializeProvenance, Begins
    <2> QED BY <1>c, <2>1
  <1> QED BY <1>1, <1>2, <1>3, <1>4, <1>5, <1>6, <1>7, <1>8, <1>9, <1>10, <1>11, <1>12, <1>13,
            <1>14, <1>15 DEF Next

-----------------------------------------------------------------------------
(* A restore puts back what the linked accept found: no other replacement   *)
(* works on the directory meanwhile, and what was found stays noted.        *)
LEMMA UndoingStep == Shape /\ Undoing /\ [Next]_vars => Undoing'
  <1> SUFFICES ASSUME Shape, Undoing, [Next]_vars PROVE Undoing' OBVIOUS
  <1>a. /\ dir = [files |-> dir.files, cap |-> dir.cap, rec |-> dir.rec]
        /\ op = [who |-> op.who, step |-> op.step, snap |-> op.snap, files |-> op.files,
                 edit |-> op.edit]
        /\ link = [pc |-> link.pc, fresh |-> link.fresh, files |-> link.files,
                   rec |-> link.rec]
    BY DEF Shape
  <1>b. /\ ~dir.cap => dir.rec = 0
        /\ op = NoOp <=> op.step = "none"
        /\ op.who = "linked" <=> link.pc = "workspace"
        /\ op.step = "in" => dir.files = Mixed \/ op.edit # Nothing
        /\ op.who = "undo" =>
              /\ link.pc = "undo" /\ op.snap = link.rec /\ op.files = link.files
              /\ op.step # "fresh"
              /\ op.step \in {"drop", "metadata"} => dir.files = op.files \/ op.edit # Nothing
        /\ op.who = "linked" /\ link.fresh =>
              /\ op.step \in {"fresh", "metadata"} /\ link.rec = 0
              /\ op.step = "metadata" \/ dir.files = Nothing => link.files = Nothing
        /\ link.pc \in {"import", "undo"} /\ link.fresh =>
              link.rec = 0 /\ link.files = Nothing
    BY DEF Undoing
  <1>c. NoOp.who = "none" /\ NoOp.step = "none" BY DEF NoOp
  <1>d. CASE /\ UNCHANGED <<op, link>> /\ dir'.files = dir.files
             /\ ~dir'.cap => dir'.rec = 0
    BY <1>b, <1>d DEF Undoing, NoOp
  <1>1. CASE Edit
    <2>1. /\ op' = IF op = NoOp THEN op ELSE [op EXCEPT !.edit = made']
          /\ link' = link /\ dir' = [dir EXCEPT !.files = made'] /\ made' = made + 1
      BY <1>1 DEF Edit
    <2>2. dir'.cap = dir.cap /\ dir'.rec = dir.rec /\ dir'.files = made' BY <1>a, <2>1
    <2>3. made' # Nothing BY <2>1 DEF Shape, Nothing
    <2>4. CASE op = NoOp
      <3>1. op'.who = "none" /\ op'.step = "none" /\ op' = op BY <1>c, <2>1, <2>4
      <3> QED BY <1>b, <1>c, <2>1, <2>2, <2>4, <3>1 DEF Undoing, NoOp
    <2>5. CASE op # NoOp
      <3>1. /\ op'.who = op.who /\ op'.step = op.step /\ op'.snap = op.snap
            /\ op'.files = op.files /\ op'.edit = made'
        BY <1>a, <2>1, <2>5
      <3>2. op'.step # "none" /\ op' # NoOp BY <1>b, <1>c, <2>5, <3>1
      <3> QED BY <1>b, <2>1, <2>2, <2>3, <3>1, <3>2 DEF Undoing
    <2> QED BY <2>4, <2>5
  <1>2. CASE MoveOut \/ MoveIn
    <2>1. /\ link' = link
          /\ dir'.cap = dir.cap /\ dir'.rec = dir.rec
          /\ op'.who = op.who /\ op'.snap = op.snap /\ op'.files = op.files
          /\ op'.edit = op.edit
          /\ \/ op.step = "move" /\ op'.step = "in" /\ dir'.files = Mixed
             \/ /\ op.step = "in" /\ op'.step = "drop"
                /\ dir'.files = op.files \/ Overwritten # {}
      BY <1>a, <1>2 DEF MoveOut, MoveIn, Continues
    <2>2. op # NoOp /\ op' # NoOp BY <1>c, <2>1
    <2>3. Overwritten # {} => dir.files # Mixed
      BY ConstantAssumption DEF Overwritten, Shape, Contents, Mixed
    <2> QED BY <1>b, <2>1, <2>2, <2>3 DEF Undoing
  <1>3. CASE Drop \/ Materialize
    <2>1. /\ link' = link /\ InPlace
          /\ dir'.cap = dir.cap /\ dir'.rec = dir.rec
          /\ \/ op.step = "drop" /\ dir'.files = dir.files
             \/ op.step = "fresh" /\ dir.files = Nothing
      BY <1>a, <1>3 DEF Drop, Materialize
    <2>2. CASE op.who = "grant"
      <3>1. op' = NoOp BY <2>1, <2>2 DEF InPlace
      <3> QED BY <1>b, <1>c, <2>1, <2>2, <3>1 DEF Undoing
    <2>3. CASE op.who # "grant"
      <3>1. op' = [op EXCEPT !.step = "metadata"] BY <2>1, <2>3 DEF InPlace, Continues
      <3>2. /\ op'.who = op.who /\ op'.snap = op.snap /\ op'.files = op.files
            /\ op'.edit = op.edit /\ op'.step = "metadata"
        BY <1>a, <3>1
      <3>3. op # NoOp /\ op' # NoOp BY <1>c, <2>1, <3>2
      <3> QED BY <1>b, <2>1, <3>2, <3>3 DEF Undoing
    <2> QED BY <2>2, <2>3
  <1>4. CASE MoveOutFails \/ MoveInFails \/ MaterializeFails \/ WriteMetadataFails
    <2>1. /\ op' = NoOp
          /\ link' = IF op.who \in {"linked", "undo"} THEN NoLink ELSE link
      BY <1>4 DEF MoveOutFails, MoveInFails, MaterializeFails, WriteMetadataFails, Fails
    <2>2. (link' = link /\ link.pc # "workspace") \/ link'.pc = "idle"
      BY <1>b, <2>1 DEF NoLink
    <2>3. ~dir'.cap => dir'.rec = 0
      <3>1. CASE WriteMetadataFails
        BY <1>a, <1>b, <3>1 DEF WriteMetadataFails, CapsuleOnly, Recorded
      <3>2. CASE MoveOutFails \/ MoveInFails \/ MaterializeFails
        <4>1. dir'.cap = dir.cap /\ dir'.rec = dir.rec
          BY <1>a, <3>2 DEF MoveOutFails, MoveInFails, MaterializeFails
        <4> QED BY <1>b, <4>1
      <3> QED BY <1>4, <3>1, <3>2
    <2> QED BY <1>b, <1>c, <2>1, <2>2, <2>3 DEF Undoing
  <1>5. CASE WriteMetadata
    <2>1. /\ op.step = "metadata" /\ op' = NoOp /\ dir'.cap
          /\ link' = CASE op.who = "linked" -> [link EXCEPT !.pc = "import"]
                       [] op.who = "undo" -> [NoLink EXCEPT !.pc = "restored"]
                       [] OTHER -> link
      BY <1>a, <1>5 DEF WriteMetadata, Finishes, Recorded
    <2>2. \/ link' = link /\ link.pc # "workspace"
          \/ link'.pc = "restored"
          \/ /\ op.who = "linked" /\ link'.pc = "import" /\ link'.fresh = link.fresh
             /\ link'.files = link.files /\ link'.rec = link.rec
      BY <1>a, <1>b, <2>1 DEF NoLink
    <2> QED BY <1>b, <1>c, <2>1, <2>2 DEF Undoing
  <1>6. CASE \/ \E s \in SnapshotIds, d, v \in BOOLEAN : AcceptReplace(s, d, v)
             \/ \E s \in SnapshotIds : AcceptFresh(s)
             \/ GrantHead
    <2>1. /\ op = NoOp /\ dir' = dir /\ link' = link
          /\ \/ op' = op
             \/ \E who \in {"accept", "grant"}, step \in {"move", "fresh"} : \E s, f :
                  Begins(who, step, s, f)
      <3>1. CASE \E s \in SnapshotIds, d, v \in BOOLEAN : AcceptReplace(s, d, v)
        BY <3>1 DEF AcceptReplace
      <3>2. CASE \E s \in SnapshotIds : AcceptFresh(s) BY <3>2 DEF AcceptFresh
      <3>3. CASE GrantHead BY <3>3 DEF GrantHead
      <3> QED BY <1>6, <3>1, <3>2, <3>3
    <2>2. link.pc # "workspace" BY <1>b, <1>c, <2>1
    <2>3. op' = op \/ (op'.who \in {"accept", "grant"} /\ op'.step \in {"move", "fresh"})
      BY <2>1 DEF Begins
    <2>4. op' # op => op' # NoOp BY <1>c, <2>3
    <2> QED BY <1>b, <1>c, <2>1, <2>2, <2>3, <2>4 DEF Undoing, NoOp
  <1>7. CASE \E s \in SnapshotIds, d, v \in BOOLEAN : MaterializeProvenance(s, d, v)
    <2>1. /\ dir' = dir /\ op'.who = "linked"
          /\ link'.pc = "workspace" /\ link'.files = dir.files /\ link'.rec = dir.rec
          /\ \/ dir.cap /\ ~link'.fresh /\ op'.step = "move"
             \/ ~dir.cap /\ op'.step = "fresh"
      <3>1. PICK s \in SnapshotIds, d \in BOOLEAN, v \in BOOLEAN : MaterializeProvenance(s, d, v)
        BY <1>7
      <3>2. link' = [pc |-> "workspace", fresh |-> ~dir.cap, files |-> dir.files, rec |-> dir.rec]
        BY <3>1 DEF MaterializeProvenance, snapshot_dir
      <3>3. \/ dir.cap /\ Begins("linked", "move", s, snaps[s].files)
            \/ ~dir.cap /\ Begins("linked", "fresh", s, snaps[s].files)
        BY <3>1 DEF MaterializeProvenance
      <3>4. dir' = dir BY <3>1 DEF MaterializeProvenance
      <3>5. /\ link'.pc = "workspace" /\ link'.files = dir.files /\ link'.rec = dir.rec
            /\ link'.fresh = ~dir.cap
        BY <3>2, Zenon
      <3>6. dir.cap => ~link'.fresh BY <3>5
      <3>7. op'.who = "linked" /\ ((dir.cap /\ op'.step = "move") \/ (~dir.cap /\ op'.step = "fresh"))
        BY <3>3 DEF Begins
      <3> QED BY <3>4, <3>5, <3>6, <3>7
    <2>2. op' # NoOp BY <1>c, <2>1
    <2> QED BY <1>b, <2>1, <2>2 DEF Undoing
  <1>8. CASE Import \/ MarkRead \/ ImportFails \/ LinkAgain
    <2>1. /\ dir' = dir /\ op' = op /\ link.pc \notin {"workspace", "undo"}
          /\ \/ link' = [link EXCEPT !.pc = "mark"] \/ link' = NoLink
             \/ link.pc = "import" /\ link' = [link EXCEPT !.pc = "undo"]
      BY <1>8 DEF Import, MarkRead, ImportFails, LinkAgain
    <2>2. NoLink.pc = "idle" BY DEF NoLink
    <2>3. \/ link'.pc \notin {"workspace", "import", "undo"}
          \/ /\ link.pc = "import" /\ link'.pc = "undo"
             /\ link'.fresh = link.fresh /\ link'.files = link.files
             /\ link'.rec = link.rec
      BY <1>a, <2>1, <2>2
    <2> QED BY <1>b, <1>c, <2>1, <2>3 DEF Undoing, NoOp
  <1>9. CASE UndoRemove
    <2>1. op = NoOp /\ op' = op /\ ~dir'.cap /\ dir'.rec = 0 /\ link'.pc = "restored"
      BY <1>9 DEF UndoRemove, NoLink
    <2> QED BY <1>c, <2>1 DEF Undoing, NoOp
  <1>10. CASE UndoReplace
    <2>1. /\ dir' = dir /\ link' = link /\ link.pc = "undo"
          /\ op'.who = "undo" /\ op'.step = "move" /\ op'.snap = link.rec
          /\ op'.files = link.files
      BY <1>10 DEF UndoReplace, Begins
    <2>2. op' # NoOp BY <1>c, <2>1
    <2> QED BY <1>b, <2>1, <2>2 DEF Undoing
  <1>11. CASE Crash
    <2>1. dir' = dir /\ op' = NoOp /\ link'.pc = "idle" BY <1>11 DEF Crash, NoLink
    <2> QED BY <1>b, <1>c, <2>1 DEF Undoing
  <1>12. CASE GrantRecord \/ GrantRecordFails
    <2>1. /\ UNCHANGED <<op, link>>
          /\ dir' = dir \/ dir' = CapsuleOnly \/ dir' = Recorded(grant.snap)
      BY <1>12 DEF GrantRecord, GrantRecordFails
    <2>2. dir'.files = dir.files /\ (dir'.cap \/ dir' = dir)
      BY <1>a, <2>1 DEF CapsuleOnly, Recorded
    <2> QED BY <1>b, <1>d, <2>1, <2>2
  <1>13. CASE Snapshot \/ Receive \/ GrantCollect \/ ForwardMark \/ ForwardQueue
              \/ ForwardFails \/ ClearErrors \/ SiblingReplaced \/ UNCHANGED vars
    <2>1. UNCHANGED <<dir, op, link>>
      BY <1>13 DEF Snapshot, Receive, GrantCollect, ForwardMark, ForwardQueue, ForwardFails,
         ClearErrors, SiblingReplaced, vars
    <2> QED BY <1>b, <1>d, <2>1
  <1> QED BY <1>1, <1>2, <1>3, <1>4, <1>5, <1>6, <1>7, <1>8, <1>9, <1>10, <1>11, <1>12, <1>13
      DEF Next

(* It is over when the files and the record are those noted, or the user    *)
(* has changed a file since it began.                                       *)
LEMMA RestoresIt ==
    ASSUME Shape, Undoing, [Next]_vars, link.pc # "restored", link'.pc = "restored"
    PROVE  (dir'.files = link.files \/ op.edit # Nothing) /\ dir'.rec = link.rec
  <1>a. /\ dir = [files |-> dir.files, cap |-> dir.cap, rec |-> dir.rec]
        /\ link = [pc |-> link.pc, fresh |-> link.fresh, files |-> link.files,
                   rec |-> link.rec]
    BY DEF Shape
  <1>1. CASE UndoRemove
    <2>1. link.pc = "undo" /\ link.fresh /\ dir'.files = Nothing /\ dir'.rec = 0
      BY <1>1 DEF UndoRemove
    <2> QED BY <2>1 DEF Undoing
  <1>2. CASE WriteMetadata
    <2>1. /\ op.step = "metadata" /\ dir'.files = dir.files /\ dir'.rec = op.snap
          /\ link' = CASE op.who = "linked" -> [link EXCEPT !.pc = "import"]
                       [] op.who = "undo" -> [NoLink EXCEPT !.pc = "restored"]
                       [] OTHER -> link
      BY <1>a, <1>2 DEF WriteMetadata, Finishes, Recorded
    <2>2. op.who = "undo" BY <1>a, <2>1
    <2> QED BY <2>1, <2>2 DEF Undoing
  <1>3. CASE Next /\ ~UndoRemove /\ ~WriteMetadata
    <2>1. link'.pc # "restored" \/ link' = link
      <3>1. CASE MoveOutFails \/ MoveInFails \/ MaterializeFails \/ WriteMetadataFails
        BY <3>1 DEF MoveOutFails, MoveInFails, MaterializeFails, WriteMetadataFails, Fails,
           NoLink
      <3>2. CASE Import \/ MarkRead \/ ImportFails \/ LinkAgain \/ Crash
        <4>1. \/ link' = [link EXCEPT !.pc = "mark"] \/ link' = [link EXCEPT !.pc = "undo"]
              \/ link' = NoLink
          BY <3>2 DEF Import, MarkRead, ImportFails, LinkAgain, Crash
        <4>2. NoLink.pc = "idle" BY DEF NoLink
        <4> QED BY <1>a, <4>1, <4>2
      <3>3. CASE \E s \in SnapshotIds, d, v \in BOOLEAN : MaterializeProvenance(s, d, v)
        BY <3>3 DEF MaterializeProvenance
      <3>4. CASE \/ Edit \/ Snapshot \/ Receive \/ MoveOut \/ MoveIn \/ Drop \/ Materialize
                 \/ UndoReplace \/ GrantCollect \/ GrantHead \/ GrantRecord
                 \/ GrantRecordFails \/ ForwardMark \/ ForwardQueue \/ ForwardFails
                 \/ ClearErrors \/ SiblingReplaced
                 \/ \E s \in SnapshotIds, d, v \in BOOLEAN : AcceptReplace(s, d, v)
                 \/ \E s \in SnapshotIds : AcceptFresh(s)
        BY <3>4 DEF Edit, Snapshot, Receive, MoveOut, MoveIn, Drop, Materialize, UndoReplace,
           GrantCollect, GrantHead, GrantRecord, GrantRecordFails, ForwardMark, ForwardQueue,
           ForwardFails, ClearErrors, SiblingReplaced, AcceptReplace, AcceptFresh
      <3> QED BY <1>3, <3>1, <3>2, <3>3, <3>4 DEF Next
    <2> QED BY <2>1
  <1> QED BY <1>1, <1>2, <1>3 DEF vars

-----------------------------------------------------------------------------
(* The invariants hold in every reachable state. *)
LEMMA Invariants == Spec => [](Shape /\ Guarded /\ Importing /\ Marking)
  <1>1. Init => Shape /\ Guarded /\ Importing /\ Marking
    <2>1. Init => Shape BY ShapeInit
    <2>2. Init => Guarded /\ Importing /\ Marking
      BY DEF Init, Guarded, Promised, Importing, Marking, NoOp, NoLink
    <2> QED BY <2>1, <2>2
  <1>2. Shape /\ Guarded /\ Importing /\ Marking /\ [Next]_vars
            => (Shape /\ Guarded /\ Importing /\ Marking)'
    BY ShapeStep, GuardedStep, ImportingStep, MarkingStep
  <1> QED BY <1>1, <1>2, PTL DEF Spec

(* The user's files are never lost (replacement_guards, replace_workspace   *)
(* and WorkspaceRestore): whatever fails, whenever the daemon dies and      *)
(* whatever the user edits meanwhile, they are in the directory, beside it  *)
(* or in a snapshot, unless the caller gave them up, they were replaced     *)
(* with no recorded snapshot to compare them with, or he made them after    *)
(* the guards had looked.                                                   *)
THEOREM FilesSurvive == Spec => []NothingLost
  <1>1. Guarded => NothingLost BY DEF Guarded, Promised, NothingLost, Found, SnapFiles
  <1> QED BY <1>1, Invariants, PTL

(* A partial delivery is marked read only after an import of it ran to its  *)
(* end (the order of import_partial and the mark in the linked accept).     *)
THEOREM ImportedFirst == Spec => []ReadMeansImported
  <1>1. Importing => ReadMeansImported BY DEF Importing, ReadMeansImported
  <1> QED BY <1>1, Invariants, PTL

(* forward_grant passes a head on at most once, because the pair is in      *)
(* forwarded.json before the delivery is queued.                            *)
THEOREM PassedOnOnce == Spec => []ForwardedOnce
  <1>1. Shape /\ Marking => ForwardedOnce
    <2> SUFFICES ASSUME Shape, Marking, NEW s \in SnapshotIds PROVE grant.queued[s] <= 1
      BY DEF ForwardedOnce
    <2>1. grant.queued[s] = 0 \/ grant.queued[s] = 1 BY DEF Marking
    <2> QED BY <2>1
  <1> QED BY <1>1, Invariants, PTL

(* When a linked accept reports the workspace restored after a failed       *)
(* import, the directory has the recorded snapshot that WorkspaceRestore    *)
(* noted before it, also when it had none, and the files, unless the user   *)
(* changed one while they were put back.                                    *)
THEOREM RestoresExactly == Spec => RestoredExactly
  <1> DEFINE Claim == (link.pc # "restored" /\ link'.pc = "restored") =>
                          /\ dir'.files = link.files \/ op.edit # Nothing
                          /\ dir'.rec = link.rec
  <1>1. Init => Shape /\ Undoing
    <2>1. Init => Undoing BY DEF Init, Undoing, NoOp, NoLink
    <2> QED BY <2>1, ShapeInit
  <1>2. Shape /\ Undoing /\ [Next]_vars => (Shape /\ Undoing)' /\ [Claim]_vars
    BY ShapeStep, UndoingStep, RestoresIt
  <1> QED BY <1>1, <1>2, PTL DEF Spec, RestoredExactly

=============================================================================
