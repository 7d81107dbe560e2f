---------------------------- MODULE Checkpoint ----------------------------
(* Process checkpoints (crates/abra-runtime/src/process.rs).               *)
(*                                                                         *)
(* On the source machine the commands `capture` and `resume-source` run    *)
(* against one process tree that goes on living, dying, and having its     *)
(* PIDs reused around them; on a second machine `restore` rebuilds the     *)
(* workspace and asks CRIU to start the processes again.  CRIU itself is   *)
(* external: a dump stops the tree, or fails with some of it stopped; a    *)
(* restore starts the processes, fails, or is killed at its timeout with   *)
(* the processes started or not.  A command is one entry of `cmd`; the     *)
(* steps of two commands interleave.                                       *)
(*                                                                         *)
(* One step reads the whole of /proc that a loop of the code reads one     *)
(* entry at a time.  The identity check of the second pass of              *)
(* resume_verified_tree and the signal after it are one step too: a PID is *)
(* reused between the turns of two processes, never within one turn.       *)
EXTENDS Integers, Sequences, FiniteSets, SequencesExt

CONSTANTS Root,        \* the PID given to capture
          Others,      \* the PIDs its descendants use, and strangers later
          Commands,    \* the commands run on the source machine
          Features,    \* CPU features
          MaxBirths,   \* bound: the processes that have had one PID
          MaxWrites,   \* bound: the changes of the workspace
          MaxKills,    \* bound: processes killed from outside
          MaxSignals   \* bound: SIGCONTs sent from outside

Pids == {Root} \cup Others

ASSUME ConstantAssumption ==
    /\ IsFiniteSet(Pids) /\ Root \notin Others
    /\ MaxBirths \in Nat /\ MaxWrites \in Nat
    /\ MaxKills \in Nat /\ MaxSignals \in Nat

VARIABLES proc,     \* the processes behind the PIDs
          files,    \* the version of the workspace on the source machine
          cmd,      \* the commands: where each is and what it holds
          bundle,   \* the bundles published, by the capture that made them
          sent,     \* the processes Abra has sent SIGCONT
          crossed,  \* history: the commands another program has crossed
          spent,    \* how much of the bounds on outsiders is used up
          dest      \* the destination machine

vars == <<proc, files, cmd, bundle, sent, crossed, spent, dest>>

-----------------------------------------------------------------------------
(* /proc on the source machine.                                            *)

Identity == [pid : Pids, start_ticks : 1..MaxBirths]

(* "dead" is a process its stopped parent has not reaped; "none" a free    *)
(* PID.  `ours` tells the captured application from strangers.             *)
Process == [start_ticks : 0..MaxBirths,
            state : {"run", "stop", "dead", "none"},
            ours : BOOLEAN]

Alone(ticks, state) == [start_ticks |-> ticks, state |-> state, ours |-> TRUE]

process_identity(p) == [pid |-> p, start_ticks |-> proc[p].start_ticks]

Exists(id) == /\ proc[id.pid].state # "none"
              /\ process_identity(id.pid) = id

process_is_stopped(p) == proc[p].state = "stop"

(* The root first, then its descendants, a dead one included.              *)
Descendants == {p \in Others : proc[Root].ours /\ proc[p].ours /\ proc[p].state # "none"}

collect_process_tree ==
    <<process_identity(Root)>> \o
        [i \in 1..Cardinality(Descendants) |->
            process_identity(SetToSeq(Descendants)[i])]

Stopped(P) == [p \in Pids |-> IF p \in P /\ proc[p].state = "run"
                              THEN [proc[p] EXCEPT !.state = "stop"] ELSE proc[p]]

Continued(p) == IF process_is_stopped(p)
                THEN [proc EXCEPT ![p].state = "run"] ELSE proc

(* No lock keeps the processes as a command has made or found them.  A      *)
(* command is crossed when the tree it has seen frozen, or is waking, is    *)
(* frozen by another one, and when, while it copies the workspace, a        *)
(* process of the application is continued by anybody.                      *)
At(pcs) == {k \in Commands : cmd[k].pc \in pcs}

Freezes(P) ==
    /\ proc' = Stopped(P)
    /\ crossed' = IF Stopped(P) = proc THEN crossed
                  ELSE crossed \cup At({"dumped", "collect", "signal"})

Wakes(p) ==
    /\ proc' = Continued(p)
    /\ crossed' = IF process_is_stopped(p) THEN crossed \cup At({"copy"}) ELSE crossed

-----------------------------------------------------------------------------
(* Bundles and hosts.                                                      *)

(* What CRIU's images hold: the processes, and the version of the          *)
(* workspace they had in memory when they were frozen.                     *)
Image == [procs : SUBSET Identity, at : 0..MaxWrites]
NoImage == [procs |-> {}, at |-> 0]

NoBundle == [tree |-> <<>>, image |-> NoImage, ws |-> 0, files |-> <<0, NoImage>>]
Published(k) == bundle[k] # NoBundle

(* copy_tree: the version the workspace has.  What cannot be copied makes   *)
(* the capture fail.                                                       *)
copy_tree == files

(* The inventory tells any two payloads apart: names, kinds and hashes.    *)
inventory_bundle(ws, image) == <<ws, image>>

(* Hosts differ in what compare_hosts compares exactly, of which the       *)
(* kernel stands for all, and in their CPU features.                       *)
Hosts == [kernel : {1, 2}, cpu : SUBSET Features]
SourceHost == [kernel |-> 1, cpu |-> Features]
compare_hosts(captured, current) == /\ captured.kernel = current.kernel
                                    /\ captured.cpu \subseteq current.cpu

(* verify_bundle: the payload has the inventory the manifest has.          *)
verify_bundle(copy) ==
    copy # NoBundle /\ copy.files = inventory_bundle(copy.ws, copy.image)

(* The directory at the workspace's path on the destination: none, another *)
(* program's, or the version that restore put there.                       *)
Nothing == -1
Foreign == -2

-----------------------------------------------------------------------------
(* Commands.                                                               *)

NoIdentity == [pid |-> Root, start_ticks |-> 0]
Waiting == [pc |-> "waiting", op |-> "none", before |-> NoIdentity,
            tree |-> <<>>, left |-> <<>>, image |-> NoImage, said |-> "nothing"]

Running(k) == cmd[k].pc \notin {"waiting", "ended"}
MayStart(k) == cmd[k].pc = "waiting"

Goes(k, to) == cmd' = [cmd EXCEPT ![k].pc = to]
Ends(k, words) == cmd' = [cmd EXCEPT ![k].pc = "ended", ![k].said = words]

Init == /\ proc \in [Pids -> {Alone(1, "run"), Alone(0, "none")}]
        /\ proc[Root].state = "run"
        /\ files = 0
        /\ cmd = [k \in Commands |-> Waiting]
        /\ bundle = [k \in Commands |-> NoBundle]
        /\ sent = {} /\ crossed = {}
        /\ spent = [kills |-> 0, signals |-> 0]
        /\ dest \in [copy : {NoBundle}, host : Hosts, dir : {Nothing},
                     image : {NoImage}, pc : {"waiting"}]

-----------------------------------------------------------------------------
(* capture.                                                                *)

(* The checks before CRIU is called: the PID is a process of this user, is *)
(* no ancestor of this command, and the bundle is a new directory outside  *)
(* the workspace.                                                          *)
CaptureStart(k) ==
    /\ MayStart(k)
    /\ proc[Root].state # "none" /\ proc[Root].ours
    /\ cmd' = [cmd EXCEPT ![k] = [Waiting EXCEPT !.pc = "dump", !.op = "capture",
                                                 !.before = process_identity(Root)]]
    /\ UNCHANGED <<proc, files, bundle, sent, crossed, spent, dest>>

(* CRIU dumps whatever now has the PID.  It leaves the tree stopped.       *)
DumpSucceeds(k) ==
    /\ cmd[k].pc = "dump"
    /\ proc[Root].state \in {"run", "stop"}
    /\ Freezes({Root} \cup Descendants)
    /\ cmd' = [cmd EXCEPT ![k].pc = "dumped",
                          ![k].image = [procs |-> ToSet(collect_process_tree),
                                        at |-> files]]
    /\ UNCHANGED <<files, bundle, sent, spent, dest>>

(* It fails, or is killed at the timeout: nothing is stopped, or the root  *)
(* is, or the whole tree.                                                  *)
DumpFails(k) ==
    /\ cmd[k].pc = "dump"
    /\ \E P \in {{}, {Root}, {Root} \cup Descendants} :
          Freezes(P)
    /\ Goes(k, "recover")
    /\ UNCHANGED <<files, bundle, sent, spent, dest>>

(* The root is the process it was, and it is stopped.  A root that runs    *)
(* ends the command without recover_stopped_source.                        *)
CheckRoot(k) ==
    /\ cmd[k].pc = "dumped"
    /\ \/ /\ ~Exists(cmd[k].before)
          /\ Goes(k, "recover")
       \/ /\ Exists(cmd[k].before) /\ ~process_is_stopped(Root)
          /\ Ends(k, "not stopped")
       \/ /\ Exists(cmd[k].before) /\ process_is_stopped(Root)
          /\ Goes(k, "collect")
    /\ UNCHANGED <<proc, files, bundle, sent, crossed, spent, dest>>

(* Every process of the tree is recorded, and must be stopped.             *)
RootStopped(tree) == process_is_stopped(tree[1].pid)
AllStopped(tree) == \A id \in ToSet(tree) : process_is_stopped(id.pid)

CollectTree(k) ==
    /\ cmd[k].pc = "collect"
    /\ \/ /\ ~(Exists(cmd[k].before) /\ AllStopped(collect_process_tree))
          /\ Goes(k, "recover")
       \/ /\ Exists(cmd[k].before) /\ AllStopped(collect_process_tree)
          /\ cmd' = [cmd EXCEPT ![k].pc = "copy", ![k].tree = collect_process_tree]
    /\ UNCHANGED <<proc, files, bundle, sent, crossed, spent, dest>>

(* The workspace has been copied and inventoried beside the images, and    *)
(* one rename makes the directory the bundle.                              *)
Publish(k) ==
    /\ cmd[k].pc = "copy"
    /\ bundle' = [bundle EXCEPT ![k] =
                     [tree |-> cmd[k].tree, image |-> cmd[k].image, ws |-> copy_tree,
                      files |-> inventory_bundle(copy_tree, cmd[k].image)]]
    /\ Ends(k, "published")
    /\ UNCHANGED <<proc, files, sent, crossed, spent, dest>>

(* A copy, the inventory, the manifest or the rename failed: the tree that *)
(* was recorded is resumed.                                                *)
PublishFails(k) ==
    /\ cmd[k].pc = "copy"
    /\ Goes(k, "verify")
    /\ UNCHANGED <<proc, files, bundle, sent, crossed, spent, dest>>

(* recover_stopped_source.                                                 *)
Recover(k) ==
    /\ cmd[k].pc = "recover"
    /\ \/ /\ ~Exists(cmd[k].before)
          /\ Ends(k, "unavailable")
       \/ /\ Exists(cmd[k].before) /\ ~process_is_stopped(Root)
          /\ Ends(k, "not stopped")
       \/ /\ Exists(cmd[k].before) /\ process_is_stopped(Root)
          /\ cmd' = [cmd EXCEPT ![k].pc = "verify", ![k].tree = collect_process_tree]
    /\ UNCHANGED <<proc, files, bundle, sent, crossed, spent, dest>>

-----------------------------------------------------------------------------
(* resume-source, and the resume both commands share.                      *)

ResumeStart(k, b) ==
    /\ MayStart(k) /\ Published(b)
    /\ cmd' = [cmd EXCEPT ![k] = [Waiting EXCEPT !.pc = "verify", !.op = "resume",
                                                 !.tree = bundle[b].tree]]
    /\ UNCHANGED <<proc, files, bundle, sent, crossed, spent, dest>>

(* The order in which the second pass of resume_verified_tree signals.     *)
Descending(tree) == Reverse(Tail(tree))
ResumeOrder(tree) == Reverse(tree)

(* The first pass: every process recorded is there, is the one recorded    *)
(* and is stopped, or none is signalled.                                   *)
VerifyTree(k) ==
    /\ cmd[k].pc = "verify"
    /\ \/ /\ \A id \in ToSet(cmd[k].tree) : Exists(id) /\ process_is_stopped(id.pid)
          /\ cmd' = [cmd EXCEPT ![k].pc = "signal",
                                ![k].left = ResumeOrder(cmd[k].tree)]
       \/ /\ \E id \in ToSet(cmd[k].tree) : ~(Exists(id) /\ process_is_stopped(id.pid))
          /\ Ends(k, "may be frozen")
    /\ UNCHANGED <<proc, files, bundle, sent, crossed, spent, dest>>

(* The second pass: identity once more, then the signal.                   *)
AnyIdentity(id) == proc[id.pid].state # "none"
SameIdentity(id) == Exists(id)

SignalNext(k) ==
    /\ cmd[k].pc = "signal" /\ cmd[k].left # <<>>
    /\ LET id == Head(cmd[k].left) IN
       \/ /\ SameIdentity(id)
          /\ Wakes(id.pid)
          /\ sent' = sent \cup {[who |-> process_identity(id.pid), ours |-> proc[id.pid].ours]}
          /\ cmd' = [cmd EXCEPT ![k].left = Tail(cmd[k].left)]
       \/ /\ ~SameIdentity(id)
          /\ Ends(k, "may be frozen")
          /\ UNCHANGED <<proc, sent, crossed>>
    /\ UNCHANGED <<files, bundle, spent, dest>>

Resumed(k) ==
    /\ cmd[k].pc = "signal" /\ cmd[k].left = <<>>
    /\ Ends(k, "resumed")
    /\ UNCHANGED <<proc, files, bundle, sent, crossed, spent, dest>>

(* The command itself is killed: whatever is stopped stays stopped, and    *)
(* the directory being filled never becomes a bundle.                      *)
Interrupted(k) ==
    /\ Running(k)
    /\ Ends(k, "killed")
    /\ UNCHANGED <<proc, files, bundle, sent, crossed, spent, dest>>

-----------------------------------------------------------------------------
(* The source machine around the commands.                                 *)

(* A running process of the application changes a file of the workspace.   *)
Write ==
    /\ files < MaxWrites
    /\ \E p \in Pids : proc[p].ours /\ proc[p].state = "run"
    /\ files' = files + 1
    /\ UNCHANGED <<proc, cmd, bundle, sent, crossed, spent, dest>>

(* The running root starts a child, or reaps a dead one.                   *)
Fork(p) ==
    /\ proc[Root].ours /\ proc[Root].state = "run"
    /\ p \in Others /\ proc[p].state = "none" /\ proc[p].start_ticks < MaxBirths
    /\ proc' = [proc EXCEPT ![p] = [start_ticks |-> proc[p].start_ticks + 1,
                                    state |-> "run", ours |-> TRUE]]
    /\ UNCHANGED <<files, cmd, bundle, sent, crossed, spent, dest>>

Reap(p) ==
    /\ p \in Others /\ proc[p].state = "dead" /\ proc[p].ours
    /\ proc[Root].state \in {"run", "none"} \/ ~proc[Root].ours
    /\ proc' = [proc EXCEPT ![p].state = "none"]
    /\ UNCHANGED <<files, cmd, bundle, sent, crossed, spent, dest>>

(* A process is killed; a child of a parent that is stopped stays behind   *)
(* dead until the parent runs.                                             *)
Kill(p) ==
    /\ spent.kills < MaxKills
    /\ proc[p].ours /\ proc[p].state \in {"run", "stop"}
    /\ proc' = [proc EXCEPT ![p].state =
                   IF p \in Others /\ proc[Root].ours /\ proc[Root].state = "stop"
                   THEN "dead" ELSE "none"]
    /\ spent' = [spent EXCEPT !.kills = @ + 1]
    /\ UNCHANGED <<files, cmd, bundle, sent, crossed, dest>>

(* Another program gets a PID that has become free.                        *)
Reuse(p) ==
    /\ proc[p].state = "none" /\ proc[p].start_ticks < MaxBirths
    /\ proc[p].start_ticks > 0
    /\ \E s \in {"run", "stop"} :
          proc' = [proc EXCEPT ![p] = [start_ticks |-> proc[p].start_ticks + 1,
                                       state |-> s, ours |-> FALSE]]
    /\ UNCHANGED <<files, cmd, bundle, sent, crossed, spent, dest>>

(* Somebody else continues a process of the application.                   *)
OutsideContinue(p) ==
    /\ spent.signals < MaxSignals
    /\ proc[p].ours /\ process_is_stopped(p)
    /\ Wakes(p)
    /\ spent' = [spent EXCEPT !.signals = @ + 1]
    /\ UNCHANGED <<files, cmd, bundle, sent, dest>>

-----------------------------------------------------------------------------
(* The destination.                                                        *)

(* A bundle is copied to the destination, or a copy of it with another     *)
(* file in the workspace or an image missing.                              *)
Damaged(b) == {[b EXCEPT !.ws = @ + 1], [b EXCEPT !.image = NoImage]}

Carry(k) ==
    /\ Published(k) /\ dest.pc = "waiting"
    /\ \E copy \in {bundle[k]} \cup Damaged(bundle[k]) :
          dest' = [dest EXCEPT !.copy = copy]
    /\ UNCHANGED <<proc, files, cmd, bundle, sent, crossed, spent>>

(* Another program makes a directory where the workspace must go.  Before  *)
(* the preflight it would only make that refuse.                           *)
Appears ==
    /\ dest.pc = "staged" /\ dest.dir = Nothing
    /\ dest' = [dest EXCEPT !.dir = Foreign]
    /\ UNCHANGED <<proc, files, cmd, bundle, sent, crossed, spent>>

Absent == dest.dir = Nothing

(* The first part of restore: the bundle is whole, the host will do, and   *)
(* nothing is at the workspace's path.                                     *)
plan == verify_bundle(dest.copy) /\ compare_hosts(SourceHost, dest.host)

Preflight ==
    /\ dest.pc = "waiting"
    /\ plan /\ Absent
    /\ dest' = [dest EXCEPT !.pc = "staged"]
    /\ UNCHANGED <<proc, files, cmd, bundle, sent, crossed, spent>>

(* The staged copy is renamed into place, unless something is there by     *)
(* now.                                                                    *)
rename_noreplace == dest.dir = Nothing

Install ==
    /\ dest.pc = "staged"
    /\ \/ /\ rename_noreplace
          /\ dest' = [dest EXCEPT !.dir = dest.copy.ws, !.pc = "installed"]
       \/ /\ ~rename_noreplace
          /\ dest' = [dest EXCEPT !.pc = "waiting"]
    /\ UNCHANGED <<proc, files, cmd, bundle, sent, crossed, spent>>

(* A failure before CRIU is asked takes the workspace away again.          *)
InstallFails ==
    /\ dest.pc = "installed"
    /\ dest' = [dest EXCEPT !.dir = Nothing, !.pc = "waiting"]
    /\ UNCHANGED <<proc, files, cmd, bundle, sent, crossed, spent>>

CriuRestores ==
    /\ dest.pc = "installed"
    /\ dest' = [dest EXCEPT !.image = dest.copy.image, !.pc = "waiting"]
    /\ UNCHANGED <<proc, files, cmd, bundle, sent, crossed, spent>>

(* CRIU failed or was killed at the timeout; a detached process may be     *)
(* running all the same, so the workspace stays.                           *)
Removed(d) == Nothing
LeftBehind(d) == d.dir

CriuRestoreFails ==
    /\ dest.pc = "installed"
    /\ \E image \in {dest.image, dest.copy.image} :
          dest' = [dest EXCEPT !.image = image, !.dir = LeftBehind(dest),
                               !.pc = "waiting"]
    /\ UNCHANGED <<proc, files, cmd, bundle, sent, crossed, spent>>

-----------------------------------------------------------------------------
Step(k) == \/ DumpSucceeds(k) \/ DumpFails(k)
           \/ CheckRoot(k) \/ CollectTree(k)
           \/ Publish(k) \/ PublishFails(k)
           \/ Recover(k)
           \/ VerifyTree(k) \/ SignalNext(k) \/ Resumed(k)

Next == \/ \E k \in Commands : CaptureStart(k)
        \/ \E k, b \in Commands : ResumeStart(k, b)
        \/ \E k \in Commands : Step(k)
        \/ \E k \in Commands : Interrupted(k)
        \/ Write
        \/ \E p \in Pids : Fork(p)
        \/ \E p \in Pids : Reap(p)
        \/ \E p \in Pids : Kill(p)
        \/ \E p \in Pids : Reuse(p)
        \/ \E p \in Pids : OutsideContinue(p)
        \/ \E k \in Commands : Carry(k)
        \/ Appears \/ Preflight \/ Install \/ InstallFails \/ CriuRestores \/ CriuRestoreFails

Spec == Init /\ [][Next]_vars

-----------------------------------------------------------------------------
(* Every variable has its type.                                            *)
Words == {"nothing", "published", "resumed", "may be frozen", "not stopped",
          "unavailable", "killed"}
TypeOK ==
    /\ proc \in [Pids -> Process]
    /\ files \in 0..MaxWrites
    /\ \A k \in Commands :
          /\ cmd[k].pc \in {"waiting", "dump", "dumped", "collect", "copy",
                            "recover", "verify", "signal", "ended"}
          /\ cmd[k].said \in Words
          /\ ToSet(cmd[k].left) \subseteq ToSet(cmd[k].tree)
          /\ ToSet(cmd[k].tree) \subseteq Identity
          /\ Published(k) => bundle[k].tree # <<>> /\ bundle[k].tree[1].pid = Root
    /\ crossed \subseteq Commands
    /\ dest.dir \in -2..MaxWrites

(* The workspace in a bundle is the one the frozen processes had: nothing  *)
(* wrote to it between the dump and the end of the copy, whoever continued *)
(* them before the copy began (capture).  The exception is a capture that  *)
(* was crossed: that cannot be noticed.                                    *)
CopiedWhileStopped ==
    \A k \in Commands \ crossed : Published(k) => bundle[k].ws = bundle[k].image.at

(* Abra never continues a process that is not of the captured application, *)
(* whatever has become of the PIDs it recorded.                            *)
NeverAStranger == \A s \in sent : s.ours

(* A command that says it resumed the source left none of the processes it *)
(* recorded stopped (resume_verified_tree), unless another command froze   *)
(* them again while it did.                                                *)
SaysResumed ==
    [][\A k \in Commands \ crossed :
          cmd'[k].said = "resumed" /\ cmd[k].said # "resumed" =>
              \A id \in ToSet(cmd[k].tree) : ~(Exists(id) /\ process_is_stopped(id.pid))]_vars

(* Processes restored on the destination find the workspace that was       *)
(* published with them (restore), on a host with the CPU they were using;  *)
(* it is the one they were frozen with if their capture was not crossed.   *)
RestoredHasItsFiles ==
    dest.image # NoImage =>
        /\ Features \subseteq dest.host.cpu
        /\ \E k \in Commands :
              /\ Published(k) /\ bundle[k].image = dest.image
              /\ bundle[k].ws = dest.dir
              /\ k \notin crossed => dest.dir = dest.image.at
=============================================================================
