---------------------------- MODULE Firecracker ----------------------------
(***************************************************************************)
(* The slots of `abra-fc` (adapters/firecracker/src/fc.rs).  Every slot    *)
(* has a directory with the disk its microVM runs on and state.json, which *)
(* names the process; the host has a TAP per slot and one NAT rule for     *)
(* all.  `up`, `snapshot`, `restore` and `down` are processes of their own *)
(* that read and write these without a lock, those of different slots at   *)
(* the same time.                                                          *)
(*                                                                         *)
(* Firecracker is external: a process that listens on the slot's API       *)
(* socket if nothing else does, boots or loads a guest once, and then      *)
(* pauses, resumes and dies.  A guest's memory and a disk are each the     *)
(* number of the last write they have seen.  The reuse of PIDs, a second   *)
(* command on a busy slot and the contents of images are left out.         *)
(***************************************************************************)
EXTENDS Integers, FiniteSets

CONSTANTS
  Slots,
  MaxVms,     \* bound: firecracker processes
  MaxWrites,  \* bound: writes by guests
  MaxFaults   \* bound: failing steps, dying guests, killed commands

ASSUME FirecrackerAssumption ==
  /\ MaxVms \in Nat /\ MaxWrites \in Nat /\ MaxFaults \in Nat

VARIABLES
  vm,       \* vm[i]: the i-th firecracker process
  record,   \* record[s]: the process state.json names, Unreadable or None
  socket,   \* socket[s]: the process that made the API socket, or None
  tap,      \* the slots whose TAP exists
  nat,      \* is the MASQUERADE rule there?
  idle,     \* idle[s]: the slots whose state.json the down of s has found to run nothing
  disk,     \* disk[s]: what rootfs.ext4 holds
  cmd,      \* cmd[s]: the command on slot s
  natives,  \* the memory and disk of the native snapshots attached so far
  started,  \* firecracker processes so far
  written,  \* writes so far
  faults,   \* faults so far
  strays,   \* history: slots where a killed command left a process unrecorded
  cut       \* history: slots found to run nothing by the down that last removed the rule

host == <<tap, nat, idle, cut>>
vars == <<vm, record, socket, host, disk, cmd, natives, started, written, faults, strays>>

None       == 0
Unreadable == -1
Vms        == 1 .. MaxVms
Live(i)    == i \in Vms /\ vm[i].state \in {"blank", "up", "paused"}
Guest(i)   == i \in Vms /\ vm[i].state \in {"up", "paused"}

\* The command at work, the process it started, the images it made or loads,
\* and whether a portable restore is possible.
Idle == [op |-> "none", step |-> "none", vm |-> None, memory |-> 0, disk |-> 0,
         portable |-> FALSE]
\* The native images of a snapshot: the roles whose objects are in the store,
\* whole, and the host they were captured on.
Roles  == {"vmstate", "memory", "disk"}
Images == [memory : 0 .. MaxWrites, disk : 0 .. MaxWrites, roles : SUBSET Roles,
           fingerprint : {"this host", "another host"}]
NoImages == [memory |-> 0, disk |-> 0, roles |-> {}, fingerprint |-> "this host"]

\* Snapshots that came from elsewhere: without native images, with those of
\* another host, and with one of the three objects missing.
Received == {NoImages, [NoImages EXCEPT !.roles = Roles, !.fingerprint = "another host"],
             [NoImages EXCEPT !.roles = {"vmstate", "disk"}]}

\* plan_native, then plan_restore: every role from a host like this one, or the
\* portable tree, or nothing.
Eligible(n) == n.fingerprint = "this host" /\ n.roles = Roles
plan_restore(n, portable) ==
  IF Eligible(n) THEN "native" ELSE IF portable THEN "portable" ELSE "unavailable"

TypeOK ==
  /\ \A i \in Vms : /\ vm[i].state \in {"none", "blank", "up", "paused", "dead"}
                    /\ vm[i].memory \in 0 .. written
  /\ record \in [Slots -> Vms \cup {None, Unreadable}]
  /\ socket \in [Slots -> Vms \cup {None}]
  /\ tap \subseteq Slots /\ nat \in BOOLEAN /\ cut \subseteq Slots
  /\ idle \in [Slots -> SUBSET Slots]
  /\ disk \in [Slots -> 0 .. MaxWrites]
  /\ natives \subseteq Images

Init ==
  /\ vm = [i \in Vms |-> [slot |-> None, state |-> "none", memory |-> 0, left |-> FALSE]]
  /\ record = [s \in Slots |-> None] /\ socket = [s \in Slots |-> None]
  /\ tap = {} /\ nat = FALSE /\ idle = [s \in Slots |-> {}] /\ cut = {} /\ disk = [s \in Slots |-> 0]
  /\ cmd = [s \in Slots |-> Idle]
  /\ natives = Received /\ started = 0 /\ written = 0 /\ faults = 0 /\ strays = {}

----------------------------------------------------------------------------
At(s, step)  == cmd[s].step = step
Goes(s, step) == cmd' = [cmd EXCEPT ![s].step = step]
Ends(s)      == cmd' = [cmd EXCEPT ![s] = Idle]
Fault        == faults < MaxFaults /\ faults' = faults + 1
Dead(i)      == [vm EXCEPT ![i] = [slot |-> None, state |-> "dead", memory |-> 0, left |-> FALSE]]

Begins(s, command) ==
  /\ cmd[s] = Idle
  /\ cmd' = [cmd EXCEPT ![s] = command]

Up(s) ==
  /\ Begins(s, [Idle EXCEPT !.op = "up", !.step = "down"])
  /\ UNCHANGED <<vm, record, socket, host, disk, natives, started, written, faults, strays>>

Down(s) ==
  /\ Begins(s, [Idle EXCEPT !.op = "down", !.step = "down"])
  /\ UNCHANGED <<vm, record, socket, host, disk, natives, started, written, faults, strays>>

\* ensure_running, and the portable capture inside the guest.
Snapshot(s) ==
  /\ record[s] \in Vms /\ vm[record[s]].state = "up" /\ s \in tap
  /\ Begins(s, [Idle EXCEPT !.op = "snapshot", !.step = "pause"])
  /\ UNCHANGED <<vm, record, socket, host, disk, natives, started, written, faults, strays>>

\* What a portable restore needs is looked at later.  Without an SSH key the
\* native plan ends the command here.
Restore(s, n, portable) ==
  LET mode == plan_restore(n, portable) IN
  /\ mode # "unavailable"
  /\ Begins(s, IF mode = "native"
                THEN [op |-> "native", step |-> "down", vm |-> None, memory |-> n.memory,
                      disk |-> n.disk, portable |-> portable]
                ELSE [Idle EXCEPT !.op = "portable", !.step = "resolve"])
  /\ UNCHANGED <<vm, record, socket, host, disk, natives, started, written, faults, strays>>

\* resolve_restore_config: without a kernel, a base image and a key there is no
\* portable restore, whatever the native attempt before it has done.
Resolve(s) ==
  /\ At(s, "resolve")
  /\ \/ Goes(s, "down") /\ UNCHANGED faults
     \/ Fault /\ Ends(s)
  /\ UNCHANGED <<vm, record, socket, host, disk, natives, started, written, strays>>

----------------------------------------------------------------------------
(* down, which every command but snapshot begins with.                     *)

\* The recorded process is killed if it is still that process; its TAP and
\* socket go.  Without a readable state.json there is nothing to stop.
Stop(s) ==
  /\ At(s, "down")
  /\ IF record[s] \in Vms \cup {None}
     THEN /\ vm' = IF Live(record[s]) THEN Dead(record[s]) ELSE vm
          /\ tap' = IF record[s] = None THEN tap ELSE tap \ {s}
          /\ socket' = IF record[s] = None THEN socket ELSE [socket EXCEPT ![s] = None]
     ELSE UNCHANGED <<vm, tap, socket>>
  /\ Goes(s, "forget")
  /\ UNCHANGED <<record, nat, idle, cut, disk, natives, started, written, faults, strays>>

\* The slot is recorded as stopped.
Forget(s) ==
  /\ At(s, "forget")
  /\ record' = IF record[s] \in Vms THEN [record EXCEPT ![s] = None] ELSE record
  /\ Goes(s, "rule")
  /\ UNCHANGED <<vm, socket, host, disk, natives, started, written, faults, strays>>

\* What down is followed by.
Onward(s) ==
  /\ idle' = [idle EXCEPT ![s] = {}]
  /\ CASE cmd[s].op = "down"     -> Ends(s)
       [] cmd[s].op = "fallback" -> cmd' = [cmd EXCEPT ![s].op = "portable", ![s].step = "resolve"]
       [] OTHER                  -> Goes(s, "image")

\* cleanup_global_network_if_idle reads every state.json, one after the other
\* and until one names a process that runs; the rule goes when none does.
Look(s, t) ==
  /\ At(s, "rule") /\ t \notin idle[s]
  /\ IF Live(record[t])
     THEN Onward(s)
     ELSE idle' = [idle EXCEPT ![s] = @ \cup {t}] /\ UNCHANGED cmd
  /\ UNCHANGED <<vm, record, socket, tap, nat, cut, disk, natives, started, written, faults, strays>>

LooksAtItself(s) == s \in idle[s]
NoneRuns(s)      == idle[s] = Slots

Unrule(s) ==
  /\ At(s, "rule") /\ NoneRuns(s)
  /\ nat' = FALSE
  /\ cut' = idle[s]
  /\ Onward(s)
  /\ UNCHANGED <<vm, record, socket, tap, disk, natives, started, written, faults, strays>>

----------------------------------------------------------------------------
(* up, and the native attempt of restore.                                  *)

\* The base image, or the captured disk, becomes the slot's disk.
Image(s) ==
  /\ At(s, "image")
  /\ disk' = [disk EXCEPT ![s] = IF cmd[s].op = "native" THEN cmd[s].disk ELSE 0]
  /\ Goes(s, IF cmd[s].op = "up" THEN "inject" ELSE "network")
  /\ UNCHANGED <<vm, record, socket, host, natives, started, written, faults, strays>>

\* inject_token mounts the disk and unmounts it, before any guest runs on it.
Inject(s) ==
  /\ At(s, "inject")
  /\ Goes(s, "network")
  /\ UNCHANGED <<vm, record, socket, host, disk, natives, started, written, faults, strays>>

\* setup_network: a TAP and a rule that are there stay.
Network(s) ==
  /\ At(s, "network")
  /\ tap' = tap \cup {s} /\ nat' = TRUE /\ cut' = {}
  /\ Goes(s, "spawn")
  /\ UNCHANGED <<vm, record, socket, idle, disk, natives, started, written, faults, strays>>

\* spawn_firecracker.  A process that finds the socket taken dies; wait_path
\* is satisfied by the socket that is there.
Spawn(s) ==
  /\ At(s, "spawn") /\ started < MaxVms
  /\ started' = started + 1
  /\ vm' = [vm EXCEPT ![started'] =
              IF socket[s] = None
              THEN [slot |-> s, state |-> "blank", memory |-> 0, left |-> FALSE]
              ELSE [slot |-> None, state |-> "dead", memory |-> 0, left |-> FALSE]]
  /\ socket' = IF socket[s] = None THEN [socket EXCEPT ![s] = started'] ELSE socket
  /\ cmd' = [cmd EXCEPT ![s].step = "boot", ![s].vm = started']
  /\ UNCHANGED <<record, host, disk, natives, written, faults, strays>>

\* The requests that boot a guest, or load one and resume it.  They go to
\* whoever listens on the socket, who must not have a guest yet.
Boot(s) ==
  LET i == socket[s] IN
  /\ At(s, "boot") /\ i # None /\ vm[i].state = "blank"
  /\ vm' = [vm EXCEPT ![i].state = "up",
                      ![i].memory = IF cmd[s].op = "native" THEN cmd[s].memory ELSE disk[s]]
  /\ Goes(s, "record")
  /\ UNCHANGED <<record, socket, host, disk, natives, started, written, faults, strays>>

\* finish_start
Record(s) ==
  /\ At(s, "record")
  /\ record' = [record EXCEPT ![s] = cmd[s].vm]
  /\ Goes(s, "wait")
  /\ UNCHANGED <<vm, socket, host, disk, natives, started, written, faults, strays>>

\* The guest answers over SSH: Vm::keep.
Answers(s) == s \in tap /\ \E i \in Vms : vm[i].slot = s /\ vm[i].state = "up"
Ready(s) ==
  /\ At(s, "wait") /\ Answers(s)
  /\ IF cmd[s].op = "portable" THEN Goes(s, "unpack") ELSE Ends(s)
  /\ UNCHANGED <<vm, record, socket, host, disk, natives, started, written, faults, strays>>

\* Any of these steps fails.  Dropping the Vm, which there is from
\* spawn_firecracker on, kills the process this command started, and removes
\* TAP and socket; setup_network itself leaves what it has made.  A native
\* attempt is torn down and followed by a portable restore if there is one.
Kept(s) == UNCHANGED <<vm, tap, socket>>
Dropped(s) ==
  /\ vm' = IF Live(cmd[s].vm) THEN Dead(cmd[s].vm) ELSE vm
  /\ tap' = tap \ {s}
  /\ socket' = [socket EXCEPT ![s] = None]

StartFails(s) ==
  /\ Fault
  /\ \/ cmd[s].step \in {"image", "inject"} /\ UNCHANGED <<vm, tap, socket>>
     \/ At(s, "network") /\ tap' \in {tap, tap \cup {s}} /\ UNCHANGED <<vm, socket>>
     \/ cmd[s].step \in {"spawn", "boot", "record", "wait"} /\ Dropped(s)
  /\ IF cmd[s].op # "native" THEN Ends(s)
     ELSE cmd' = [cmd EXCEPT ![s] = [Idle EXCEPT
                    !.op = IF cmd[s].portable THEN "fallback" ELSE "down", !.step = "down"]]
  /\ UNCHANGED <<record, nat, idle, cut, disk, natives, started, written, strays>>

\* restore_workspace: the guest replaces its workspace by the archive.
Unpack(s) ==
  /\ At(s, "unpack")
  /\ \/ /\ written < MaxWrites /\ written' = written + 1
        /\ \E i \in Vms :
             /\ vm[i].slot = s /\ vm[i].state = "up"
             /\ vm' = [vm EXCEPT ![i].memory = written']
        /\ disk' = [disk EXCEPT ![s] = written']
        /\ UNCHANGED faults
     \/ Fault /\ UNCHANGED <<vm, disk, written>>
  /\ Ends(s)
  /\ UNCHANGED <<record, socket, host, natives, started, strays>>

----------------------------------------------------------------------------
(* snapshot, with the guest paused and after.                              *)

\* A failed request leaves the guest as it was, or as it was asked to be.
Pause(s) ==
  LET i == socket[s] IN
  /\ At(s, "pause")
  /\ \/ /\ Guest(i) /\ vm' = [vm EXCEPT ![i].state = "paused"]
        /\ Goes(s, "create") /\ UNCHANGED faults
     \/ /\ Fault /\ Ends(s)
        /\ \/ UNCHANGED vm
           \/ Guest(i) /\ vm' = [vm EXCEPT ![i].state = "paused", ![i].left = TRUE]
  /\ UNCHANGED <<record, socket, host, disk, natives, started, written, strays>>

Create(s) ==
  LET i == socket[s] IN
  /\ At(s, "create")
  /\ \/ /\ Guest(i) /\ vm[i].state = "paused"
        /\ cmd' = [cmd EXCEPT ![s].step = "copy", ![s].memory = vm[i].memory]
        /\ UNCHANGED faults
     \/ Fault /\ cmd' = [cmd EXCEPT ![s].step = "give up"]
  /\ UNCHANGED <<vm, record, socket, host, disk, natives, started, written, strays>>

\* The live disk is copied while the guest is paused, whatever comes of it.
Copy(s) ==
  /\ At(s, "copy")
  /\ \/ /\ cmd' = [cmd EXCEPT ![s].step = "resume", ![s].disk = disk[s]]
        /\ UNCHANGED faults
     \/ Fault /\ cmd' = [cmd EXCEPT ![s].step = "give up"]
  /\ UNCHANGED <<vm, record, socket, host, disk, natives, started, written, strays>>

\* The guest resumes whether the capture worked or not; if it does not, the
\* command only warns.
Left(s)   == vm
Thawed(s) == IF Guest(socket[s]) THEN [vm EXCEPT ![socket[s]].state = "up"] ELSE vm
AfterFailure(s) == Thawed(s)

Resume(s) ==
  LET i == socket[s] IN
  /\ cmd[s].step \in {"resume", "give up"}
  /\ \/ /\ Guest(i)
        /\ vm' = IF At(s, "give up") THEN AfterFailure(s) ELSE Thawed(s)
        /\ UNCHANGED faults
     \/ /\ Fault
        /\ vm' = IF Guest(i) THEN [vm EXCEPT ![i].left = TRUE] ELSE vm
  /\ IF At(s, "give up") THEN Ends(s) ELSE Goes(s, "attach")
  /\ UNCHANGED <<record, socket, host, disk, natives, started, written, strays>>

\* The guest sends the portable parent, and the daemon attaches the images to
\* it; or the parent does not come within 30 s, or the daemon refuses.
Taken(memory, image) ==
  [memory |-> memory, disk |-> image, roles |-> Roles, fingerprint |-> "this host"]
CopiedLate(s) == Taken(cmd[s].memory, disk[s])
Captured(s)   == Taken(cmd[s].memory, cmd[s].disk)

Attach(s) ==
  /\ At(s, "attach")
  /\ \/ natives' = natives \cup {Captured(s)} /\ UNCHANGED faults
     \/ Fault /\ UNCHANGED natives
  /\ Ends(s)
  /\ UNCHANGED <<vm, record, socket, host, disk, started, written, strays>>

----------------------------------------------------------------------------
\* A running guest writes to its disk.
Write(i) ==
  /\ vm[i].state = "up" /\ written < MaxWrites
  /\ written' = written + 1
  /\ vm' = [vm EXCEPT ![i].memory = written']
  /\ disk' = [disk EXCEPT ![vm[i].slot] = written']
  /\ UNCHANGED <<record, socket, host, cmd, natives, started, faults, strays>>

\* A guest shuts down or panics, and its process with it.
Exits(i) ==
  /\ Guest(i) /\ Fault
  /\ vm' = Dead(i)
  /\ UNCHANGED <<record, socket, host, disk, cmd, natives, started, written, strays>>

\* A command is killed: nothing is dropped.  state.json may be half written.
\* A process that no state.json names is a stray of its slot.
Killed(s) ==
  /\ cmd[s] # Idle /\ Fault
  /\ Ends(s) /\ idle' = [idle EXCEPT ![s] = {}]
  /\ record' \in IF cmd[s].step \in {"record", "forget"}
                 THEN {record, [record EXCEPT ![s] = Unreadable]} ELSE {record}
  /\ strays' = strays \cup
       {t \in {s} : \E i \in Vms : Live(i) /\ vm[i].slot = s /\ record'[s] # i}
  /\ vm' = [i \in Vms |-> IF vm[i].slot = s /\ vm[i].state = "paused"
                          THEN [vm[i] EXCEPT !.left = TRUE] ELSE vm[i]]
  /\ UNCHANGED <<socket, tap, nat, cut, disk, natives, started, written>>

Next ==
  \/ \E s \in Slots : Up(s) \/ Down(s) \/ Snapshot(s)
  \/ \E s \in Slots, n \in natives, p \in BOOLEAN : Restore(s, n, p)
  \/ \E s \in Slots : Resolve(s)
  \/ \E s \in Slots : Stop(s) \/ Forget(s) \/ Unrule(s)
  \/ \E s, t \in Slots : Look(s, t)
  \/ \E s \in Slots : Image(s) \/ Inject(s) \/ Network(s) \/ Spawn(s) \/ Boot(s) \/ Record(s) \/ Ready(s)
  \/ \E s \in Slots : StartFails(s) \/ Unpack(s)
  \/ \E s \in Slots : Pause(s) \/ Create(s) \/ Copy(s) \/ Resume(s) \/ Attach(s)
  \/ \E i \in Vms : Write(i) \/ Exits(i)
  \/ \E s \in Slots : Killed(s)

Spec == Init /\ [][Next]_vars

----------------------------------------------------------------------------
\* The memory and the disk of every native snapshot are of one moment.
OneMoment == \A n \in natives : n.memory = n.disk

\* A guest and the disk of its slot agree: no command puts another image under
\* a guest that runs, and no two guests write one disk.  This is lost on a slot
\* where a command was killed before it recorded its process, and can be lost on
\* others once a snapshot taken on such a slot is restored.
Coherent ==
  OneMoment => \A i \in Vms :
    Guest(i) /\ vm[i].slot \notin strays => vm[i].memory = disk[vm[i].slot]

\* While no slot has lost track of a process, whatever is captured is of one
\* moment.
CapturedAtOnce == strays = {} => OneMoment

\* A guest stays paused only if a request about it failed or the command that
\* paused it was killed.
RunsAgain ==
  \A i \in Vms : vm[i].state = "paused" =>
    vm[i].left \/ cmd[vm[i].slot].step \in {"create", "copy", "resume", "give up"}

\* A guest that state.json names and no command works on has its TAP, and the
\* NAT rule too, whatever other slots go through meanwhile; but for a guest that
\* was not yet recorded when the down of another slot read its state.json, and
\* has lost the rule to that down.
Reachable ==
  \A s \in Slots :
    Guest(record[s]) /\ cmd[s] = Idle /\ s \notin strays => s \in tap /\ (nat \/ s \in cut)
=============================================================================
