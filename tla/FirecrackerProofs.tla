-------------------------- MODULE FirecrackerProofs --------------------------
(* What is proved of Firecracker for every number of slots, processes,      *)
(* writes and faults.  The inductive invariant Inv says of each slot which  *)
(* process runs on it: unless a killed command has lost track of one, it is *)
(* the one its command started or the one state.json names, and none while  *)
(* the slot is made ready.  So whatever is put under a guest, read from it  *)
(* or asked of it is of that one process; that no other slot is touched     *)
(* (Apart) leaves it true of them.  NetInv adds the TAP and the NAT rule.   *)
EXTENDS Firecracker, TLAPS

(* A process that runs on a slot.                                           *)
On(i, s) == Live(i) /\ vm[i].slot = s

(* The tables are functions, and their entries records.                     *)
VmTable ==
  /\ vm = [i \in Vms |-> vm[i]]
  /\ \A i \in Vms : vm[i] = [slot |-> vm[i].slot, state |-> vm[i].state,
                             memory |-> vm[i].memory, left |-> vm[i].left]

CmdTable ==
  /\ cmd = [s \in Slots |-> cmd[s]]
  /\ \A s \in Slots :
       cmd[s] = [op |-> cmd[s].op, step |-> cmd[s].step, vm |-> cmd[s].vm,
                 memory |-> cmd[s].memory, disk |-> cmd[s].disk,
                 portable |-> cmd[s].portable]

Files ==
  /\ record = [s \in Slots |-> record[s]]
  /\ socket = [s \in Slots |-> socket[s]]
  /\ disk = [s \in Slots |-> disk[s]]

Tables == VmTable /\ CmdTable /\ Files

(* Processes are numbered as they start, and run on a slot.                 *)
Numbered ==
  /\ started \in Nat
  /\ \A i \in Vms : i > started => vm[i].state = "none"
  /\ \A i \in Vms : Live(i) => vm[i].slot \in Slots

(* What a slot names is a process started, and one of the slot if it lives. *)
Names(s) ==
  /\ record[s] \in Int /\ record[s] <= started
  /\ socket[s] \in Vms \cup {None} /\ socket[s] <= started
  /\ cmd[s].vm \in Int /\ cmd[s].vm <= started
  /\ Live(record[s]) => On(record[s], s)
  /\ Live(socket[s]) => On(socket[s], s)
  /\ Live(cmd[s].vm) => On(cmd[s].vm, s)

Cleared  == {"forget", "rule", "image", "inject", "network", "spawn"}
Starting == {"boot", "record"}
Capturing == {"create", "copy", "resume", "give up"}

(* The process that runs on a slot is the one its command started, or the   *)
(* one state.json names; while a slot is made ready there is none.          *)
Known(s) ==
  s \notin strays => \A i \in Vms : On(i, s) =>
    /\ cmd[s].step \notin Cleared
    /\ cmd[s].step \in Starting => i = cmd[s].vm
    /\ cmd[s].step \notin Starting => i = record[s]
    /\ cmd[s].step = "boot" => vm[i].state = "blank"
    /\ cmd[s].step \in {"create", "copy"} => vm[i].state # "up"

(* A guest left paused by nobody's fault is the one behind the socket of a  *)
(* slot that is being captured.                                             *)
Frozen(s) ==
  \A i \in Vms : On(i, s) /\ vm[i].state = "paused" =>
    vm[i].left \/ (cmd[s].step \in Capturing /\ socket[s] = i)

(* The images a command holds go together, and with the disk once that is   *)
(* theirs, or while it is to be copied.                                     *)
ImagesFit(s) ==
  OneMoment /\ s \notin strays =>
    /\ cmd[s].op = "native" /\ cmd[s].step \in {"down", "forget", "rule", "image"} =>
         cmd[s].memory = cmd[s].disk
    /\ cmd[s].op = "native" /\ cmd[s].step \in {"network", "spawn", "boot"} =>
         cmd[s].memory = disk[s]
    /\ cmd[s].step = "copy" => cmd[s].memory = disk[s]
    /\ cmd[s].step \in {"resume", "attach"} => cmd[s].memory = cmd[s].disk

Agrees(s) ==
  OneMoment /\ s \notin strays =>
    \A i \in Vms : On(i, s) /\ Guest(i) => vm[i].memory = disk[s]

(* A slot without a command has nothing else in its entry, and only a       *)
(* portable restore looks for its configuration.                            *)
Rests(s) ==
  /\ cmd[s].step = "none" => cmd[s] = Idle
  /\ cmd[s].step = "resolve" => cmd[s].op = "portable"
  /\ cmd[s].step = "inject" => cmd[s].op = "up"

SlotInv(s) == Names(s) /\ Known(s) /\ Frozen(s) /\ ImagesFit(s) /\ Agrees(s) /\ Rests(s)

Inv == Tables /\ Numbered /\ CapturedAtOnce /\ \A s \in Slots : SlotInv(s)

(* What a step of slot s leaves alone of the others.                        *)
Apart(s) ==
  /\ started \in Nat /\ started' \in Nat /\ started <= started'
  /\ \A i \in Vms :
       \/ vm'[i] = vm[i]
       \/ (Live(i) => vm[i].slot = s) /\ (Live(i)' => vm'[i].slot = s)
  /\ \A i \in Vms : i <= started /\ Live(i)' => Live(i)
  /\ \A t \in Slots \ {s} :
       /\ record'[t] = record[t] /\ socket'[t] = socket[t] /\ disk'[t] = disk[t]
       /\ cmd'[t] = cmd[t] /\ (t \in strays <=> t \in strays')
  /\ natives \subseteq natives'

-----------------------------------------------------------------------------
(* Lemmas about the tables.                                                 *)

(* A command goes to its next step.                                         *)
LEMMA GoesOn ==
    ASSUME CmdTable, NEW s \in Slots, NEW step, Goes(s, step)
    PROVE  /\ CmdTable'
           /\ \A t \in Slots \ {s} : cmd'[t] = cmd[t]
           /\ cmd'[s].op = cmd[s].op /\ cmd'[s].step = step /\ cmd'[s].vm = cmd[s].vm
           /\ cmd'[s].memory = cmd[s].memory /\ cmd'[s].disk = cmd[s].disk
  <1>1. cmd[s] = [op |-> cmd[s].op, step |-> cmd[s].step, vm |-> cmd[s].vm,
                  memory |-> cmd[s].memory, disk |-> cmd[s].disk,
                  portable |-> cmd[s].portable]
    BY DEF CmdTable
  <1>2. cmd' = [t \in Slots |-> IF t = s THEN [cmd[s] EXCEPT !.step = step] ELSE cmd[t]]
    BY DEF Goes, CmdTable
  <1>3. [cmd[s] EXCEPT !.step = step] =
          [op |-> cmd[s].op, step |-> step, vm |-> cmd[s].vm, memory |-> cmd[s].memory,
           disk |-> cmd[s].disk, portable |-> cmd[s].portable]
    BY <1>1
  <1>4. cmd'[s] = [op |-> cmd[s].op, step |-> step, vm |-> cmd[s].vm,
                   memory |-> cmd[s].memory, disk |-> cmd[s].disk,
                   portable |-> cmd[s].portable]
    BY <1>2, <1>3
  <1>5. \A t \in Slots \ {s} : cmd'[t] = cmd[t] BY <1>2
  <1>6. cmd' = [t \in Slots |-> cmd'[t]] BY <1>2
  <1>7. \A t \in Slots :
          cmd'[t] = [op |-> cmd'[t].op, step |-> cmd'[t].step, vm |-> cmd'[t].vm,
                     memory |-> cmd'[t].memory, disk |-> cmd'[t].disk,
                     portable |-> cmd'[t].portable]
    BY <1>4, <1>5 DEF CmdTable
  <1> QED BY <1>4, <1>5, <1>6, <1>7 DEF CmdTable

(* How an entry of each table is replaced or changed.                       *)
Entry(o, e, v, m, d, p) ==
  [op |-> o, step |-> e, vm |-> v, memory |-> m, disk |-> d, portable |-> p]
Enters(s, o, e, v, m, d, p) == cmd' = [cmd EXCEPT ![s] = Entry(o, e, v, m, d, p)]
Puts(i, slot, st, m, l) ==
  vm' = [vm EXCEPT ![i] = [slot |-> slot, state |-> st, memory |-> m, left |-> l]]
TurnsTo(i, st) == vm' = [vm EXCEPT ![i].state = st]
Sees(i, m)     == vm' = [vm EXCEPT ![i].memory = m]
Marks(i, l)    == vm' = [vm EXCEPT ![i].left = l]
Loads(i, x, y) == vm' = [vm EXCEPT ![i].state = x, ![i].memory = y]
Halts(i, x, y) == vm' = [vm EXCEPT ![i].state = x, ![i].left = y]

(* The entry of one slot is replaced by a record.                           *)
LEMMA Replaces ==
    ASSUME CmdTable, NEW s \in Slots, NEW o, NEW e, NEW v, NEW m, NEW d, NEW p,
           Enters(s, o, e, v, m, d, p)
    PROVE  /\ CmdTable' /\ \A t \in Slots \ {s} : cmd'[t] = cmd[t]
           /\ cmd'[s] = Entry(o, e, v, m, d, p)
  <1>1. cmd' = [t \in Slots |-> IF t = s THEN Entry(o, e, v, m, d, p) ELSE cmd[t]]
    BY DEF CmdTable, Enters
  <1>2. /\ cmd'[s] = Entry(o, e, v, m, d, p)
        /\ \A t \in Slots \ {s} : cmd'[t] = cmd[t]
        /\ cmd' = [t \in Slots |-> cmd'[t]]
    BY <1>1
  <1>3. \A t \in Slots :
          cmd'[t] = [op |-> cmd'[t].op, step |-> cmd'[t].step, vm |-> cmd'[t].vm,
                     memory |-> cmd'[t].memory, disk |-> cmd'[t].disk,
                     portable |-> cmd'[t].portable]
    BY <1>2 DEF CmdTable, Entry
  <1> QED BY <1>2, <1>3 DEF CmdTable

(* A command that ends leaves its slot idle.                                *)
LEMMA IdleAgain ==
    ASSUME CmdTable, NEW s \in Slots, Ends(s)
    PROVE  /\ CmdTable' /\ cmd'[s] = Idle /\ \A t \in Slots \ {s} : cmd'[t] = cmd[t]
  <1> DEFINE no == FALSE
  <1>1. Enters(s, "none", "none", None, 0, 0, no) BY DEF Enters, Ends, Idle, Entry
  <1>2. Entry("none", "none", None, 0, 0, no) = Idle BY DEF Idle, Entry
  <1> HIDE DEF no
  <1> QED BY <1>1, <1>2, Replaces

(* The changes of two fields of a command's entry.                          *)
SetsOpAndStep(s, x, y) == cmd' = [cmd EXCEPT ![s].op = x, ![s].step = y]
SetsStepAndVm(s, x, y) == cmd' = [cmd EXCEPT ![s].step = x, ![s].vm = y]
SetsStepAndMemory(s, x, y) == cmd' = [cmd EXCEPT ![s].step = x, ![s].memory = y]
SetsStepAndDisk(s, x, y) == cmd' = [cmd EXCEPT ![s].step = x, ![s].disk = y]

(* The op and the step of a command change.                                 *)
LEMMA OpAndStep ==
    ASSUME CmdTable, NEW s \in Slots, NEW x, NEW y, SetsOpAndStep(s, x, y)
    PROVE  /\ CmdTable' /\ \A t \in Slots \ {s} : cmd'[t] = cmd[t]
           /\ cmd'[s] = Entry(x, y, cmd[s].vm, cmd[s].memory, cmd[s].disk, cmd[s].portable)
  <1>1. cmd[s] = Entry(cmd[s].op, cmd[s].step, cmd[s].vm, cmd[s].memory, cmd[s].disk,
                       cmd[s].portable)
    BY DEF CmdTable, Entry
  <1>2. cmd' = [cmd EXCEPT ![s] = [cmd[s] EXCEPT !.op = x, !.step = y]]
    BY DEF CmdTable, SetsOpAndStep
  <1>3. [cmd[s] EXCEPT !.op = x, !.step = y] =
          Entry(x, y, cmd[s].vm, cmd[s].memory, cmd[s].disk, cmd[s].portable)
    <2> DEFINE r1 == [cmd[s] EXCEPT !.op = x]
    <2>1. [cmd[s] EXCEPT !.op = x, !.step = y] = [r1 EXCEPT !.step = y] OBVIOUS
    <2>2. r1 = Entry(x, cmd[s].step, cmd[s].vm, cmd[s].memory, cmd[s].disk,
                     cmd[s].portable) BY <1>1 DEF Entry
    <2> HIDE DEF r1
    <2>3. [r1 EXCEPT !.step = y] = Entry(x, y, cmd[s].vm, cmd[s].memory, cmd[s].disk,
                                         cmd[s].portable)
      BY <2>2 DEF Entry
    <2> QED BY <2>1, <2>3
  <1>4. Enters(s, x, y, cmd[s].vm, cmd[s].memory, cmd[s].disk, cmd[s].portable)
    BY <1>2, <1>3 DEF Enters
  <1> QED BY <1>4, Replaces

(* The step and the process of a command change.                            *)
LEMMA StepAndVm ==
    ASSUME CmdTable, NEW s \in Slots, NEW x, NEW y, SetsStepAndVm(s, x, y)
    PROVE  /\ CmdTable' /\ \A t \in Slots \ {s} : cmd'[t] = cmd[t]
           /\ cmd'[s] = Entry(cmd[s].op, x, y, cmd[s].memory, cmd[s].disk, cmd[s].portable)
  <1>1. cmd[s] = Entry(cmd[s].op, cmd[s].step, cmd[s].vm, cmd[s].memory, cmd[s].disk,
                       cmd[s].portable)
    BY DEF CmdTable, Entry
  <1>2. cmd' = [cmd EXCEPT ![s] = [cmd[s] EXCEPT !.step = x, !.vm = y]]
    BY DEF CmdTable, SetsStepAndVm
  <1>3. [cmd[s] EXCEPT !.step = x, !.vm = y] =
          Entry(cmd[s].op, x, y, cmd[s].memory, cmd[s].disk, cmd[s].portable)
    <2> DEFINE r1 == [cmd[s] EXCEPT !.step = x]
    <2>1. [cmd[s] EXCEPT !.step = x, !.vm = y] = [r1 EXCEPT !.vm = y] OBVIOUS
    <2>2. r1 = Entry(cmd[s].op, x, cmd[s].vm, cmd[s].memory, cmd[s].disk,
                     cmd[s].portable) BY <1>1 DEF Entry
    <2> HIDE DEF r1
    <2>3. [r1 EXCEPT !.vm = y] = Entry(cmd[s].op, x, y, cmd[s].memory, cmd[s].disk,
                                       cmd[s].portable)
      BY <2>2 DEF Entry
    <2> QED BY <2>1, <2>3
  <1>4. Enters(s, cmd[s].op, x, y, cmd[s].memory, cmd[s].disk, cmd[s].portable)
    BY <1>2, <1>3 DEF Enters
  <1> QED BY <1>4, Replaces

(* The step and the memory image of a command change.                       *)
LEMMA StepAndMemory ==
    ASSUME CmdTable, NEW s \in Slots, NEW x, NEW y, SetsStepAndMemory(s, x, y)
    PROVE  /\ CmdTable' /\ \A t \in Slots \ {s} : cmd'[t] = cmd[t]
           /\ cmd'[s] = Entry(cmd[s].op, x, cmd[s].vm, y, cmd[s].disk, cmd[s].portable)
  <1>1. cmd[s] = Entry(cmd[s].op, cmd[s].step, cmd[s].vm, cmd[s].memory, cmd[s].disk,
                       cmd[s].portable)
    BY DEF CmdTable, Entry
  <1>2. cmd' = [cmd EXCEPT ![s] = [cmd[s] EXCEPT !.step = x, !.memory = y]]
    BY DEF CmdTable, SetsStepAndMemory
  <1>3. [cmd[s] EXCEPT !.step = x, !.memory = y] =
          Entry(cmd[s].op, x, cmd[s].vm, y, cmd[s].disk, cmd[s].portable)
    <2> DEFINE r1 == [cmd[s] EXCEPT !.step = x]
    <2>1. [cmd[s] EXCEPT !.step = x, !.memory = y] = [r1 EXCEPT !.memory = y] OBVIOUS
    <2>2. r1 = Entry(cmd[s].op, x, cmd[s].vm, cmd[s].memory, cmd[s].disk,
                     cmd[s].portable) BY <1>1 DEF Entry
    <2> HIDE DEF r1
    <2>3. [r1 EXCEPT !.memory = y] = Entry(cmd[s].op, x, cmd[s].vm, y, cmd[s].disk,
                                           cmd[s].portable)
      BY <2>2 DEF Entry
    <2> QED BY <2>1, <2>3
  <1>4. Enters(s, cmd[s].op, x, cmd[s].vm, y, cmd[s].disk, cmd[s].portable)
    BY <1>2, <1>3 DEF Enters
  <1> QED BY <1>4, Replaces

(* The step and the disk image of a command change.                         *)
LEMMA StepAndDisk ==
    ASSUME CmdTable, NEW s \in Slots, NEW x, NEW y, SetsStepAndDisk(s, x, y)
    PROVE  /\ CmdTable' /\ \A t \in Slots \ {s} : cmd'[t] = cmd[t]
           /\ cmd'[s] = Entry(cmd[s].op, x, cmd[s].vm, cmd[s].memory, y, cmd[s].portable)
  <1>1. cmd[s] = Entry(cmd[s].op, cmd[s].step, cmd[s].vm, cmd[s].memory, cmd[s].disk,
                       cmd[s].portable)
    BY DEF CmdTable, Entry
  <1>2. cmd' = [cmd EXCEPT ![s] = [cmd[s] EXCEPT !.step = x, !.disk = y]]
    BY DEF CmdTable, SetsStepAndDisk
  <1>3. [cmd[s] EXCEPT !.step = x, !.disk = y] =
          Entry(cmd[s].op, x, cmd[s].vm, cmd[s].memory, y, cmd[s].portable)
    <2> DEFINE r1 == [cmd[s] EXCEPT !.step = x]
    <2>1. [cmd[s] EXCEPT !.step = x, !.disk = y] = [r1 EXCEPT !.disk = y] OBVIOUS
    <2>2. r1 = Entry(cmd[s].op, x, cmd[s].vm, cmd[s].memory, cmd[s].disk,
                     cmd[s].portable) BY <1>1 DEF Entry
    <2> HIDE DEF r1
    <2>3. [r1 EXCEPT !.disk = y] = Entry(cmd[s].op, x, cmd[s].vm, cmd[s].memory, y,
                                         cmd[s].portable)
      BY <2>2 DEF Entry
    <2> QED BY <2>1, <2>3
  <1>4. Enters(s, cmd[s].op, x, cmd[s].vm, cmd[s].memory, y, cmd[s].portable)
    BY <1>2, <1>3 DEF Enters
  <1> QED BY <1>4, Replaces

(* One entry of the table of processes is replaced by a record.             *)
LEMMA Becomes ==
    ASSUME VmTable, NEW i \in Vms, NEW slot, NEW st, NEW m, NEW l,
           Puts(i, slot, st, m, l)
    PROVE  /\ VmTable'
           /\ \A j \in Vms \ {i} : vm'[j] = vm[j]
           /\ vm'[i].slot = slot /\ vm'[i].state = st /\ vm'[i].memory = m /\ vm'[i].left = l
  <1>1. vm' = [j \in Vms |-> IF j = i
                 THEN [slot |-> slot, state |-> st, memory |-> m, left |-> l] ELSE vm[j]]
    BY DEF VmTable, Puts
  <1>2. /\ vm'[i] = [slot |-> slot, state |-> st, memory |-> m, left |-> l]
        /\ \A j \in Vms \ {i} : vm'[j] = vm[j]
        /\ vm' = [j \in Vms |-> vm'[j]]
    BY <1>1
  <1>3. \A j \in Vms : vm'[j] = [slot |-> vm'[j].slot, state |-> vm'[j].state,
                                 memory |-> vm'[j].memory, left |-> vm'[j].left]
    BY <1>2 DEF VmTable
  <1> QED BY <1>2, <1>3 DEF VmTable

(* A process that dies is of no slot.                                       *)
LEMMA Dies ==
    ASSUME VmTable, NEW i \in Vms, vm' = Dead(i)
    PROVE  /\ VmTable' /\ vm'[i].state = "dead" /\ \A j \in Vms \ {i} : vm'[j] = vm[j]
  <1> DEFINE no == FALSE
  <1>1. Puts(i, None, "dead", 0, no) BY DEF Puts, Dead
  <1> HIDE DEF no
  <1> QED BY <1>1, Becomes

(* A process changes its state, its memory or its mark, and keeps its slot. *)
LEMMA StateChanges ==
    ASSUME VmTable, NEW i \in Vms, NEW st, TurnsTo(i, st)
    PROVE  /\ VmTable' /\ \A j \in Vms \ {i} : vm'[j] = vm[j]
           /\ vm'[i].slot = vm[i].slot /\ vm'[i].state = st
           /\ vm'[i].memory = vm[i].memory /\ vm'[i].left = vm[i].left
  <1>1. vm[i] = [slot |-> vm[i].slot, state |-> vm[i].state, memory |-> vm[i].memory,
                 left |-> vm[i].left]
    BY DEF VmTable
  <1>2. [vm[i] EXCEPT !.state = st] =
          [slot |-> vm[i].slot, state |-> st, memory |-> vm[i].memory, left |-> vm[i].left]
    BY <1>1
  <1>3. vm' = [vm EXCEPT ![i] = [vm[i] EXCEPT !.state = st]] BY DEF VmTable, TurnsTo
  <1>4. Puts(i, vm[i].slot, st, vm[i].memory, vm[i].left) BY <1>2, <1>3 DEF Puts
  <1> QED BY <1>4, Becomes

(* A write of the guest.                                                    *)
LEMMA MemoryChanges ==
    ASSUME VmTable, NEW i \in Vms, NEW m, Sees(i, m)
    PROVE  /\ VmTable' /\ \A j \in Vms \ {i} : vm'[j] = vm[j]
           /\ vm'[i].slot = vm[i].slot /\ vm'[i].state = vm[i].state
           /\ vm'[i].memory = m /\ vm'[i].left = vm[i].left
  <1>1. vm[i] = [slot |-> vm[i].slot, state |-> vm[i].state, memory |-> vm[i].memory,
                 left |-> vm[i].left]
    BY DEF VmTable
  <1>2. [vm[i] EXCEPT !.memory = m] =
          [slot |-> vm[i].slot, state |-> vm[i].state, memory |-> m, left |-> vm[i].left]
    BY <1>1
  <1>3. vm' = [vm EXCEPT ![i] = [vm[i] EXCEPT !.memory = m]] BY DEF VmTable, Sees
  <1>4. Puts(i, vm[i].slot, vm[i].state, m, vm[i].left) BY <1>2, <1>3 DEF Puts
  <1> QED BY <1>4, Becomes

(* A guest is marked as left paused.                                        *)
LEMMA LeftChanges ==
    ASSUME VmTable, NEW i \in Vms, NEW l, Marks(i, l)
    PROVE  /\ VmTable' /\ \A j \in Vms \ {i} : vm'[j] = vm[j]
           /\ vm'[i].slot = vm[i].slot /\ vm'[i].state = vm[i].state
           /\ vm'[i].memory = vm[i].memory /\ vm'[i].left = l
  <1>1. vm[i] = [slot |-> vm[i].slot, state |-> vm[i].state, memory |-> vm[i].memory,
                 left |-> vm[i].left]
    BY DEF VmTable
  <1>2. [vm[i] EXCEPT !.left = l] =
          [slot |-> vm[i].slot, state |-> vm[i].state, memory |-> vm[i].memory, left |-> l]
    BY <1>1
  <1>3. vm' = [vm EXCEPT ![i] = [vm[i] EXCEPT !.left = l]] BY DEF VmTable, Marks
  <1>4. Puts(i, vm[i].slot, vm[i].state, vm[i].memory, l) BY <1>2, <1>3 DEF Puts
  <1> QED BY <1>4, Becomes

(* A guest is booted or loaded: its state and its memory change.            *)
LEMMA StateAndMemory ==
    ASSUME VmTable, NEW i \in Vms, NEW x, NEW y, Loads(i, x, y)
    PROVE  /\ VmTable' /\ \A j \in Vms \ {i} : vm'[j] = vm[j]
           /\ vm'[i].slot = vm[i].slot /\ vm'[i].state = x
           /\ vm'[i].memory = y /\ vm'[i].left = vm[i].left
  <1>1. vm[i] = [slot |-> vm[i].slot, state |-> vm[i].state, memory |-> vm[i].memory,
                 left |-> vm[i].left]
    BY DEF VmTable
  <1>2. vm' = [vm EXCEPT ![i] = [vm[i] EXCEPT !.state = x, !.memory = y]] BY DEF VmTable, Loads
  <1>3. [vm[i] EXCEPT !.state = x, !.memory = y] =
          [slot |-> vm[i].slot, state |-> x, memory |-> y,
                 left |-> vm[i].left]
    <2> DEFINE r1 == [vm[i] EXCEPT !.state = x]
    <2>1. [vm[i] EXCEPT !.state = x, !.memory = y] = [r1 EXCEPT !.memory = y] OBVIOUS
    <2>2. r1 = [slot |-> vm[i].slot, state |-> x, memory |-> vm[i].memory,
                 left |-> vm[i].left]
      BY <1>1
    <2> HIDE DEF r1
    <2>3. [r1 EXCEPT !.memory = y] =
            [slot |-> vm[i].slot, state |-> x, memory |-> y,
                 left |-> vm[i].left]
      BY <2>2
    <2> QED BY <2>1, <2>3
  <1>4. Puts(i, vm[i].slot, x, y, vm[i].left) BY <1>2, <1>3 DEF Puts
  <1> QED BY <1>4, Becomes

(* A guest is paused and left so: its state and its mark change.            *)
LEMMA StateAndLeft ==
    ASSUME VmTable, NEW i \in Vms, NEW x, NEW y, Halts(i, x, y)
    PROVE  /\ VmTable' /\ \A j \in Vms \ {i} : vm'[j] = vm[j]
           /\ vm'[i].slot = vm[i].slot /\ vm'[i].state = x
           /\ vm'[i].memory = vm[i].memory /\ vm'[i].left = y
  <1>1. vm[i] = [slot |-> vm[i].slot, state |-> vm[i].state, memory |-> vm[i].memory,
                 left |-> vm[i].left]
    BY DEF VmTable
  <1>2. vm' = [vm EXCEPT ![i] = [vm[i] EXCEPT !.state = x, !.left = y]] BY DEF VmTable, Halts
  <1>3. [vm[i] EXCEPT !.state = x, !.left = y] =
          [slot |-> vm[i].slot, state |-> x, memory |-> vm[i].memory,
                 left |-> y]
    <2> DEFINE r1 == [vm[i] EXCEPT !.state = x]
    <2>1. [vm[i] EXCEPT !.state = x, !.left = y] = [r1 EXCEPT !.left = y] OBVIOUS
    <2>2. r1 = [slot |-> vm[i].slot, state |-> x, memory |-> vm[i].memory,
                 left |-> vm[i].left]
      BY <1>1
    <2> HIDE DEF r1
    <2>3. [r1 EXCEPT !.left = y] =
            [slot |-> vm[i].slot, state |-> x, memory |-> vm[i].memory,
                 left |-> y]
      BY <2>2
    <2> QED BY <2>1, <2>3
  <1>4. Puts(i, vm[i].slot, x, vm[i].memory, y) BY <1>2, <1>3 DEF Puts
  <1> QED BY <1>4, Becomes

(* One step of a slot keeps what holds of each other slot.                  *)
LEMMA Elsewhere ==
    ASSUME Inv, NEW s \in Slots, NEW t \in Slots, t # s, Apart(s)
    PROVE  SlotInv(t)'
  <1>0. SlotInv(t) BY DEF Inv
  <1>1. \A i \in Vms : On(i, t)' => On(i, t) /\ vm'[i] = vm[i]
    BY DEF Apart, On, Live
  <1>2. /\ record'[t] = record[t] /\ socket'[t] = socket[t] /\ disk'[t] = disk[t]
        /\ cmd'[t] = cmd[t] /\ (t \in strays <=> t \in strays')
    BY DEF Apart
  <1>3. OneMoment' => OneMoment BY DEF Apart, OneMoment
  <1>4. Names(t)'
    <2>1. Names(t) BY <1>0 DEF SlotInv
    <2>2. ASSUME NEW i \in Vms, i <= started, Live(i) => On(i, t)
          PROVE  Live(i)' => On(i, t)'
      BY <2>2 DEF Apart, On, Live
    <2>3. Live(record[t])' => On(record[t], t)'
      BY <1>2, <2>1, <2>2 DEF Names, Live, On
    <2>4. Live(socket[t])' => On(socket[t], t)'
      BY <1>2, <2>1, <2>2 DEF Names, Live, On
    <2>5. Live(cmd[t].vm)' => On(cmd[t].vm, t)'
      BY <1>2, <2>1, <2>2 DEF Names, Live, On
    <2>6. started \in Nat /\ started' \in Nat /\ started <= started' BY DEF Apart
    <2>7. record[t]' \in Int /\ record[t]' <= started' BY <1>2, <2>1, <2>6 DEF Names
    <2>8. socket[t]' \in Vms \cup {None} /\ socket[t]' <= started'
      BY <1>2, <2>1, <2>6 DEF Names, Vms, None
    <2>9. cmd[t].vm' \in Int /\ cmd[t].vm' <= started' BY <1>2, <2>1, <2>6 DEF Names
    <2> QED BY <2>3, <2>4, <2>5, <2>7, <2>8, <2>9 DEF Names
  <1>5. Known(t)' BY <1>0, <1>1, <1>2 DEF SlotInv, Known
  <1>6. Frozen(t)' BY <1>0, <1>1, <1>2 DEF SlotInv, Frozen
  <1>7. ImagesFit(t)' BY <1>0, <1>2, <1>3 DEF SlotInv, ImagesFit
  <1>8. Agrees(t)' BY <1>0, <1>1, <1>2, <1>3 DEF SlotInv, Agrees, Guest
  <1>9. Rests(t)' BY <1>0, <1>2 DEF SlotInv, Rests, Idle
  <1> QED BY <1>4, <1>5, <1>6, <1>7, <1>8, <1>9 DEF SlotInv

-----------------------------------------------------------------------------
(* What each step has to show of its own slot.                              *)
Fine(s) == Apart(s) /\ Tables' /\ Numbered' /\ CapturedAtOnce' /\ SlotInv(s)'

(* The rest follows for the other slots.                                    *)
LEMMA FineIsEnough ==
    ASSUME Inv, NEW s \in Slots, Fine(s)
    PROVE  Inv'
  <1>1. \A t \in Slots : t # s => SlotInv(t)' BY Elsewhere DEF Fine
  <1> QED BY <1>1 DEF Fine, Inv

(* A step that changes the entry of its command and no more of the slots.   *)
LEMMA OnlyTheCommand ==
    ASSUME Inv, NEW s \in Slots,
           UNCHANGED <<vm, record, socket, disk, natives, started, strays>>,
           CmdTable', \A t \in Slots \ {s} : cmd'[t] = cmd[t],
           cmd'[s].vm = cmd[s].vm \/ cmd'[s].vm = None,
           Known(s)', Frozen(s)', ImagesFit(s)', Rests(s)'
    PROVE  Fine(s)
  <1>1. Apart(s) BY DEF Apart, Inv, Numbered, Live
  <1>2. Tables' BY DEF Inv, Tables, VmTable, Files
  <1>3. Numbered' BY DEF Inv, Numbered, Live
  <1>4. CapturedAtOnce' BY DEF Inv, CapturedAtOnce, OneMoment
  <1>5. SlotInv(s) BY DEF Inv
  <1>6. Names(s)'
    <2>1. Names(s) BY <1>5 DEF SlotInv
    <2>2. started \in Nat BY DEF Inv, Numbered
    <2>3. cmd'[s].vm \in Int /\ cmd'[s].vm <= started' BY <2>1, <2>2 DEF Names, None
    <2>4. Live(cmd[s].vm)' => On(cmd[s].vm, s)' BY <2>1 DEF Names, None, Live, On, Vms
    <2> QED BY <2>1, <2>3, <2>4 DEF Names, Live, On
  <1>7. Agrees(s)' BY <1>5 DEF SlotInv, Agrees, OneMoment, On, Live, Guest
  <1> QED BY <1>1, <1>2, <1>3, <1>4, <1>6, <1>7 DEF Fine, SlotInv

(* A command is issued with nothing in its hands.                           *)
Issues(s, op, step) == cmd' = [cmd EXCEPT ![s] = [Idle EXCEPT !.op = op, !.step = step]]

(* It then has an op, a step and no process.                                *)
LEMMA Issued ==
    ASSUME CmdTable, NEW s \in Slots, NEW op, NEW step, Issues(s, op, step)
    PROVE  /\ CmdTable' /\ \A t \in Slots \ {s} : cmd'[t] = cmd[t]
           /\ cmd'[s].op = op /\ cmd'[s].step = step /\ cmd'[s].vm = None
  <1> DEFINE no == FALSE
  <1>1. Idle = Entry("none", "none", None, 0, 0, no) BY DEF Idle, Entry
  <1> DEFINE r == [Idle EXCEPT !.op = op, !.step = step]
  <1> HIDE DEF no
  <1>2. r = Entry(op, step, None, 0, 0, no)
    <2> DEFINE r1 == [Idle EXCEPT !.op = op]
    <2>1. r = [r1 EXCEPT !.step = step] OBVIOUS
    <2>2. r1 = Entry(op, "none", None, 0, 0, no) BY <1>1 DEF Entry
    <2> HIDE DEF r1
    <2>3. [r1 EXCEPT !.step = step] = Entry(op, step, None, 0, 0, no) BY <2>2 DEF Entry
    <2> QED BY <2>1, <2>3
  <1>3. cmd' = [cmd EXCEPT ![s] = r] BY DEF Issues
  <1> HIDE DEF r
  <1>4. Enters(s, op, step, None, 0, 0, no) BY <1>2, <1>3 DEF Enters
  <1>5. /\ CmdTable' /\ \A t \in Slots \ {s} : cmd'[t] = cmd[t]
        /\ cmd'[s] = Entry(op, step, None, 0, 0, no)
    BY <1>4, Replaces
  <1> QED BY <1>5 DEF Entry

(* A command that begins on an idle slot.                                   *)
LEMMA Begun ==
    ASSUME Inv, NEW s \in Slots, NEW op, NEW step, op # "native",
           step \in {"down", "pause"} \/ (step = "resolve" /\ op = "portable"),
           cmd[s] = Idle, Issues(s, op, step),
           UNCHANGED <<vm, record, socket, disk, natives, started, strays>>
    PROVE  Fine(s)
  <1>1. /\ CmdTable' /\ \A t \in Slots \ {s} : cmd'[t] = cmd[t]
        /\ cmd'[s].op = op /\ cmd'[s].step = step /\ cmd'[s].vm = None
    BY Issued DEF Inv, Tables
  <1>2. SlotInv(s) /\ cmd[s].step = "none" BY DEF Inv, Idle
  <1>3. Known(s)'
    BY <1>1, <1>2 DEF SlotInv, Known, On, Live, Cleared, Starting
  <1>4. Frozen(s)' BY <1>1, <1>2 DEF SlotInv, Frozen, On, Live, Capturing
  <1>5. ImagesFit(s)' BY <1>1 DEF ImagesFit
  <1>6. Rests(s)' BY <1>1 DEF Rests
  <1> QED BY <1>1, <1>3, <1>4, <1>5, <1>6, OnlyTheCommand

(* up begins.                                                               *)
LEMMA UpStep == ASSUME Inv, NEW s \in Slots, Up(s) PROVE Fine(s)
  <1>1. cmd[s] = Idle /\ Issues(s, "up", "down") BY DEF Up, Begins, Issues
  <1> QED BY <1>1, Begun DEF Up

(* down begins.                                                             *)
LEMMA DownStep == ASSUME Inv, NEW s \in Slots, Down(s) PROVE Fine(s)
  <1>1. cmd[s] = Idle /\ Issues(s, "down", "down") BY DEF Down, Begins, Issues
  <1> QED BY <1>1, Begun DEF Down

(* snapshot begins.                                                         *)
LEMMA SnapshotStep == ASSUME Inv, NEW s \in Slots, Snapshot(s) PROVE Fine(s)
  <1>1. cmd[s] = Idle /\ Issues(s, "snapshot", "pause") BY DEF Snapshot, Begins, Issues
  <1> QED BY <1>1, Begun DEF Snapshot

(* restore begins, with the images of a snapshot or without.                *)
LEMMA RestoreStep ==
    ASSUME Inv, NEW s \in Slots, NEW n \in natives, NEW p \in BOOLEAN, Restore(s, n, p)
    PROVE  Fine(s)
  <1>1. CASE plan_restore(n, p) # "native"
    <2>1. cmd[s] = Idle /\ Issues(s, "portable", "resolve") BY <1>1 DEF Restore, Begins, Issues
    <2> QED BY <2>1, Begun DEF Restore
  <1>2. CASE plan_restore(n, p) = "native"
    <2>1. cmd[s] = Idle /\ Enters(s, "native", "down", None, n.memory, n.disk, p)
      BY <1>2 DEF Restore, Begins, Enters, Entry
    <2> DEFINE m == n.memory d == n.disk any == p
    <2>2. OneMoment => m = d BY DEF OneMoment
    <2>3. Enters(s, "native", "down", None, m, d, any) BY <2>1 DEF Enters
    <2> HIDE DEF m, d, any
    <2>4. /\ CmdTable' /\ \A t \in Slots \ {s} : cmd'[t] = cmd[t]
          /\ cmd'[s] = Entry("native", "down", None, m, d, any)
      BY <2>3, Replaces DEF Inv, Tables
    <2>5. SlotInv(s) /\ cmd[s].step = "none" BY <2>1 DEF Inv, Idle
    <2> USE DEF Restore, Entry
    <2>6. Known(s)'
      BY <2>4, <2>5 DEF SlotInv, Known, On, Live, Cleared, Starting
    <2>7. Frozen(s)' BY <2>4, <2>5 DEF SlotInv, Frozen, On, Live, Capturing
    <2>8. ImagesFit(s)' BY <2>2, <2>4 DEF ImagesFit, OneMoment
    <2>9. Rests(s)' BY <2>4 DEF Rests
    <2> QED BY <2>4, <2>6, <2>7, <2>8, <2>9, OnlyTheCommand
  <1> QED BY <1>1, <1>2

(* The configuration of a portable restore is there, or the command ends.   *)
LEMMA ResolveStep == ASSUME Inv, NEW s \in Slots, Resolve(s) PROVE Fine(s)
  <1> USE DEF Resolve, At
  <1>0. SlotInv(s) /\ CmdTable BY DEF Inv, Tables
  <1>1. CASE Goes(s, "down")
    <2>1. /\ CmdTable' /\ \A t \in Slots \ {s} : cmd'[t] = cmd[t]
          /\ cmd'[s].op = cmd[s].op /\ cmd'[s].step = "down" /\ cmd'[s].vm = cmd[s].vm
      BY <1>0, <1>1, GoesOn
    <2>2. cmd[s].op = "portable" BY <1>0 DEF SlotInv, Rests
    <2>3. Known(s)'
      BY <1>0, <2>1 DEF SlotInv, Known, On, Live, Cleared, Starting
    <2>4. Frozen(s)' BY <1>0, <2>1 DEF SlotInv, Frozen, On, Live, Capturing
    <2>5. ImagesFit(s)' BY <2>1, <2>2 DEF ImagesFit
    <2>6. Rests(s)' BY <2>1 DEF Rests
    <2> QED BY <2>1, <2>3, <2>4, <2>5, <2>6, OnlyTheCommand
  <1>2. CASE Ends(s)
    <2>1. CmdTable' /\ cmd'[s] = Idle /\ \A t \in Slots \ {s} : cmd'[t] = cmd[t]
      BY <1>0, <1>2, IdleAgain
    <2>2. Known(s)'
      BY <1>0, <2>1 DEF SlotInv, Known, On, Live, Cleared, Starting, Idle
    <2>3. Frozen(s)' BY <1>0, <2>1 DEF SlotInv, Frozen, On, Live, Capturing, Idle
    <2>4. ImagesFit(s)' BY <2>1 DEF ImagesFit, Idle
    <2>5. Rests(s)' BY <2>1 DEF Rests, Idle
    <2> QED BY <2>1, <2>2, <2>3, <2>4, <2>5, OnlyTheCommand DEF Idle
  <1> QED BY <1>1, <1>2

-----------------------------------------------------------------------------
(* down: the recorded process is stopped and forgotten.                     *)

(* What a slot says of itself, one part at a time.                          *)
LEMMA PartsOf ==
    ASSUME Inv, NEW s \in Slots
    PROVE  /\ VmTable /\ CmdTable /\ Files /\ Numbered /\ CapturedAtOnce
           /\ Names(s) /\ Known(s) /\ Frozen(s) /\ ImagesFit(s) /\ Agrees(s) /\ Rests(s)
  BY DEF Inv, Tables, SlotInv

(* A step that stops a process of the slot, if any, and leaves it nameless  *)
(* at the socket, if it does.                                               *)
Reaps(s, i) ==
  /\ vm' = IF Live(i) THEN Dead(i) ELSE vm
  /\ socket' = socket \/ socket' = [socket EXCEPT ![s] = None]

(* What is left afterwards.                                                 *)
LEMMA Reaped ==
    ASSUME Inv, NEW s \in Slots, NEW i, Live(i) => On(i, s), Reaps(s, i)
    PROVE  /\ VmTable'
           /\ \A j \in Vms : Live(j)' => Live(j) /\ j # i /\ vm'[j] = vm[j]
           /\ \A j \in Vms : vm'[j] = vm[j] \/ (On(j, s) /\ ~Live(j)')
           /\ \A j \in Vms : vm[j].state = "none" => vm'[j] = vm[j]
           /\ socket' = [t \in Slots |-> socket'[t]]
           /\ \A t \in Slots \ {s} : socket'[t] = socket[t]
           /\ socket'[s] \in {socket[s], None}
  <1>0. VmTable /\ Files BY PartsOf
  <1>1. CASE Live(i)
    <2>1. i \in Vms /\ vm' = Dead(i) BY <1>1 DEF Live, Reaps
    <2>2. VmTable' /\ vm'[i].state = "dead" /\ \A j \in Vms \ {i} : vm'[j] = vm[j]
      BY <1>0, <2>1, Dies
    <2> QED BY <1>0, <1>1, <2>1, <2>2 DEF Live, On, Reaps, Files
  <1>2. CASE ~Live(i)
    <2>1. vm' = vm BY <1>2 DEF Reaps
    <2> QED BY <1>0, <1>2, <2>1 DEF Live, Reaps, Files, VmTable
  <1> QED BY <1>1, <1>2

(* The frame of such a step.                                                *)
LEMMA ReapedApart ==
    ASSUME Inv, NEW s \in Slots, NEW i, Live(i) => On(i, s), Reaps(s, i),
           UNCHANGED <<record, disk, natives, started, strays>>, CmdTable',
           \A t \in Slots \ {s} : cmd'[t] = cmd[t],
           cmd'[s].vm = cmd[s].vm \/ cmd'[s].vm = None
    PROVE  Apart(s) /\ Tables' /\ Numbered' /\ CapturedAtOnce' /\ Names(s)'
  <1>0. VmTable /\ Files /\ Numbered /\ CapturedAtOnce /\ Names(s) BY PartsOf
  <1>1. /\ VmTable'
        /\ \A j \in Vms : Live(j)' => Live(j) /\ j # i /\ vm'[j] = vm[j]
        /\ \A j \in Vms : vm'[j] = vm[j] \/ (On(j, s) /\ ~Live(j)')
        /\ \A j \in Vms : vm[j].state = "none" => vm'[j] = vm[j]
        /\ socket' = [t \in Slots |-> socket'[t]]
        /\ \A t \in Slots \ {s} : socket'[t] = socket[t]
        /\ socket'[s] \in {socket[s], None}
    BY Reaped
  <1>2. Apart(s) BY <1>0, <1>1 DEF Apart, Numbered, On
  <1>3. Tables' BY <1>0, <1>1 DEF Tables, Files
  <1>4. Numbered' BY <1>0, <1>1 DEF Numbered
  <1>5. CapturedAtOnce' BY <1>0 DEF CapturedAtOnce, OneMoment
  <1>6. Names(s)'
    <2>1. ~Live(None) /\ ~Live(None)' BY DEF Live, Vms, None
    <2>2. started \in Nat BY <1>0 DEF Numbered
    <2>3. \A j : Live(j)' => Live(j) /\ vm'[j] = vm[j] BY <1>1 DEF Live
    <2>4. record[s]' \in Int /\ record[s]' <= started' BY <1>0 DEF Names
    <2>5. socket[s]' \in Vms \cup {None} /\ socket[s]' <= started' BY <1>0, <1>1, <2>2 DEF Names, None
    <2>6. cmd[s].vm' \in Int /\ cmd[s].vm' <= started' BY <1>0, <2>2 DEF Names, None
    <2>7. Live(record[s])' => On(record[s], s)' BY <1>0, <2>3 DEF Names, On
    <2>8. Live(socket[s])' => On(socket[s], s)' BY <1>0, <1>1, <2>1, <2>3 DEF Names, On
    <2>9. Live(cmd[s].vm)' => On(cmd[s].vm, s)' BY <1>0, <2>1, <2>3 DEF Names, On
    <2> QED BY <2>4, <2>5, <2>6, <2>7, <2>8, <2>9 DEF Names
  <1> QED BY <1>2, <1>3, <1>4, <1>5, <1>6

(* Stop.                                                                    *)
LEMMA StopStep == ASSUME Inv, NEW s \in Slots, Stop(s) PROVE Fine(s)
  <1>0. CmdTable /\ Names(s) /\ Known(s) /\ Frozen(s) /\ ImagesFit(s) /\ Agrees(s) /\ Rests(s)
    BY PartsOf
  <1>1. /\ CmdTable' /\ \A t \in Slots \ {s} : cmd'[t] = cmd[t]
        /\ cmd'[s].op = cmd[s].op /\ cmd'[s].step = "forget" /\ cmd'[s].vm = cmd[s].vm
        /\ cmd'[s].memory = cmd[s].memory /\ cmd'[s].disk = cmd[s].disk
    BY <1>0, GoesOn DEF Stop
  <1>2. Reaps(s, record[s])
    <2>1. CASE record[s] \in Vms \cup {None} BY <2>1 DEF Stop, Reaps
    <2>2. CASE record[s] \notin Vms \cup {None} BY <2>2 DEF Stop, Reaps, Live
    <2> QED BY <2>1, <2>2
  <1>3. Live(record[s]) => On(record[s], s) BY <1>0 DEF Names
  <1>4. Apart(s) /\ Tables' /\ Numbered' /\ CapturedAtOnce' /\ Names(s)'
    BY <1>1, <1>2, <1>3, ReapedApart DEF Stop
  <1>5. \A j \in Vms : Live(j)' => Live(j) /\ j # record[s] /\ vm'[j] = vm[j]
    BY <1>2, <1>3, Reaped
  <1>6. \A j \in Vms : s \notin strays' => ~On(j, s)'
    BY <1>0, <1>5 DEF Known, On, Stop, At, Starting
  <1>7. Known(s)' BY <1>6 DEF Known
  <1>8. Frozen(s)' BY <1>0, <1>1, <1>5 DEF Frozen, On, Live, Stop, At, Capturing
  <1>9. ImagesFit(s)' BY <1>0, <1>1 DEF ImagesFit, OneMoment, Stop, At
  <1>10. Agrees(s)' BY <1>6 DEF Agrees
  <1>11. Rests(s)' BY <1>1 DEF Rests
  <1> QED BY <1>4, <1>7, <1>8, <1>9, <1>10, <1>11 DEF Fine, SlotInv

(* Forget.                                                                  *)
LEMMA ForgetStep == ASSUME Inv, NEW s \in Slots, Forget(s) PROVE Fine(s)
  <1>0. /\ VmTable /\ CmdTable /\ Files /\ Numbered /\ CapturedAtOnce
        /\ Names(s) /\ Known(s) /\ Frozen(s) /\ ImagesFit(s) /\ Agrees(s) /\ Rests(s)
    BY PartsOf
  <1>1. cmd[s].step = "forget" BY DEF Forget, At
  <1>2. /\ CmdTable' /\ \A t \in Slots \ {s} : cmd'[t] = cmd[t]
        /\ cmd'[s].op = cmd[s].op /\ cmd'[s].step = "rule" /\ cmd'[s].vm = cmd[s].vm
        /\ cmd'[s].memory = cmd[s].memory /\ cmd'[s].disk = cmd[s].disk
    BY <1>0, GoesOn DEF Forget
  <1>3. \A t \in Slots \ {s} : record'[t] = record[t]
    BY <1>0 DEF Forget, Files
  <1>4. record' = [t \in Slots |-> record'[t]]
    BY <1>0 DEF Forget, Files
  <1>5. record'[s] \in {record[s], None} BY <1>0 DEF Forget, Files
  <1>6. UNCHANGED <<vm, socket, disk, natives, started, strays>> BY DEF Forget
  <1>7. Apart(s) BY <1>0, <1>2, <1>3, <1>6 DEF Apart, Numbered, Live
  <1>8. Tables' BY <1>0, <1>2, <1>4, <1>6 DEF Tables, Files, VmTable
  <1>9. Numbered' BY <1>0, <1>6 DEF Numbered, Live
  <1>10. CapturedAtOnce' BY <1>0, <1>6 DEF CapturedAtOnce, OneMoment
  <1>11. Names(s)'
    <2>1. started \in Nat BY <1>0 DEF Numbered
    <2>2. record[s]' \in Int /\ record[s]' <= started'
      BY <1>0, <1>5, <1>6, <2>1 DEF Names, None
    <2>3. socket[s]' \in Vms \cup {None} /\ socket[s]' <= started' BY <1>0, <1>6 DEF Names
    <2>4. cmd'[s].vm = cmd[s].vm BY <1>2
    <2>5. cmd[s].vm' \in Int /\ cmd[s].vm' <= started'
      BY <1>0, <1>6, <2>1, <2>4 DEF Names, None
    <2>6. \A j : Live(j)' => Live(j) /\ vm'[j] = vm[j] /\ j # None
      BY <1>6 DEF Live, Vms, None
    <2>7. Live(record[s])' => On(record[s], s)' BY <1>0, <1>5, <2>6 DEF Names, On
    <2>8. Live(socket[s])' => On(socket[s], s)' BY <1>0, <1>6, <2>6 DEF Names, On
    <2>9. Live(cmd[s].vm)' => On(cmd[s].vm, s)' BY <1>0, <2>4, <2>6 DEF Names, On
    <2> QED BY <2>2, <2>3, <2>5, <2>7, <2>8, <2>9 DEF Names
  <1>12. \A j \in Vms : s \notin strays' => ~On(j, s)'
    BY <1>0, <1>1, <1>6 DEF Known, On, Live, Cleared
  <1>13. Known(s)' BY <1>12 DEF Known
  <1>14. Frozen(s)' BY <1>0, <1>1, <1>6 DEF Frozen, On, Live, Capturing
  <1>15. ImagesFit(s)' BY <1>0, <1>1, <1>2, <1>6 DEF ImagesFit, OneMoment
  <1>16. Agrees(s)' BY <1>12 DEF Agrees
  <1>17. Rests(s)' BY <1>2 DEF Rests
  <1> QED BY <1>7, <1>8, <1>9, <1>10, <1>11, <1>13, <1>14, <1>15, <1>16, <1>17
       DEF Fine, SlotInv

(* What down is followed by.                                                *)
LEMMA Continues ==
    ASSUME CmdTable, NEW s \in Slots, Onward(s)
    PROVE  /\ CmdTable' /\ \A t \in Slots \ {s} : cmd'[t] = cmd[t]
           /\ \/ cmd'[s] = Idle
              \/ /\ cmd'[s].op = "portable" /\ cmd'[s].step = "resolve"
                 /\ cmd'[s].vm = cmd[s].vm
              \/ /\ cmd'[s].op = cmd[s].op /\ cmd'[s].step = "image" /\ cmd'[s].vm = cmd[s].vm
                 /\ cmd'[s].memory = cmd[s].memory /\ cmd'[s].disk = cmd[s].disk
  <1>1. CASE cmd[s].op = "down"
    <2>1. Ends(s) BY <1>1 DEF Onward
    <2> QED BY <2>1, IdleAgain
  <1>2. CASE cmd[s].op = "fallback"
    <2>1. SetsOpAndStep(s, "portable", "resolve") BY <1>2 DEF Onward, SetsOpAndStep
    <2>2. /\ CmdTable' /\ \A t \in Slots \ {s} : cmd'[t] = cmd[t]
          /\ cmd'[s] = Entry("portable", "resolve", cmd[s].vm, cmd[s].memory, cmd[s].disk,
                             cmd[s].portable)
      BY <2>1, OpAndStep
    <2> QED BY <2>2 DEF Entry
  <1>3. CASE cmd[s].op \notin {"down", "fallback"}
    <2>1. Goes(s, "image") BY <1>3 DEF Onward
    <2> QED BY <2>1, GoesOn
  <1> QED BY <1>1, <1>2, <1>3

(* The rule is looked after while nothing runs on the slot.                 *)
LEMMA RuleStep ==
    ASSUME Inv, NEW s \in Slots, Unrule(s) \/ \E t \in Slots : Look(s, t)
    PROVE  Fine(s)
  <1>0. CmdTable /\ Known(s) /\ Frozen(s) /\ ImagesFit(s) /\ Rests(s) BY PartsOf
  <1>1. cmd[s].step = "rule" BY DEF Unrule, Look, At
  <1>2. UNCHANGED <<vm, record, socket, disk, natives, started, strays>> BY DEF Unrule, Look
  <1>3. CASE UNCHANGED cmd
    <2>1. Known(s)' BY <1>0, <1>2, <1>3 DEF Known, On, Live
    <2>2. Frozen(s)' BY <1>0, <1>2, <1>3 DEF Frozen, On, Live
    <2>3. ImagesFit(s)' BY <1>0, <1>2, <1>3 DEF ImagesFit, OneMoment
    <2>4. Rests(s)' BY <1>0, <1>3 DEF Rests
    <2>5. CmdTable' BY <1>0, <1>3 DEF CmdTable
    <2> QED BY <1>2, <1>3, <2>1, <2>2, <2>3, <2>4, <2>5, OnlyTheCommand
  <1>4. CASE Onward(s)
    <2>1. /\ CmdTable' /\ \A t \in Slots \ {s} : cmd'[t] = cmd[t]
          /\ \/ cmd'[s] = Idle
             \/ /\ cmd'[s].op = "portable" /\ cmd'[s].step = "resolve"
                /\ cmd'[s].vm = cmd[s].vm
             \/ /\ cmd'[s].op = cmd[s].op /\ cmd'[s].step = "image" /\ cmd'[s].vm = cmd[s].vm
                /\ cmd'[s].memory = cmd[s].memory /\ cmd'[s].disk = cmd[s].disk
      BY <1>0, <1>4, Continues
    <2>2. \A j \in Vms : s \notin strays' => ~On(j, s)'
      BY <1>0, <1>1, <1>2 DEF Known, On, Live, Cleared
    <2>3. Known(s)' BY <2>2 DEF Known
    <2>4. Frozen(s)' BY <1>0, <1>1, <1>2 DEF Frozen, On, Live, Capturing
    <2>5. ImagesFit(s)' BY <1>0, <1>1, <1>2, <2>1 DEF ImagesFit, OneMoment, Idle
    <2>6. Rests(s)' BY <2>1 DEF Rests, Idle
    <2>7. cmd'[s].vm = cmd[s].vm \/ cmd'[s].vm = None BY <2>1 DEF Idle
    <2> QED BY <1>2, <2>1, <2>3, <2>4, <2>5, <2>6, <2>7, OnlyTheCommand
  <1> QED BY <1>3, <1>4 DEF Unrule, Look

-----------------------------------------------------------------------------
(* up, and the native attempt of restore.                                   *)

(* The image becomes the disk while nothing runs on the slot.               *)
LEMMA ImageStep == ASSUME Inv, NEW s \in Slots, Image(s) PROVE Fine(s)
  <1>0. /\ VmTable /\ CmdTable /\ Files /\ Numbered /\ CapturedAtOnce
        /\ Names(s) /\ Known(s) /\ Frozen(s) /\ ImagesFit(s) /\ Agrees(s) /\ Rests(s)
    BY PartsOf
  <1>1. cmd[s].step = "image" BY DEF Image, At
  <1>2. /\ CmdTable' /\ \A t \in Slots \ {s} : cmd'[t] = cmd[t]
        /\ cmd'[s].op = cmd[s].op /\ cmd'[s].vm = cmd[s].vm
        /\ cmd'[s].memory = cmd[s].memory /\ cmd'[s].disk = cmd[s].disk
        /\ cmd'[s].step = IF cmd[s].op = "up" THEN "inject" ELSE "network"
    BY <1>0, GoesOn DEF Image
  <1>3. /\ disk' = [t \in Slots |-> disk'[t]]
        /\ \A t \in Slots \ {s} : disk'[t] = disk[t]
        /\ disk'[s] = IF cmd[s].op = "native" THEN cmd[s].disk ELSE 0
    BY <1>0 DEF Image, Files
  <1>6. UNCHANGED <<vm, socket, record, natives, started, strays>> BY DEF Image
  <1>7. Apart(s) BY <1>0, <1>2, <1>3, <1>6 DEF Apart, Numbered, Live
  <1>8. Tables' BY <1>0, <1>2, <1>3, <1>6 DEF Tables, Files, VmTable
  <1>9. Numbered' BY <1>0, <1>6 DEF Numbered, Live
  <1>10. CapturedAtOnce' BY <1>0, <1>6 DEF CapturedAtOnce, OneMoment
  <1>11. Names(s)' BY <1>0, <1>2, <1>6 DEF Names, Live, On
  <1>12. \A j \in Vms : s \notin strays' => ~On(j, s)'
    BY <1>0, <1>1, <1>6 DEF Known, On, Live, Cleared
  <1>13. Known(s)' BY <1>12 DEF Known
  <1>14. Frozen(s)' BY <1>0, <1>1, <1>6 DEF Frozen, On, Live, Capturing
  <1>15. ImagesFit(s)' BY <1>0, <1>1, <1>2, <1>3, <1>6 DEF ImagesFit, OneMoment
  <1>16. Agrees(s)' BY <1>12 DEF Agrees
  <1>17. Rests(s)' BY <1>2 DEF Rests
  <1> QED BY <1>7, <1>8, <1>9, <1>10, <1>11, <1>13, <1>14, <1>15, <1>16, <1>17
       DEF Fine, SlotInv

(* The token goes into an image that nothing runs on.                       *)
LEMMA InjectStep == ASSUME Inv, NEW s \in Slots, Inject(s) PROVE Fine(s)
  <1>0. CmdTable /\ Known(s) /\ Frozen(s) /\ ImagesFit(s) BY PartsOf
  <1>1. /\ CmdTable' /\ \A t \in Slots \ {s} : cmd'[t] = cmd[t]
        /\ cmd'[s].op = cmd[s].op /\ cmd'[s].step = "network" /\ cmd'[s].vm = cmd[s].vm
        /\ cmd'[s].memory = cmd[s].memory /\ cmd'[s].disk = cmd[s].disk
    BY <1>0, GoesOn DEF Inject
  <1>2. cmd[s].step = "inject" /\ cmd[s].op # "native" BY PartsOf DEF Inject, At, Rests
  <1>3. UNCHANGED <<vm, record, socket, disk, natives, started, strays>> BY DEF Inject
  <1>4. Known(s)' BY <1>0, <1>1, <1>2, <1>3 DEF Known, On, Live, Cleared
  <1>5. Frozen(s)' BY <1>0, <1>1, <1>2, <1>3 DEF Frozen, On, Live, Capturing
  <1>6. ImagesFit(s)' BY <1>1, <1>2 DEF ImagesFit
  <1>7. Rests(s)' BY <1>1 DEF Rests
  <1> QED BY <1>1, <1>3, <1>4, <1>5, <1>6, <1>7, OnlyTheCommand

(* The network is set up for a slot that nothing runs on.                   *)
LEMMA NetworkStep == ASSUME Inv, NEW s \in Slots, Network(s) PROVE Fine(s)
  <1>0. CmdTable /\ Known(s) /\ Frozen(s) /\ ImagesFit(s) BY PartsOf
  <1>1. /\ CmdTable' /\ \A t \in Slots \ {s} : cmd'[t] = cmd[t]
        /\ cmd'[s].op = cmd[s].op /\ cmd'[s].step = "spawn" /\ cmd'[s].vm = cmd[s].vm
        /\ cmd'[s].memory = cmd[s].memory /\ cmd'[s].disk = cmd[s].disk
    BY <1>0, GoesOn DEF Network
  <1>2. cmd[s].step = "network" BY DEF Network, At
  <1>3. UNCHANGED <<vm, record, socket, disk, natives, started, strays>> BY DEF Network
  <1>4. Known(s)' BY <1>0, <1>1, <1>2, <1>3 DEF Known, On, Live, Cleared
  <1>5. Frozen(s)' BY <1>0, <1>1, <1>2, <1>3 DEF Frozen, On, Live, Capturing
  <1>6. ImagesFit(s)' BY <1>0, <1>1, <1>2, <1>3 DEF ImagesFit, OneMoment
  <1>7. Rests(s)' BY <1>1 DEF Rests
  <1> QED BY <1>1, <1>3, <1>4, <1>5, <1>6, <1>7, OnlyTheCommand

(* A firecracker process is started on a slot that nothing runs on.         *)
LEMMA SpawnStep == ASSUME Inv, NEW s \in Slots, Spawn(s) PROVE Fine(s)
  <1>0. /\ VmTable /\ CmdTable /\ Files /\ Numbered /\ CapturedAtOnce
        /\ Names(s) /\ Known(s) /\ Frozen(s) /\ ImagesFit(s) /\ Agrees(s) /\ Rests(s)
    BY PartsOf
  <1>1. cmd[s].step = "spawn" BY DEF Spawn, At
  <1>a. started + 1 \in Vms
    BY <1>0, FirecrackerAssumption DEF Spawn, Numbered, Vms
  <1>b. PICK i \in Vms : i = started + 1 BY <1>a
  <1>2. /\ started \in Nat /\ started' = i /\ i \in Vms /\ i \in Nat
        /\ i > started /\ started <= i
    BY <1>0, <1>b DEF Spawn, Numbered, Vms
  <1>3. SetsStepAndVm(s, "boot", i) BY <1>2 DEF Spawn, SetsStepAndVm
  <1>4. /\ CmdTable' /\ \A t \in Slots \ {s} : cmd'[t] = cmd[t]
        /\ cmd'[s] = Entry(cmd[s].op, "boot", i, cmd[s].memory, cmd[s].disk, cmd[s].portable)
    BY <1>0, <1>3, StepAndVm
  <1>5. /\ cmd'[s].op = cmd[s].op /\ cmd'[s].step = "boot" /\ cmd'[s].vm = i
        /\ cmd'[s].memory = cmd[s].memory /\ cmd'[s].disk = cmd[s].disk
    BY <1>4 DEF Entry
  <1>6. vm[i].state = "none" BY <1>0, <1>2 DEF Numbered
  <1>7. /\ VmTable' /\ \A j \in Vms \ {i} : vm'[j] = vm[j]
        /\ IF socket[s] = None THEN vm'[i].state = "blank" /\ vm'[i].slot = s
                               ELSE vm'[i].state = "dead"
    <2> DEFINE no == FALSE
    <2>1. CASE socket[s] = None
      <3>1. Puts(i, s, "blank", 0, no) BY <1>2, <2>1 DEF Spawn, Puts
      <3> HIDE DEF no
      <3> QED BY <1>0, <1>2, <2>1, <3>1, Becomes
    <2>2. CASE socket[s] # None
      <3>1. Puts(i, None, "dead", 0, no) BY <1>2, <2>2 DEF Spawn, Puts
      <3> HIDE DEF no
      <3> QED BY <1>0, <1>2, <2>2, <3>1, Becomes
    <2> QED BY <2>1, <2>2
  <1>8. /\ socket' = [t \in Slots |-> socket'[t]]
        /\ \A t \in Slots \ {s} : socket'[t] = socket[t]
        /\ socket'[s] = IF socket[s] = None THEN i ELSE socket[s]
    BY <1>0, <1>2 DEF Spawn, Files
  <1>9. UNCHANGED <<record, disk, natives, strays>> BY DEF Spawn
  <1>10. ~Live(i) /\ (Live(i)' => vm'[i].slot = s /\ vm'[i].state = "blank" /\ socket'[s] = i)
    BY <1>6, <1>7, <1>8 DEF Live
  <1>11. Apart(s)
    <2>1. started' \in Nat /\ started <= started' BY <1>2
    <2>2. \A j \in Vms : j <= started => j # i BY <1>2 DEF Vms
    <2>3. \A j \in Vms : j <= started /\ Live(j)' => Live(j) BY <1>7, <2>2 DEF Live
    <2> QED BY <1>2, <1>4, <1>7, <1>8, <1>9, <1>10, <2>1, <2>3 DEF Apart
  <1>12. Tables' BY <1>0, <1>4, <1>7, <1>8, <1>9 DEF Tables, Files
  <1>13. Numbered'
    <2>1. ASSUME NEW j \in Vms, j > started' PROVE vm'[j].state = "none"
      <3>1. j > started /\ j # i BY <1>2, <2>1 DEF Vms
      <3> QED BY <1>0, <1>7, <3>1 DEF Numbered
    <2>2. \A j \in Vms : Live(j)' => vm'[j].slot \in Slots
      BY <1>0, <1>7, <1>10 DEF Numbered, Live
    <2> QED BY <1>2, <2>1, <2>2 DEF Numbered
  <1>14. CapturedAtOnce' BY <1>0, <1>9 DEF CapturedAtOnce, OneMoment
  <1>15. Names(s)'
    <2>1. record[s] # i /\ record[s] <= started' BY <1>0, <1>2 DEF Names
    <2>2. \A j : j # i /\ Live(j)' => Live(j) /\ vm'[j] = vm[j] BY <1>7 DEF Live
    <2>3. Live(record[s])' => On(record[s], s)' BY <1>0, <1>9, <2>1, <2>2 DEF Names, On
    <2>4. Live(cmd[s].vm)' => On(cmd[s].vm, s)' BY <1>5, <1>10 DEF On
    <2>5. Live(socket[s])' => On(socket[s], s)'
      BY <1>0, <1>8, <1>10, <2>2 DEF Names, On
    <2>6. socket[s]' \in Vms \cup {None} BY <1>0, <1>2, <1>8 DEF Names
    <2>7. socket[s]' <= started' BY <1>0, <1>2, <1>8 DEF Names, Vms, None
    <2>8. cmd[s].vm' \in Int /\ cmd[s].vm' <= started' BY <1>2, <1>5
    <2> QED BY <1>0, <1>9, <2>1, <2>3, <2>4, <2>5, <2>6, <2>7, <2>8 DEF Names
  <1>16. \A j \in Vms : s \notin strays' /\ On(j, s)' => j = i
    BY <1>0, <1>1, <1>7, <1>9 DEF Known, On, Live, Cleared
  <1>17. Known(s)' BY <1>5, <1>10, <1>16 DEF Known, On, Cleared, Starting
  <1>18. Frozen(s)' BY <1>0, <1>1, <1>7, <1>10 DEF Frozen, On, Live, Capturing
  <1>19. ImagesFit(s)' BY <1>0, <1>1, <1>5, <1>9 DEF ImagesFit, OneMoment
  <1>20. Agrees(s)' BY <1>10, <1>16 DEF Agrees, On, Guest
  <1>21. Rests(s)' BY <1>5 DEF Rests
  <1> QED BY <1>11, <1>12, <1>13, <1>14, <1>15, <1>17, <1>18, <1>19, <1>20, <1>21
       DEF Fine, SlotInv

(* The state or the memory of a process of the slot changes, and its entry  *)
(* in the table keeps its slot; it lives before and after.                  *)
Alters(s, i) ==
  /\ i \in Vms /\ On(i, s) /\ Live(i)' /\ vm'[i].slot = vm[i].slot
  /\ VmTable' /\ \A j \in Vms \ {i} : vm'[j] = vm[j]

(* The frame of such a step.                                                *)
LEMMA AlteredApart ==
    ASSUME Inv, NEW s \in Slots, NEW i, Alters(s, i),
           UNCHANGED <<record, socket, natives, started, strays>>, CmdTable',
           disk' = [t \in Slots |-> disk'[t]], \A t \in Slots \ {s} : disk'[t] = disk[t],
           \A t \in Slots \ {s} : cmd'[t] = cmd[t],
           cmd'[s].vm = cmd[s].vm \/ cmd'[s].vm = None
    PROVE  /\ Apart(s) /\ Tables' /\ Numbered' /\ CapturedAtOnce' /\ Names(s)'
           /\ \A j \in Vms : On(j, s)' <=> On(j, s)
  <1>0. VmTable /\ Files /\ Numbered /\ CapturedAtOnce /\ Names(s) BY PartsOf
  <1>1. \A j : Live(j)' <=> Live(j) BY DEF Alters, On, Live
  <1>2. \A j \in Vms : vm'[j].slot = vm[j].slot BY DEF Alters
  <1>3. Apart(s) BY <1>0, <1>1, <1>2 DEF Apart, Numbered, Alters, On
  <1>4. Tables' BY <1>0 DEF Tables, Files, Alters
  <1>5. \A j \in Vms : j > started => j # i BY <1>0 DEF Alters, On, Live, Numbered
  <1>6. Numbered' BY <1>0, <1>1, <1>2, <1>5 DEF Numbered, Alters
  <1>7. CapturedAtOnce' BY <1>0 DEF CapturedAtOnce, OneMoment
  <1>8. \A j : On(j, s)' <=> On(j, s) BY <1>1, <1>2 DEF On, Live
  <1>9. Names(s)'
    <2>1. ~Live(None) BY DEF Live, Vms, None
    <2>2. started \in Nat BY <1>0 DEF Numbered
    <2>3. cmd[s].vm' \in Int /\ cmd[s].vm' <= started' BY <1>0, <2>2 DEF Names, None
    <2>4. Live(cmd[s].vm)' => On(cmd[s].vm, s)' BY <1>0, <1>1, <1>2, <2>1 DEF Names, On, Live
    <2>5. Live(record[s])' => On(record[s], s)' BY <1>0, <1>1, <1>2 DEF Names, On, Live
    <2>6. Live(socket[s])' => On(socket[s], s)' BY <1>0, <1>1, <1>2 DEF Names, On, Live
    <2> QED BY <1>0, <2>3, <2>4, <2>5, <2>6 DEF Names
  <1> QED BY <1>3, <1>4, <1>6, <1>7, <1>8, <1>9

(* A guest is booted from the disk, or loaded with the memory that fits it. *)
LEMMA BootStep == ASSUME Inv, NEW s \in Slots, Boot(s) PROVE Fine(s)
  <1>0. /\ VmTable /\ CmdTable /\ Files /\ Names(s) /\ Known(s) /\ Frozen(s)
        /\ ImagesFit(s) /\ Agrees(s) /\ Rests(s)
    BY PartsOf
  <1>1. cmd[s].step = "boot" BY DEF Boot, At
  <1>a. PICK i : i = socket[s] OBVIOUS
  <1>b. PICK m : m = IF cmd[s].op = "native" THEN cmd[s].memory ELSE disk[s] OBVIOUS
  <1>2. i \in Vms /\ vm[i].state = "blank" BY <1>0, <1>a DEF Boot, Names
  <1>3. On(i, s) BY <1>0, <1>2, <1>a DEF Names, Live
  <1>4. Loads(i, "up", m) BY <1>a, <1>b DEF Boot, Loads
  <1>5. m = disk[s] \/ (cmd[s].op = "native" /\ m = cmd[s].memory) BY <1>b
  <1>6. /\ VmTable' /\ \A j \in Vms \ {i} : vm'[j] = vm[j]
        /\ vm'[i].slot = vm[i].slot /\ vm'[i].state = "up"
        /\ vm'[i].memory = m /\ vm'[i].left = vm[i].left
    BY <1>0, <1>2, <1>4, StateAndMemory
  <1>7. /\ CmdTable' /\ \A t \in Slots \ {s} : cmd'[t] = cmd[t]
        /\ cmd'[s].op = cmd[s].op /\ cmd'[s].step = "record" /\ cmd'[s].vm = cmd[s].vm
        /\ cmd'[s].memory = cmd[s].memory /\ cmd'[s].disk = cmd[s].disk
    BY <1>0, GoesOn DEF Boot
  <1>8. Alters(s, i) BY <1>2, <1>3, <1>6 DEF Alters, Live
  <1>9. UNCHANGED <<record, socket, disk, natives, started, strays>> BY DEF Boot
  <1>10. /\ Apart(s) /\ Tables' /\ Numbered' /\ CapturedAtOnce' /\ Names(s)'
         /\ \A j \in Vms : On(j, s)' <=> On(j, s)
    BY <1>0, <1>7, <1>8, <1>9, AlteredApart DEF Files
  <1>11. Known(s)' BY <1>0, <1>1, <1>7, <1>9, <1>10 DEF Known, Cleared, Starting
  <1>12. Frozen(s)'
    BY <1>0, <1>1, <1>6, <1>10 DEF Frozen, Capturing
  <1>13. ImagesFit(s)' BY <1>7 DEF ImagesFit
  <1>14. Agrees(s)'
    <2>1. s \notin strays => \A j \in Vms : On(j, s) => j = i
      BY <1>0, <1>1, <1>2, <1>3 DEF Known, Starting
    <2>2. OneMoment /\ s \notin strays => m = disk[s] BY <1>0, <1>1, <1>5 DEF ImagesFit
    <2> QED BY <1>6, <1>9, <1>10, <2>1, <2>2 DEF Agrees, OneMoment
  <1>15. Rests(s)' BY <1>7 DEF Rests
  <1> QED BY <1>10, <1>11, <1>12, <1>13, <1>14, <1>15 DEF Fine, SlotInv

(* state.json names the process the command started.                        *)
LEMMA RecordStep == ASSUME Inv, NEW s \in Slots, Record(s) PROVE Fine(s)
  <1>0. /\ VmTable /\ CmdTable /\ Files /\ Numbered /\ CapturedAtOnce
        /\ Names(s) /\ Known(s) /\ Frozen(s) /\ ImagesFit(s) /\ Agrees(s) /\ Rests(s)
    BY PartsOf
  <1>1. cmd[s].step = "record" BY DEF Record, At
  <1>2. /\ CmdTable' /\ \A t \in Slots \ {s} : cmd'[t] = cmd[t]
        /\ cmd'[s].step = "wait" /\ cmd'[s].vm = cmd[s].vm
    BY <1>0, GoesOn DEF Record
  <1>3. /\ record' = [t \in Slots |-> record'[t]]
        /\ \A t \in Slots \ {s} : record'[t] = record[t]
        /\ record'[s] = cmd[s].vm
    BY <1>0 DEF Record, Files
  <1>4. UNCHANGED <<vm, socket, disk, natives, started, strays>> BY DEF Record
  <1>5. Apart(s) BY <1>0, <1>2, <1>3, <1>4 DEF Apart, Numbered, Live
  <1>6. Tables' BY <1>0, <1>2, <1>3, <1>4 DEF Tables, Files, VmTable
  <1>7. Numbered' BY <1>0, <1>4 DEF Numbered, Live
  <1>8. CapturedAtOnce' BY <1>0, <1>4 DEF CapturedAtOnce, OneMoment
  <1>9. Names(s)' BY <1>0, <1>2, <1>3, <1>4 DEF Names, Live, On
  <1>10. Known(s)' BY <1>0, <1>1, <1>2, <1>3, <1>4 DEF Known, On, Live, Cleared, Starting
  <1>11. Frozen(s)' BY <1>0, <1>1, <1>2, <1>4 DEF Frozen, On, Live, Capturing
  <1>12. ImagesFit(s)' BY <1>2 DEF ImagesFit
  <1>13. Agrees(s)' BY <1>0, <1>4 DEF Agrees, On, Live, Guest, OneMoment
  <1>14. Rests(s)' BY <1>2 DEF Rests
  <1> QED BY <1>5, <1>6, <1>7, <1>8, <1>9, <1>10, <1>11, <1>12, <1>13, <1>14
       DEF Fine, SlotInv

(* The guest answers.                                                       *)
LEMMA ReadyStep == ASSUME Inv, NEW s \in Slots, Ready(s) PROVE Fine(s)
  <1>0. CmdTable /\ Known(s) /\ Frozen(s) /\ ImagesFit(s) BY PartsOf
  <1>1. cmd[s].step = "wait" BY DEF Ready, At
  <1>2. /\ CmdTable' /\ \A t \in Slots \ {s} : cmd'[t] = cmd[t]
        /\ cmd'[s] = Idle \/ (cmd'[s].step = "unpack" /\ cmd'[s].vm = cmd[s].vm)
    <2>1. CASE Goes(s, "unpack") BY <1>0, <2>1, GoesOn
    <2>2. CASE Ends(s) BY <1>0, <2>2, IdleAgain
    <2> QED BY <2>1, <2>2 DEF Ready
  <1>3. UNCHANGED <<vm, record, socket, disk, natives, started, strays>> BY DEF Ready
  <1>4. Known(s)'
    BY <1>0, <1>1, <1>2, <1>3 DEF Known, On, Live, Cleared, Starting, Idle
  <1>5. Frozen(s)' BY <1>0, <1>1, <1>3 DEF Frozen, On, Live, Capturing
  <1>6. ImagesFit(s)' BY <1>2 DEF ImagesFit, Idle
  <1>7. Rests(s)' BY <1>2 DEF Rests, Idle
  <1>8. cmd'[s].vm = cmd[s].vm \/ cmd'[s].vm = None BY <1>2 DEF Idle
  <1> QED BY <1>2, <1>3, <1>4, <1>5, <1>6, <1>7, <1>8, OnlyTheCommand

(* A start that fails: what was started is dropped, or there is nothing to  *)
(* drop yet.                                                                *)
LEMMA FailedCommand ==
    ASSUME CmdTable, NEW s \in Slots, StartFails(s)
    PROVE  /\ CmdTable' /\ \A t \in Slots \ {s} : cmd'[t] = cmd[t]
           /\ \/ cmd'[s] = Idle
              \/ /\ cmd'[s].op # "native" /\ cmd'[s].step = "down" /\ cmd'[s].vm = None
  <1>1. CASE cmd[s].op # "native"
    <2>1. Ends(s) BY <1>1 DEF StartFails
    <2> QED BY <2>1, IdleAgain
  <1>2. CASE cmd[s].op = "native"
    <2>1. PICK o : /\ o = (IF cmd[s].portable THEN "fallback" ELSE "down")
                   /\ o # "native"
      OBVIOUS
    <2>2. Issues(s, o, "down") BY <1>2, <2>1 DEF StartFails, Issues
    <2> QED BY <2>1, <2>2, Issued
  <1> QED BY <1>1, <1>2

(* The start fails at any of its steps.                                     *)
LEMMA StartFailsStep == ASSUME Inv, NEW s \in Slots, StartFails(s) PROVE Fine(s)
  <1>0. CmdTable /\ Names(s) /\ Known(s) /\ Frozen(s) /\ ImagesFit(s) /\ Agrees(s)
    BY PartsOf
  <1>1. /\ CmdTable' /\ \A t \in Slots \ {s} : cmd'[t] = cmd[t]
        /\ \/ cmd'[s] = Idle
           \/ /\ cmd'[s].op # "native" /\ cmd'[s].step = "down" /\ cmd'[s].vm = None
    BY <1>0, FailedCommand
  <1>2. cmd'[s].step \in {"none", "down"} /\ cmd'[s].op # "native" /\ cmd'[s].vm = None
    BY <1>1 DEF Idle
  <1>3. ImagesFit(s)' BY <1>2 DEF ImagesFit
  <1>4. Rests(s)' BY <1>1 DEF Rests, Idle
  <1>5. UNCHANGED <<record, disk, natives, started, strays>> BY DEF StartFails
  <1>6. CASE cmd[s].step \in {"image", "inject", "network"} /\ UNCHANGED <<vm, socket>>
    <2>1. Known(s)' BY <1>0, <1>5, <1>6 DEF Known, On, Live, Cleared
    <2>2. Frozen(s)' BY <1>0, <1>6 DEF Frozen, On, Live, Capturing
    <2> QED BY <1>1, <1>2, <1>3, <1>4, <1>5, <1>6, <2>1, <2>2, OnlyTheCommand
  <1>7. CASE cmd[s].step \in {"spawn", "boot", "record", "wait"} /\ Dropped(s)
    <2>1. Reaps(s, cmd[s].vm) BY <1>7 DEF Dropped, Reaps
    <2>2. Live(cmd[s].vm) => On(cmd[s].vm, s) BY <1>0 DEF Names
    <2>3. Apart(s) /\ Tables' /\ Numbered' /\ CapturedAtOnce' /\ Names(s)'
      BY <1>1, <1>2, <1>5, <2>1, <2>2, ReapedApart
    <2>4. \A j \in Vms : Live(j)' => Live(j) /\ j # cmd[s].vm /\ vm'[j] = vm[j]
      BY <2>1, <2>2, Reaped
    <2>5. \A j \in Vms : On(j, s)' => On(j, s) /\ j # cmd[s].vm /\ vm'[j] = vm[j]
      BY <2>4 DEF On
    <2>6. Known(s)'
      BY <1>0, <1>2, <1>5, <1>7, <2>5 DEF Known, Cleared, Starting
    <2>7. Frozen(s)' BY <1>0, <1>7, <2>5 DEF Frozen, Capturing
    <2>8. Agrees(s)' BY <1>0, <1>5, <2>5 DEF Agrees, Guest, OneMoment
    <2> QED BY <1>3, <1>4, <2>3, <2>6, <2>7, <2>8 DEF Fine, SlotInv
  <1> QED BY <1>6, <1>7 DEF StartFails, At

(* The guest replaces its workspace.                                        *)
LEMMA UnpackStep == ASSUME Inv, NEW s \in Slots, Unpack(s) PROVE Fine(s)
  <1>0. VmTable /\ CmdTable /\ Files /\ Known(s) /\ Frozen(s) /\ Agrees(s) BY PartsOf
  <1>1. cmd[s].step = "unpack" BY DEF Unpack, At
  <1>2. CmdTable' /\ cmd'[s] = Idle /\ \A t \in Slots \ {s} : cmd'[t] = cmd[t]
    BY <1>0, IdleAgain DEF Unpack
  <1>3. UNCHANGED <<record, socket, natives, started, strays>> BY DEF Unpack
  <1>4. cmd'[s].vm = None /\ cmd'[s].step = "none" BY <1>2 DEF Idle
  <1>5. ImagesFit(s)' /\ Rests(s)' BY <1>2 DEF ImagesFit, Rests, Idle
  <1>6. CASE UNCHANGED <<vm, disk>>
    <2>1. Known(s)'
      BY <1>0, <1>1, <1>3, <1>4, <1>6 DEF Known, On, Live, Cleared, Starting
    <2>2. Frozen(s)' BY <1>0, <1>1, <1>6 DEF Frozen, On, Live, Capturing
    <2> QED BY <1>2, <1>3, <1>4, <1>5, <1>6, <2>1, <2>2, OnlyTheCommand
  <1>7. ASSUME NEW i \in Vms, vm[i].slot = s, vm[i].state = "up",
               vm' = [vm EXCEPT ![i].memory = written'], disk' = [disk EXCEPT ![s] = written']
        PROVE  Fine(s)
    <2>1. PICK w : w = written' OBVIOUS
    <2>2. Sees(i, w) BY <1>7, <2>1 DEF Sees
    <2>3. /\ VmTable' /\ \A j \in Vms \ {i} : vm'[j] = vm[j]
          /\ vm'[i].slot = vm[i].slot /\ vm'[i].state = vm[i].state
          /\ vm'[i].memory = w /\ vm'[i].left = vm[i].left
      BY <1>0, <2>2, MemoryChanges
    <2>4. /\ disk' = [t \in Slots |-> disk'[t]]
          /\ \A t \in Slots \ {s} : disk'[t] = disk[t]
          /\ disk'[s] = w
      BY <1>0, <1>7, <2>1 DEF Files
    <2>5. On(i, s) /\ Alters(s, i) BY <1>7, <2>3 DEF Alters, On, Live
    <2>6. /\ Apart(s) /\ Tables' /\ Numbered' /\ CapturedAtOnce' /\ Names(s)'
          /\ \A j \in Vms : On(j, s)' <=> On(j, s)
      BY <1>2, <1>3, <1>4, <2>4, <2>5, AlteredApart
    <2>7. Known(s)'
      BY <1>0, <1>1, <1>3, <1>4, <2>6 DEF Known, Cleared, Starting
    <2>8. Frozen(s)' BY <1>0, <1>1, <2>3, <2>6 DEF Frozen, Capturing
    <2>9. s \notin strays => \A j \in Vms : On(j, s) => j = i
      BY <1>0, <1>1, <2>5 DEF Known, Starting
    <2>10. Agrees(s)' BY <1>3, <2>3, <2>4, <2>6, <2>9 DEF Agrees
    <2> QED BY <1>5, <2>6, <2>7, <2>8, <2>10 DEF Fine, SlotInv
  <1> QED BY <1>6, <1>7 DEF Unpack

-----------------------------------------------------------------------------
(* snapshot.                                                                *)

(* The guest behind the socket is paused.                                   *)
LEMMA PauseStep == ASSUME Inv, NEW s \in Slots, Pause(s) PROVE Fine(s)
  <1>0. /\ VmTable /\ CmdTable /\ Files /\ Names(s) /\ Known(s) /\ Frozen(s) /\ ImagesFit(s)
        /\ Agrees(s)
    BY PartsOf
  <1>1. cmd[s].step = "pause" BY DEF Pause, At
  <1>2. UNCHANGED <<record, socket, disk, natives, started, strays>> BY DEF Pause
  <1>3. PICK i : i = socket[s] OBVIOUS
  <1>4. Guest(i) => i \in Vms /\ On(i, s) BY <1>0, <1>3 DEF Guest, Names, Live
  <1>5. s \notin strays /\ Guest(i) => \A j \in Vms : On(j, s) => j = i
    BY <1>0, <1>1, <1>4 DEF Known, Starting
  <1>6. CASE UNCHANGED vm /\ Ends(s)
    <2>1. CmdTable' /\ cmd'[s] = Idle /\ \A t \in Slots \ {s} : cmd'[t] = cmd[t]
      BY <1>0, <1>6, IdleAgain
    <2>2. Known(s)'
      BY <1>0, <1>1, <1>2, <1>6, <2>1 DEF Known, On, Live, Cleared, Starting, Idle
    <2>3. Frozen(s)' BY <1>0, <1>1, <1>6 DEF Frozen, On, Live, Capturing
    <2>4. ImagesFit(s)' /\ Rests(s)' BY <2>1 DEF ImagesFit, Rests, Idle
    <2> QED BY <1>2, <1>6, <2>1, <2>2, <2>3, <2>4, OnlyTheCommand DEF Idle
  <1>7. CASE Guest(i) /\ TurnsTo(i, "paused") /\ Goes(s, "create")
    <2>1. /\ VmTable' /\ \A j \in Vms \ {i} : vm'[j] = vm[j]
          /\ vm'[i].slot = vm[i].slot /\ vm'[i].state = "paused"
          /\ vm'[i].memory = vm[i].memory /\ vm'[i].left = vm[i].left
      BY <1>0, <1>4, <1>7, StateChanges
    <2>2. /\ CmdTable' /\ \A t \in Slots \ {s} : cmd'[t] = cmd[t]
          /\ cmd'[s].step = "create" /\ cmd'[s].vm = cmd[s].vm
      BY <1>0, <1>7, GoesOn
    <2>3. Alters(s, i) BY <1>4, <1>7, <2>1 DEF Alters, Live
    <2>4. /\ Apart(s) /\ Tables' /\ Numbered' /\ CapturedAtOnce' /\ Names(s)'
          /\ \A j \in Vms : On(j, s)' <=> On(j, s)
      BY <1>0, <1>2, <2>2, <2>3, AlteredApart DEF Files
    <2>5. Known(s)'
      BY <1>0, <1>1, <1>2, <1>5, <1>7, <2>1, <2>2, <2>4 DEF Known, Cleared, Starting
    <2>6. Frozen(s)'
      BY <1>0, <1>1, <1>2, <1>3, <2>1, <2>2, <2>4 DEF Frozen, Capturing
    <2>7. ImagesFit(s)' /\ Rests(s)' BY <2>2 DEF ImagesFit, Rests
    <2>8. Agrees(s)'
      BY <1>0, <1>2, <1>4, <1>7, <2>1, <2>4 DEF Agrees, Guest, OneMoment
    <2> QED BY <2>4, <2>5, <2>6, <2>7, <2>8 DEF Fine, SlotInv
  <1>8. CASE Guest(i) /\ vm' = [vm EXCEPT ![i].state = "paused", ![i].left = TRUE] /\ Ends(s)
    <2>0. PICK yes : yes = TRUE OBVIOUS
    <2>1. Halts(i, "paused", yes) BY <1>8, <2>0 DEF Halts
    <2>2. /\ VmTable' /\ \A j \in Vms \ {i} : vm'[j] = vm[j]
          /\ vm'[i].slot = vm[i].slot /\ vm'[i].state = "paused"
          /\ vm'[i].memory = vm[i].memory /\ vm'[i].left = yes
      BY <1>0, <1>4, <1>8, <2>1, StateAndLeft
    <2>3. CmdTable' /\ cmd'[s] = Idle /\ \A t \in Slots \ {s} : cmd'[t] = cmd[t]
      BY <1>0, <1>8, IdleAgain
    <2>4. Alters(s, i) BY <1>4, <1>8, <2>2 DEF Alters, Live
    <2>5. /\ Apart(s) /\ Tables' /\ Numbered' /\ CapturedAtOnce' /\ Names(s)'
          /\ \A j \in Vms : On(j, s)' <=> On(j, s)
      BY <1>0, <1>2, <2>3, <2>4, AlteredApart DEF Files, Idle
    <2>6. Known(s)'
      BY <1>0, <1>1, <1>2, <2>3, <2>5 DEF Known, Cleared, Starting, Idle
    <2>7. Frozen(s)'
      <3>1. ASSUME NEW j \in Vms, On(j, s)', vm'[j].state = "paused" PROVE vm'[j].left
        <4>1. CASE j = i BY <2>0, <2>2, <4>1
        <4>2. CASE j # i BY <1>0, <1>1, <2>2, <2>5, <3>1, <4>2 DEF Frozen, Capturing
        <4> QED BY <4>1, <4>2
      <3> QED BY <3>1 DEF Frozen
    <2>8. ImagesFit(s)' /\ Rests(s)' BY <2>3 DEF ImagesFit, Rests, Idle
    <2>9. Agrees(s)'
      BY <1>0, <1>2, <1>4, <1>8, <2>2, <2>5 DEF Agrees, Guest, OneMoment
    <2> QED BY <2>5, <2>6, <2>7, <2>8, <2>9 DEF Fine, SlotInv
  <1> QED BY <1>3, <1>6, <1>7, <1>8 DEF Pause, TurnsTo

(* The memory of the paused guest is written out.                           *)
LEMMA CreateStep == ASSUME Inv, NEW s \in Slots, Create(s) PROVE Fine(s)
  <1>0. CmdTable /\ Names(s) /\ Known(s) /\ Frozen(s) /\ Agrees(s) BY PartsOf
  <1>1. cmd[s].step = "create" BY DEF Create, At
  <1>2. UNCHANGED <<vm, record, socket, disk, natives, started, strays>> BY DEF Create
  <1>3. CASE Goes(s, "give up")
    <2>1. /\ CmdTable' /\ \A t \in Slots \ {s} : cmd'[t] = cmd[t]
          /\ cmd'[s].step = "give up" /\ cmd'[s].vm = cmd[s].vm
      BY <1>0, <1>3, GoesOn
    <2>2. Known(s)'
      BY <1>0, <1>1, <1>2, <2>1 DEF Known, On, Live, Cleared, Starting
    <2>3. Frozen(s)' BY <1>0, <1>1, <1>2, <2>1 DEF Frozen, On, Live, Capturing
    <2>4. ImagesFit(s)' /\ Rests(s)' BY <2>1 DEF ImagesFit, Rests
    <2> QED BY <1>2, <2>1, <2>2, <2>3, <2>4, OnlyTheCommand
  <1>4. CASE Guest(socket[s]) /\ SetsStepAndMemory(s, "copy", vm[socket[s]].memory)
    <2>1. PICK m : m = vm[socket[s]].memory OBVIOUS
    <2>2. /\ CmdTable' /\ \A t \in Slots \ {s} : cmd'[t] = cmd[t]
          /\ cmd'[s] = Entry(cmd[s].op, "copy", cmd[s].vm, m, cmd[s].disk, cmd[s].portable)
      <3>1. SetsStepAndMemory(s, "copy", m) BY <1>4, <2>1
      <3> QED BY <1>0, <3>1, StepAndMemory
    <2>3. cmd'[s].step = "copy" /\ cmd'[s].vm = cmd[s].vm /\ cmd'[s].memory = m
      BY <2>2 DEF Entry
    <2>4. OneMoment /\ s \notin strays => m = disk[s]
      BY <1>0, <1>4, <2>1 DEF Agrees, Names, Guest, Live
    <2>5. Known(s)'
      BY <1>0, <1>1, <1>2, <2>3 DEF Known, On, Live, Cleared, Starting
    <2>6. Frozen(s)' BY <1>0, <1>1, <1>2, <2>3 DEF Frozen, On, Live, Capturing
    <2>7. ImagesFit(s)' /\ Rests(s)'
      BY <1>2, <2>3, <2>4 DEF ImagesFit, Rests, OneMoment
    <2> QED BY <1>2, <2>2, <2>3, <2>5, <2>6, <2>7, OnlyTheCommand
  <1> QED BY <1>3, <1>4 DEF Create, Goes, SetsStepAndMemory

(* The disk is copied while no guest of the slot runs.                      *)
LEMMA CopyStep == ASSUME Inv, NEW s \in Slots, Copy(s) PROVE Fine(s)
  <1>0. CmdTable /\ Known(s) /\ Frozen(s) /\ ImagesFit(s) BY PartsOf
  <1>1. cmd[s].step = "copy" BY DEF Copy, At
  <1>2. UNCHANGED <<vm, record, socket, disk, natives, started, strays>> BY DEF Copy
  <1>3. CASE Goes(s, "give up")
    <2>1. /\ CmdTable' /\ \A t \in Slots \ {s} : cmd'[t] = cmd[t]
          /\ cmd'[s].step = "give up" /\ cmd'[s].vm = cmd[s].vm
      BY <1>0, <1>3, GoesOn
    <2>2. Known(s)'
      BY <1>0, <1>1, <1>2, <2>1 DEF Known, On, Live, Cleared, Starting
    <2>3. Frozen(s)' BY <1>0, <1>1, <1>2, <2>1 DEF Frozen, On, Live, Capturing
    <2>4. ImagesFit(s)' /\ Rests(s)' BY <2>1 DEF ImagesFit, Rests
    <2> QED BY <1>2, <2>1, <2>2, <2>3, <2>4, OnlyTheCommand
  <1>4. CASE SetsStepAndDisk(s, "resume", disk[s])
    <2>1. PICK d : d = disk[s] OBVIOUS
    <2>2. /\ CmdTable' /\ \A t \in Slots \ {s} : cmd'[t] = cmd[t]
          /\ cmd'[s] = Entry(cmd[s].op, "resume", cmd[s].vm, cmd[s].memory, d,
                             cmd[s].portable)
      <3>1. SetsStepAndDisk(s, "resume", d) BY <1>4, <2>1
      <3> QED BY <1>0, <3>1, StepAndDisk
    <2>3. /\ cmd'[s].step = "resume" /\ cmd'[s].vm = cmd[s].vm
          /\ cmd'[s].memory = cmd[s].memory /\ cmd'[s].disk = d
      BY <2>2 DEF Entry
    <2>4. OneMoment /\ s \notin strays => cmd[s].memory = d
      BY <1>0, <1>1, <2>1 DEF ImagesFit
    <2>5. Known(s)'
      BY <1>0, <1>1, <1>2, <2>3 DEF Known, On, Live, Cleared, Starting
    <2>6. Frozen(s)' BY <1>0, <1>1, <1>2, <2>3 DEF Frozen, On, Live, Capturing
    <2>7. ImagesFit(s)' /\ Rests(s)'
      BY <1>2, <2>3, <2>4 DEF ImagesFit, Rests, OneMoment
    <2> QED BY <1>2, <2>2, <2>3, <2>5, <2>6, <2>7, OnlyTheCommand
  <1> QED BY <1>3, <1>4 DEF Copy, Goes, SetsStepAndDisk

(* The guest goes on, or is left paused by a request that failed.           *)
LEMMA ResumeStep == ASSUME Inv, NEW s \in Slots, Resume(s) PROVE Fine(s)
  <1>0. /\ VmTable /\ CmdTable /\ Files /\ Names(s) /\ Known(s) /\ Frozen(s) /\ ImagesFit(s)
        /\ Agrees(s)
    BY PartsOf
  <1>1. cmd[s].step \in {"resume", "give up"} BY DEF Resume
  <1>2. UNCHANGED <<record, socket, disk, natives, started, strays>> BY DEF Resume
  <1>3. PICK i : i = socket[s] OBVIOUS
  <1>4. Guest(i) => i \in Vms /\ On(i, s) BY <1>0, <1>3 DEF Guest, Names, Live
  <1>5. /\ CmdTable' /\ \A t \in Slots \ {s} : cmd'[t] = cmd[t]
        /\ \/ cmd'[s] = Idle
           \/ /\ cmd[s].step = "resume" /\ cmd'[s].step = "attach" /\ cmd'[s].vm = cmd[s].vm
              /\ cmd'[s].memory = cmd[s].memory /\ cmd'[s].disk = cmd[s].disk
    <2>1. CASE At(s, "give up") BY <1>0, <2>1, IdleAgain DEF Resume
    <2>2. CASE ~At(s, "give up")
      <3>1. cmd[s].step = "resume" BY <1>1, <2>2 DEF At
      <3>2. Goes(s, "attach") BY <2>2 DEF Resume
      <3> QED BY <1>0, <3>1, <3>2, GoesOn
    <2> QED BY <2>1, <2>2
  <1>6. cmd'[s].vm = cmd[s].vm \/ cmd'[s].vm = None BY <1>5 DEF Idle
  <1>7. cmd'[s].step \in {"none", "attach"} BY <1>5 DEF Idle
  <1>8. ImagesFit(s)' /\ Rests(s)'
    BY <1>0, <1>2, <1>5 DEF ImagesFit, Rests, Idle, OneMoment
  <1>9. CASE ~Guest(i) /\ UNCHANGED vm
    <2>1. Known(s)'
      BY <1>0, <1>1, <1>2, <1>7, <1>9 DEF Known, On, Live, Cleared, Starting
    <2>2. Frozen(s)' BY <1>0, <1>2, <1>3, <1>9 DEF Frozen, On, Live, Guest
    <2> QED BY <1>2, <1>5, <1>6, <1>8, <1>9, <2>1, <2>2, OnlyTheCommand
  <1>10. CASE Guest(i) /\ TurnsTo(i, "up")
    <2>1. /\ VmTable' /\ \A j \in Vms \ {i} : vm'[j] = vm[j]
          /\ vm'[i].slot = vm[i].slot /\ vm'[i].state = "up"
          /\ vm'[i].memory = vm[i].memory /\ vm'[i].left = vm[i].left
      BY <1>0, <1>4, <1>10, StateChanges
    <2>2. Alters(s, i) BY <1>4, <1>10, <2>1 DEF Alters, Live
    <2>3. /\ Apart(s) /\ Tables' /\ Numbered' /\ CapturedAtOnce' /\ Names(s)'
          /\ \A j \in Vms : On(j, s)' <=> On(j, s)
      BY <1>0, <1>2, <1>5, <1>6, <2>2, AlteredApart DEF Files
    <2>4. Known(s)' BY <1>0, <1>1, <1>2, <1>7, <2>3 DEF Known, Cleared, Starting
    <2>5. Frozen(s)' BY <1>0, <1>3, <2>1, <2>3 DEF Frozen
    <2>6. Agrees(s)'
      BY <1>0, <1>2, <1>4, <1>10, <2>1, <2>3 DEF Agrees, Guest, OneMoment
    <2> QED BY <1>8, <2>3, <2>4, <2>5, <2>6 DEF Fine, SlotInv
  <1>11. CASE Guest(i) /\ vm' = [vm EXCEPT ![i].left = TRUE]
    <2>0. PICK yes : yes = TRUE OBVIOUS
    <2>1. Marks(i, yes) BY <1>11, <2>0 DEF Marks
    <2>2. /\ VmTable' /\ \A j \in Vms \ {i} : vm'[j] = vm[j]
          /\ vm'[i].slot = vm[i].slot /\ vm'[i].state = vm[i].state
          /\ vm'[i].memory = vm[i].memory /\ vm'[i].left = yes
      BY <1>0, <1>4, <1>11, <2>1, LeftChanges
    <2>3. Alters(s, i) BY <1>4, <1>11, <2>2 DEF Alters, Live, On
    <2>4. /\ Apart(s) /\ Tables' /\ Numbered' /\ CapturedAtOnce' /\ Names(s)'
          /\ \A j \in Vms : On(j, s)' <=> On(j, s)
      BY <1>0, <1>2, <1>5, <1>6, <2>3, AlteredApart DEF Files
    <2>5. Known(s)' BY <1>0, <1>1, <1>2, <1>7, <2>4 DEF Known, Cleared, Starting
    <2>6. Frozen(s)'
      <3>1. ASSUME NEW j \in Vms, On(j, s)', vm'[j].state = "paused" PROVE vm'[j].left
        <4>1. CASE j = i BY <2>0, <2>2, <4>1
        <4>2. CASE j # i
          <5>1. vm'[j] = vm[j] /\ On(j, s) /\ vm[j].state = "paused"
            BY <2>2, <2>4, <3>1, <4>2
          <5>2. vm[j].left BY <1>0, <1>3, <4>2, <5>1 DEF Frozen
          <5> QED BY <5>1, <5>2
        <4> QED BY <4>1, <4>2
      <3> QED BY <3>1 DEF Frozen
    <2>7. Agrees(s)'
      BY <1>0, <1>2, <1>4, <1>11, <2>2, <2>4 DEF Agrees, Guest, OneMoment
    <2> QED BY <1>8, <2>4, <2>5, <2>6, <2>7 DEF Fine, SlotInv
  <1> QED BY <1>3, <1>9, <1>10, <1>11 DEF Resume, AfterFailure, Thawed, TurnsTo

(* The images are attached to the parent the guest has sent.                *)
LEMMA AttachStep == ASSUME Inv, NEW s \in Slots, Attach(s) PROVE Fine(s)
  <1>0. /\ VmTable /\ CmdTable /\ Files /\ Numbered /\ CapturedAtOnce
        /\ Names(s) /\ Known(s) /\ Frozen(s) /\ ImagesFit(s) /\ Agrees(s)
    BY PartsOf
  <1>1. cmd[s].step = "attach" BY DEF Attach, At
  <1>2. CmdTable' /\ cmd'[s] = Idle /\ \A t \in Slots \ {s} : cmd'[t] = cmd[t]
    BY <1>0, IdleAgain DEF Attach
  <1>3. UNCHANGED <<vm, record, socket, disk, started, strays>> BY DEF Attach
  <1>4. natives \subseteq natives' BY DEF Attach
  <1>5. OneMoment' => OneMoment BY <1>4 DEF OneMoment
  <1>6. cmd'[s].vm = None /\ cmd'[s].step = "none" BY <1>2 DEF Idle
  <1>7. Apart(s) BY <1>0, <1>2, <1>3, <1>4 DEF Apart, Numbered, Live
  <1>8. Tables' BY <1>0, <1>2, <1>3 DEF Tables, Files, VmTable
  <1>9. Numbered' BY <1>0, <1>3 DEF Numbered, Live
  <1>10. CapturedAtOnce'
    <2>1. strays = {} => OneMoment /\ s \notin strays BY <1>0 DEF CapturedAtOnce
    <2>2. strays = {} => cmd[s].memory = cmd[s].disk BY <1>0, <1>1, <2>1 DEF ImagesFit
    <2>3. strays = {} => Captured(s).memory = Captured(s).disk
      BY <2>2 DEF Captured, Taken
    <2>4. natives' = natives \/ natives' = natives \cup {Captured(s)} BY DEF Attach
    <2>5. strays = {} => OneMoment' BY <2>1, <2>3, <2>4 DEF OneMoment
    <2> QED BY <1>3, <2>5 DEF CapturedAtOnce
  <1>11. Names(s)'
    <2>1. ~Live(None)' BY DEF Live, Vms, None
    <2>2. started \in Nat BY <1>0 DEF Numbered
    <2>3. cmd[s].vm' \in Int /\ cmd[s].vm' <= started' BY <1>3, <1>6, <2>2 DEF None
    <2>4. Live(cmd[s].vm)' => On(cmd[s].vm, s)' BY <1>6, <2>1
    <2> QED BY <1>0, <1>3, <2>3, <2>4 DEF Names, Live, On
  <1>12. Known(s)' BY <1>0, <1>1, <1>3, <1>6 DEF Known, On, Live, Cleared, Starting
  <1>13. Frozen(s)' BY <1>0, <1>1, <1>3 DEF Frozen, On, Live, Capturing
  <1>14. ImagesFit(s)' /\ Rests(s)' BY <1>2 DEF ImagesFit, Rests, Idle
  <1>15. Agrees(s)' BY <1>0, <1>3, <1>5 DEF Agrees, On, Live, Guest
  <1> QED BY <1>7, <1>8, <1>9, <1>10, <1>11, <1>12, <1>13, <1>14, <1>15 DEF Fine, SlotInv

-----------------------------------------------------------------------------
(* The guests, and commands that are killed.                                *)

(* A guest that writes is the only one on its disk.                         *)
LEMMA WriteStep ==
    ASSUME Inv, NEW i \in Vms, Write(i) PROVE \E s \in Slots : Fine(s)
  <1>0. PICK s : s = vm[i].slot OBVIOUS
  <1>1. On(i, s) /\ vm[i].state = "up" BY <1>0 DEF Write, On, Live
  <1>2. s \in Slots BY <1>0, <1>1 DEF Inv, Numbered, On
  <1>3. /\ VmTable /\ CmdTable /\ Files /\ Known(s) /\ Frozen(s) /\ ImagesFit(s) /\ Agrees(s)
        /\ Rests(s)
    BY <1>2, PartsOf
  <1>4. UNCHANGED <<record, socket, cmd, natives, started, strays>> BY DEF Write
  <1>5. PICK w : w = written' OBVIOUS
  <1>6. Sees(i, w) BY <1>5 DEF Write, Sees
  <1>7. /\ VmTable' /\ \A j \in Vms \ {i} : vm'[j] = vm[j]
        /\ vm'[i].slot = vm[i].slot /\ vm'[i].state = vm[i].state
        /\ vm'[i].memory = w /\ vm'[i].left = vm[i].left
    BY <1>3, <1>6, MemoryChanges
  <1>8. /\ disk' = [t \in Slots |-> disk'[t]]
        /\ \A t \in Slots \ {s} : disk'[t] = disk[t]
        /\ disk'[s] = w
    BY <1>0, <1>2, <1>3, <1>5 DEF Write, Files
  <1>9. Alters(s, i) BY <1>1, <1>7 DEF Alters, Live
  <1>10. CmdTable' BY <1>3, <1>4 DEF CmdTable
  <1>11. /\ Apart(s) /\ Tables' /\ Numbered' /\ CapturedAtOnce' /\ Names(s)'
         /\ \A j \in Vms : On(j, s)' <=> On(j, s)
    BY <1>2, <1>4, <1>8, <1>9, <1>10, AlteredApart
  <1>12. Known(s)' BY <1>3, <1>4, <1>7, <1>11 DEF Known, Cleared, Starting
  <1>13. Frozen(s)' BY <1>3, <1>4, <1>7, <1>11 DEF Frozen, Capturing
  <1>14. s \notin strays => cmd[s].step \notin Cleared \cup {"boot", "create", "copy"}
    BY <1>1, <1>3 DEF Known
  <1>15. ImagesFit(s)'
    BY <1>3, <1>4, <1>14 DEF ImagesFit, OneMoment, Cleared
  <1>16. s \notin strays => \A j \in Vms : On(j, s) => j = i
    BY <1>1, <1>3 DEF Known, Starting
  <1>17. Agrees(s)' BY <1>4, <1>7, <1>8, <1>11, <1>16 DEF Agrees
  <1>18. Rests(s)' BY <1>3, <1>4 DEF Rests, Idle
  <1>19. Fine(s) BY <1>11, <1>12, <1>13, <1>15, <1>17, <1>18 DEF Fine, SlotInv
  <1> QED BY <1>2, <1>19

(* A guest goes away.                                                       *)
LEMMA ExitsStep ==
    ASSUME Inv, NEW i \in Vms, Exits(i) PROVE \E s \in Slots : Fine(s)
  <1>0. PICK s : s = vm[i].slot OBVIOUS
  <1>1. On(i, s) /\ Live(i) BY <1>0 DEF Exits, On, Live, Guest
  <1>2. s \in Slots BY <1>0, <1>1 DEF Inv, Numbered
  <1>3. CmdTable /\ Known(s) /\ Frozen(s) /\ ImagesFit(s) /\ Agrees(s) /\ Rests(s)
    BY <1>2, PartsOf
  <1>4. UNCHANGED <<record, socket, disk, cmd, natives, started, strays>> BY DEF Exits
  <1>5. Reaps(s, i) BY <1>1, <1>4 DEF Exits, Reaps
  <1>6. CmdTable' BY <1>3, <1>4 DEF CmdTable
  <1>7. Apart(s) /\ Tables' /\ Numbered' /\ CapturedAtOnce' /\ Names(s)'
    BY <1>1, <1>2, <1>4, <1>5, <1>6, ReapedApart
  <1>8. \A j \in Vms : Live(j)' => Live(j) /\ j # i /\ vm'[j] = vm[j]
    BY <1>1, <1>2, <1>5, Reaped
  <1>9. \A j \in Vms : On(j, s)' => On(j, s) /\ vm'[j] = vm[j] BY <1>8 DEF On
  <1>10. Known(s)' BY <1>3, <1>4, <1>9 DEF Known
  <1>11. Frozen(s)' BY <1>3, <1>4, <1>9 DEF Frozen
  <1>12. ImagesFit(s)' BY <1>3, <1>4 DEF ImagesFit, OneMoment
  <1>13. Agrees(s)' BY <1>3, <1>4, <1>9 DEF Agrees, Guest, OneMoment
  <1>14. Rests(s)' BY <1>3, <1>4 DEF Rests, Idle
  <1>15. Fine(s) BY <1>7, <1>10, <1>11, <1>12, <1>13, <1>14 DEF Fine, SlotInv
  <1> QED BY <1>2, <1>15

(* Nothing is dropped when a command is killed: what state.json does not    *)
(* name is a stray from then on.                                            *)
LEMMA KilledStep == ASSUME Inv, NEW s \in Slots, Killed(s) PROVE Fine(s)
  <1>0. /\ VmTable /\ CmdTable /\ Files /\ Numbered /\ CapturedAtOnce
        /\ Names(s) /\ Known(s) /\ Frozen(s) /\ ImagesFit(s) /\ Agrees(s)
    BY PartsOf
  <1>1. CmdTable' /\ cmd'[s] = Idle /\ \A t \in Slots \ {s} : cmd'[t] = cmd[t]
    BY <1>0, IdleAgain DEF Killed
  <1>2. cmd'[s].vm = None /\ cmd'[s].step = "none" BY <1>1 DEF Idle
  <1>3. UNCHANGED <<socket, disk, natives, started>> BY DEF Killed
  <1>4. /\ record' = [t \in Slots |-> record'[t]]
        /\ \A t \in Slots \ {s} : record'[t] = record[t]
        /\ record'[s] \in {record[s], Unreadable}
    BY <1>0 DEF Killed, Files
  <1>5. PICK yes : yes = TRUE OBVIOUS
  <1>6. vm' = [i \in Vms |-> IF vm[i].slot = s /\ vm[i].state = "paused"
                             THEN [vm[i] EXCEPT !.left = yes] ELSE vm[i]]
    BY <1>5 DEF Killed
  <1>7. \A i \in Vms : [vm[i] EXCEPT !.left = yes] =
          [slot |-> vm[i].slot, state |-> vm[i].state, memory |-> vm[i].memory, left |-> yes]
    BY <1>0 DEF VmTable
  <1>8. /\ vm' = [i \in Vms |-> vm'[i]]
        /\ \A i \in Vms :
              IF vm[i].slot = s /\ vm[i].state = "paused"
              THEN vm'[i] = [slot |-> vm[i].slot, state |-> vm[i].state,
                             memory |-> vm[i].memory, left |-> yes]
              ELSE vm'[i] = vm[i]
    BY <1>6, <1>7
  <1>9. \A i \in Vms : /\ vm'[i].slot = vm[i].slot /\ vm'[i].state = vm[i].state
                       /\ vm'[i].memory = vm[i].memory
                       /\ vm[i].slot # s => vm'[i] = vm[i]
                       /\ vm[i].slot = s /\ vm[i].state = "paused" => vm'[i].left = yes
    BY <1>8
  <1>10. VmTable' BY <1>0, <1>8 DEF VmTable
  <1>11. \A j : (Live(j)' <=> Live(j)) /\ (On(j, s)' <=> On(j, s))
    BY <1>9 DEF Live, On
  <1>12. strays' = strays \cup {t \in {s} : \E i \in Vms : On(i, s) /\ record'[s] # i}
    BY DEF Killed, On
  <1>13. Apart(s)
    <2>1. \A t \in Slots \ {s} : t \in strays <=> t \in strays' BY <1>12
    <2> QED BY <1>0, <1>1, <1>3, <1>4, <1>9, <1>11, <2>1 DEF Apart, Numbered, Live
  <1>14. Tables' BY <1>0, <1>1, <1>3, <1>4, <1>10 DEF Tables, Files
  <1>15. Numbered' BY <1>0, <1>3, <1>9, <1>11 DEF Numbered
  <1>16. CapturedAtOnce' BY <1>0, <1>3, <1>12 DEF CapturedAtOnce, OneMoment
  <1>17. Names(s)'
    <2>1. started \in Nat BY <1>0 DEF Numbered
    <2>2. ~Live(None)' /\ ~Live(Unreadable)' BY DEF Live, Vms, None, Unreadable
    <2>3. record[s]' \in Int /\ record[s]' <= started'
      BY <1>0, <1>3, <1>4, <2>1 DEF Names, Unreadable
    <2>4. cmd[s].vm' \in Int /\ cmd[s].vm' <= started' BY <1>2, <1>3, <2>1 DEF None
    <2>5. Live(record[s])' => On(record[s], s)' BY <1>0, <1>4, <1>11, <2>2 DEF Names
    <2>6. Live(cmd[s].vm)' => On(cmd[s].vm, s)' BY <1>2, <2>2
    <2>7. Live(socket[s])' => On(socket[s], s)' BY <1>0, <1>3, <1>11 DEF Names
    <2> QED BY <1>0, <1>3, <2>3, <2>4, <2>5, <2>6, <2>7 DEF Names
  <1>18. Known(s)'
    <2>1. s \notin strays' => \A i \in Vms : On(i, s) => record'[s] = i BY <1>12
    <2> QED BY <1>2, <1>11, <2>1 DEF Known, Cleared, Starting
  <1>19. Frozen(s)'
    <2>1. \A i \in Vms : On(i, s) /\ vm'[i].state = "paused" => vm'[i].left = yes
      BY <1>9 DEF On
    <2> QED BY <1>5, <1>11, <2>1 DEF Frozen
  <1>20. ImagesFit(s)' /\ Rests(s)' BY <1>1 DEF ImagesFit, Rests, Idle
  <1>21. Agrees(s)'
    <2>1. s \notin strays' => s \notin strays BY <1>12
    <2> QED BY <1>0, <1>3, <1>9, <1>11, <2>1 DEF Agrees, Guest, OneMoment
  <1> QED BY <1>13, <1>14, <1>15, <1>16, <1>17, <1>18, <1>19, <1>20, <1>21 DEF Fine, SlotInv

-----------------------------------------------------------------------------
(* The inductive invariant.                                                 *)

(* It holds at first.                                                       *)
LEMMA InvInit == ASSUME Init PROVE Inv
  <1> USE DEF Init
  <1>1. Tables BY DEF Tables, VmTable, CmdTable, Files, Idle
  <1>2. Numbered BY DEF Numbered, Live
  <1>3. CapturedAtOnce
    <2> DEFINE elsewhere == [NoImages EXCEPT !.roles = Roles, !.fingerprint = "another host"]
    <2>1. PICK none, all, here, other :
            none = {} /\ all = Roles /\ here = "this host" /\ other = "another host"
      OBVIOUS
    <2> DEFINE there == [NoImages EXCEPT !.roles = all]
    <2>2. NoImages = [memory |-> 0, disk |-> 0, roles |-> none, fingerprint |-> here]
      BY <2>1 DEF NoImages
    <2>3. there = [memory |-> 0, disk |-> 0, roles |-> all, fingerprint |-> here]
      BY <2>2
    <2>4. elsewhere = [there EXCEPT !.fingerprint = other] BY <2>1
    <2> HIDE DEF there
    <2>5. elsewhere.memory = elsewhere.disk
      <3>1. [there EXCEPT !.fingerprint = other] =
              [memory |-> 0, disk |-> 0, roles |-> all, fingerprint |-> other]
        BY <2>3
      <3> HIDE DEF elsewhere
      <3> QED BY <2>4, <3>1
    <2>6. [NoImages EXCEPT !.roles = {"vmstate", "disk"}].memory =
            [NoImages EXCEPT !.roles = {"vmstate", "disk"}].disk
      BY DEF NoImages
    <2>7. NoImages.memory = NoImages.disk BY DEF NoImages
    <2> QED BY <2>5, <2>6, <2>7 DEF CapturedAtOnce, OneMoment, Received
  <1>4. \A i : ~Live(i) BY DEF Live
  <1>5. ASSUME NEW s \in Slots PROVE SlotInv(s)
    <2>1. Names(s) BY <1>4 DEF Names, Idle, None
    <2>2. Known(s) /\ Frozen(s) BY <1>4 DEF Known, Frozen, On
    <2>3. ImagesFit(s) /\ Rests(s) BY DEF ImagesFit, Rests, Idle
    <2>4. Agrees(s) BY <1>4 DEF Agrees, On
    <2> QED BY <2>1, <2>2, <2>3, <2>4 DEF SlotInv
  <1> QED BY <1>1, <1>2, <1>3, <1>5 DEF Inv

(* Every step keeps it.                                                     *)
LEMMA InvNext == ASSUME Inv, [Next]_vars PROVE Inv'
  <1>1. CASE UNCHANGED vars
    <2> USE <1>1 DEF vars
    <2>1. Tables' BY DEF Inv, Tables, VmTable, CmdTable, Files
    <2>2. Numbered' BY DEF Inv, Numbered, Live
    <2>3. CapturedAtOnce' BY DEF Inv, CapturedAtOnce, OneMoment
    <2>4. ASSUME NEW s \in Slots PROVE SlotInv(s)'
      <3>1. Names(s)' BY PartsOf DEF Names, On, Live
      <3>2. Known(s)' BY PartsOf DEF Known, On, Live
      <3>3. Frozen(s)' BY PartsOf DEF Frozen, On, Live
      <3>4. ImagesFit(s)' BY PartsOf DEF ImagesFit, OneMoment
      <3>5. Agrees(s)' BY PartsOf DEF Agrees, On, Live, Guest, OneMoment
      <3>6. Rests(s)' BY PartsOf DEF Rests, Idle
      <3> QED BY <3>1, <3>2, <3>3, <3>4, <3>5, <3>6 DEF SlotInv
    <2> QED BY <2>1, <2>2, <2>3, <2>4 DEF Inv
  <1>2. ASSUME NEW s \in Slots, Up(s) \/ Down(s) \/ Snapshot(s) PROVE Inv'
    BY <1>2, UpStep, DownStep, SnapshotStep, FineIsEnough
  <1>3. ASSUME NEW s \in Slots, NEW n \in natives, NEW p \in BOOLEAN, Restore(s, n, p)
        PROVE  Inv'
    BY <1>3, RestoreStep, FineIsEnough
  <1>4. ASSUME NEW s \in Slots, Resolve(s) PROVE Inv' BY <1>4, ResolveStep, FineIsEnough
  <1>5. ASSUME NEW s \in Slots,
               Stop(s) \/ Forget(s) \/ Unrule(s) \/ \E t \in Slots : Look(s, t)
        PROVE  Inv'
    BY <1>5, StopStep, ForgetStep, RuleStep, FineIsEnough
  <1>6. ASSUME NEW s \in Slots,
               Image(s) \/ Inject(s) \/ Network(s) \/ Spawn(s) \/ Boot(s) \/ Record(s) \/ Ready(s)
        PROVE  Inv'
    BY <1>6, ImageStep, InjectStep, NetworkStep, SpawnStep, BootStep, RecordStep, ReadyStep,
       FineIsEnough
  <1>7. ASSUME NEW s \in Slots, StartFails(s) \/ Unpack(s) PROVE Inv'
    BY <1>7, StartFailsStep, UnpackStep, FineIsEnough
  <1>8. ASSUME NEW s \in Slots, Pause(s) \/ Create(s) \/ Copy(s) \/ Resume(s) \/ Attach(s)
        PROVE  Inv'
    BY <1>8, PauseStep, CreateStep, CopyStep, ResumeStep, AttachStep, FineIsEnough
  <1>9. ASSUME NEW i \in Vms, Write(i) \/ Exits(i) PROVE Inv'
    BY <1>9, WriteStep, ExitsStep, FineIsEnough
  <1>10. ASSUME NEW s \in Slots, Killed(s) PROVE Inv' BY <1>10, KilledStep, FineIsEnough
  <1> QED BY <1>1, <1>2, <1>3, <1>4, <1>5, <1>6, <1>7, <1>8, <1>9, <1>10 DEF Next

(* It always holds.                                                         *)
THEOREM InvAlways == Spec => []Inv
  <1>1. Init => Inv BY InvInit
  <1>2. Inv /\ [Next]_vars => Inv' BY InvNext
  <1> QED BY <1>1, <1>2, PTL DEF Spec

(* A guest of a slot that has lost track of no process agrees with its disk *)
(* while every native snapshot is of one moment.                            *)
THEOREM GuestsAgree == Spec => []Coherent
  <1>1. Inv => Coherent
    <2>1. ASSUME Inv, OneMoment, NEW i \in Vms, Guest(i), vm[i].slot \notin strays
          PROVE  vm[i].memory = disk[vm[i].slot]
      <3>1. Live(i) /\ vm[i].slot \in Slots BY <2>1 DEF Inv, Numbered, Live, Guest
      <3>2. Agrees(vm[i].slot) BY <2>1, <3>1, PartsOf
      <3> QED BY <2>1, <3>1, <3>2 DEF Agrees, On
    <2> QED BY <2>1 DEF Coherent
  <1> QED BY <1>1, InvAlways, PTL

(* Memory and disk of a native snapshot are of one moment.                  *)
THEOREM SnapshotsWhole == Spec => []CapturedAtOnce
  <1>1. Inv => CapturedAtOnce BY DEF Inv
  <1> QED BY <1>1, InvAlways, PTL

(* No guest stays paused by the work of a command that went well.           *)
THEOREM GuestsRunAgain == Spec => []RunsAgain
  <1>1. Inv => RunsAgain
    <2>1. ASSUME Inv, NEW i \in Vms, vm[i].state = "paused"
          PROVE  vm[i].left \/ cmd[vm[i].slot].step \in {"create", "copy", "resume", "give up"}
      <3>1. Live(i) /\ vm[i].slot \in Slots BY <2>1 DEF Inv, Numbered, Live
      <3>2. Frozen(vm[i].slot) BY <3>1, <2>1, PartsOf
      <3> QED BY <2>1, <3>1, <3>2 DEF Frozen, On, Capturing
    <2> QED BY <2>1 DEF RunsAgain
  <1> QED BY <1>1, InvAlways, PTL

-----------------------------------------------------------------------------
(* The network.                                                             *)

(* A slot being started, or with a guest that state.json names, has its TAP *)
(* and the rule, but for what a down has found idle and taken from it.      *)
Ahead == {"spawn", "boot", "record", "wait", "unpack"}
Networked(s) ==
  /\ cmd[s].step \in Ahead => s \in tap /\ (nat \/ s \in cut)
  /\ s \notin strays /\ Guest(record[s]) => s \in tap /\ (nat \/ s \in cut)
  /\ cmd[s].step \in {"wait", "unpack"} => record[s] = cmd[s].vm

NetInv == Inv /\ \A s \in Slots : Networked(s)

(* What a step shows of its own slot, and of the network of the others.     *)
NetFine(s) ==
  /\ Networked(s)'
  /\ \A t \in Slots \ {s} : t \in tap => t \in tap'
  /\ \A t \in Slots \ {s} : nat \/ t \in cut => nat' \/ t \in cut'

(* It is enough for the other slots.                                        *)
LEMMA NetFineIsEnough ==
    ASSUME NetInv, NEW s \in Slots, Fine(s), NetFine(s)
    PROVE  NetInv'
  <1>1. Inv' BY FineIsEnough DEF NetInv
  <1>2. \A t \in Slots \ {s} : cmd'[t] = cmd[t] BY DEF Fine, Apart
  <1>4. ASSUME NEW t \in Slots, t # s PROVE Networked(t)'
    <2>1. record'[t] = record[t] /\ (t \in strays <=> t \in strays')
      BY <1>4 DEF Fine, Apart
    <2>2. Guest(record[t])' => Guest(record[t]) /\ Live(record[t])
      <3>1. Names(t) BY PartsOf DEF NetInv
      <3>2. SUFFICES ASSUME Guest(record[t])' PROVE Guest(record[t]) /\ Live(record[t])
        OBVIOUS
      <3>3. PICK i : i = record[t] OBVIOUS
      <3>4. i \in Vms /\ i <= started /\ Live(i)' BY <2>1, <3>1, <3>2, <3>3 DEF Guest, Live, Names
      <3>5. Live(i) /\ vm[i].slot = t BY <3>1, <3>3, <3>4 DEF Fine, Apart, Names, On
      <3>6. vm'[i] = vm[i] BY <1>4, <3>4, <3>5 DEF Fine, Apart
      <3> QED BY <2>1, <3>2, <3>3, <3>5, <3>6 DEF Guest
    <2>3. Networked(t) BY DEF NetInv
    <2> QED BY <1>2, <1>4, <2>1, <2>2, <2>3 DEF Networked, NetFine, Ahead
  <1> QED BY <1>1, <1>4 DEF NetInv, NetFine

(* A step of a command that leaves the network alone.                       *)
LEMMA NetSame ==
    ASSUME NetInv, NEW s \in Slots, UNCHANGED <<tap, nat, cut>>,
           s \in strays => s \in strays',
           s \notin strays' /\ Guest(record[s])' => Guest(record[s]),
           cmd'[s].step \in Ahead => cmd[s].step \in Ahead,
           cmd'[s].step \in {"wait", "unpack"} => record'[s] = cmd'[s].vm
    PROVE  NetFine(s)
  <1>1. Networked(s) BY DEF NetInv
  <1>2. Networked(s)' BY <1>1 DEF Networked
  <1> QED BY <1>2 DEF NetFine

(* A command begins on an idle slot.                                        *)
LEMMA NetBegins ==
    ASSUME NetInv, NEW s \in Slots, NEW c, Begins(s, c),
           c.step \in {"down", "pause", "resolve"},
           UNCHANGED <<vm, record, host, strays>>
    PROVE  NetFine(s)
  <1>1. CmdTable BY PartsOf DEF NetInv
  <1>2. cmd'[s] = c BY <1>1 DEF Begins, CmdTable
  <1>3. Guest(record[s])' => Guest(record[s]) BY DEF Guest
  <1>4. cmd'[s].step \notin Ahead /\ cmd'[s].step \notin {"wait", "unpack"}
    BY <1>2 DEF Ahead
  <1> QED BY <1>3, <1>4, NetSame DEF host

(* up, down, snapshot and restore begin.                                    *)
LEMMA NetCommands ==
    ASSUME NetInv, NEW s \in Slots,
           Up(s) \/ Down(s) \/ Snapshot(s) \/ \E n \in natives, p \in BOOLEAN : Restore(s, n, p)
    PROVE  NetFine(s)
  <1>0. \A o, e : [Idle EXCEPT !.op = o, !.step = e].step = e
    <2>1. TAKE o, e
    <2>2. PICK no : no = FALSE OBVIOUS
    <2>3. Idle = Entry("none", "none", None, 0, 0, no) BY <2>2 DEF Idle, Entry
    <2> DEFINE r1 == [Idle EXCEPT !.op = o]
    <2>4. [Idle EXCEPT !.op = o, !.step = e] = [r1 EXCEPT !.step = e] OBVIOUS
    <2>5. r1 = Entry(o, "none", None, 0, 0, no) BY <2>3 DEF Entry
    <2> HIDE DEF r1
    <2>6. [r1 EXCEPT !.step = e].step = e BY <2>5 DEF Entry
    <2> QED BY <2>4, <2>6
  <1>1. CASE Up(s) BY <1>0, <1>1, NetBegins DEF Up
  <1>2. CASE Down(s) BY <1>0, <1>2, NetBegins DEF Down
  <1>3. CASE Snapshot(s) BY <1>0, <1>3, NetBegins DEF Snapshot
  <1>4. ASSUME NEW n \in natives, NEW p \in BOOLEAN, Restore(s, n, p) PROVE NetFine(s)
    <2> DEFINE c == IF plan_restore(n, p) = "native"
                    THEN [op |-> "native", step |-> "down", vm |-> None, memory |-> n.memory,
                          disk |-> n.disk, portable |-> p]
                    ELSE [Idle EXCEPT !.op = "portable", !.step = "resolve"]
    <2>1. Begins(s, c) /\ UNCHANGED <<vm, record, host, strays>> BY <1>4 DEF Restore
    <2>2. c.step \in {"down", "pause", "resolve"} BY <1>0
    <2> HIDE DEF c
    <2> QED BY <2>1, <2>2, NetBegins
  <1> QED BY <1>1, <1>2, <1>3, <1>4

(* The steps between the beginning of a command and its network.            *)
LEMMA NetDown ==
    ASSUME NetInv, NEW s \in Slots, Resolve(s) \/ Stop(s) \/ Forget(s)
    PROVE  NetFine(s)
  <1>0. /\ VmTable /\ CmdTable /\ Files /\ Names(s) BY PartsOf DEF NetInv
  <1>1. CASE Resolve(s)
    <2>1. cmd'[s].step \in {"down", "none"}
      BY <1>0, <1>1, GoesOn, IdleAgain DEF Resolve, Idle
    <2>2. UNCHANGED <<vm, record, host, strays>> BY <1>1 DEF Resolve
    <2>3. Guest(record[s])' => Guest(record[s]) BY <2>2 DEF Guest
    <2> QED BY <2>1, <2>2, <2>3, NetSame DEF Ahead, host
  <1>2. CASE Stop(s)
    <2>1. cmd'[s].step = "forget" BY <1>0, <1>2, GoesOn DEF Stop
    <2>2. UNCHANGED <<record, nat, cut, strays>> BY <1>2 DEF Stop
    <2>3. Reaps(s, record[s])
      <3>1. CASE record[s] \in Vms \cup {None} BY <1>2, <3>1 DEF Stop, Reaps
      <3>2. CASE record[s] \notin Vms \cup {None} BY <1>2, <3>2 DEF Stop, Reaps, Live
      <3> QED BY <3>1, <3>2
    <2>4. Live(record[s]) => On(record[s], s) BY <1>0 DEF Names
    <2>5. \A j \in Vms : Live(j)' => Live(j) /\ j # record[s] /\ vm'[j] = vm[j]
      BY <2>3, <2>4, Reaped DEF NetInv
    <2>6. ~Guest(record[s])' BY <2>2, <2>5 DEF Guest, Live
    <2>7. Networked(s)' BY <2>1, <2>6 DEF Networked, Ahead
    <2>8. \A t \in Slots \ {s} : t \in tap => t \in tap' BY <1>2 DEF Stop
    <2> QED BY <2>2, <2>7, <2>8 DEF NetFine
  <1>3. CASE Forget(s)
    <2>1. cmd'[s].step = "rule" BY <1>0, <1>3, GoesOn DEF Forget
    <2>2. UNCHANGED <<tap, nat, cut>> BY <1>3 DEF Forget, host
    <2>3. record'[s] \notin Vms BY <1>0, <1>3 DEF Forget, Files, Vms, None
    <2>4. Networked(s)' BY <2>1, <2>3 DEF Networked, Ahead, Guest
    <2> QED BY <2>2, <2>4 DEF NetFine
  <1> QED BY <1>1, <1>2, <1>3

(* The rule goes when every state.json has been found to run nothing, or is *)
(* left alone.                                                              *)
LEMMA NetRule ==
    ASSUME NetInv, NEW s \in Slots, Unrule(s) \/ \E t \in Slots : Look(s, t)
    PROVE  NetFine(s)
  <1>0. CmdTable BY PartsOf DEF NetInv
  <1>1. cmd'[s].step \notin Ahead
    <2>1. CASE Onward(s) BY <1>0, <2>1, Continues DEF Idle, Ahead
    <2>2. CASE UNCHANGED cmd BY <2>2 DEF Unrule, Look, At, Ahead
    <2> QED BY <2>1, <2>2 DEF Unrule, Look
  <1>2. UNCHANGED <<vm, record, tap, strays>> BY DEF Unrule, Look
  <1>3. Guest(record[s])' => Guest(record[s]) BY <1>2 DEF Guest
  <1>4. CASE \E t \in Slots : Look(s, t)
    <2>1. UNCHANGED <<nat, cut>> BY <1>4 DEF Look
    <2> QED BY <1>1, <1>2, <1>3, <2>1, NetSame DEF Ahead
  <1>5. CASE Unrule(s)
    <2>1. cut' = Slots BY <1>5 DEF Unrule, NoneRuns
    <2>2. Networked(s) BY DEF NetInv
    <2>3. Networked(s)' BY <1>1, <1>2, <1>3, <2>1, <2>2 DEF Networked, Ahead
    <2> QED BY <1>2, <2>1, <2>3 DEF NetFine
  <1> QED BY <1>4, <1>5

(* The steps of a start that goes well.                                     *)
LEMMA NetUp ==
    ASSUME NetInv, NEW s \in Slots,
           Image(s) \/ Inject(s) \/ Network(s) \/ Boot(s) \/ Record(s) \/ Ready(s)
    PROVE  NetFine(s)
  <1>0. /\ VmTable /\ CmdTable /\ Files /\ Names(s) /\ Networked(s)
    BY PartsOf DEF NetInv
  <1>1. CASE Image(s) \/ Inject(s)
    <2>1. cmd'[s].step \in {"inject", "network"} BY <1>0, <1>1, GoesOn DEF Image, Inject
    <2>2. UNCHANGED <<vm, record, host, strays>> BY <1>1 DEF Image, Inject
    <2>3. Guest(record[s])' => Guest(record[s]) BY <2>2 DEF Guest
    <2> QED BY <2>1, <2>2, <2>3, NetSame DEF Ahead, host
  <1>2. CASE Network(s)
    <2>1. cmd'[s].step = "spawn" BY <1>0, <1>2, GoesOn DEF Network
    <2>2. s \in tap' /\ nat' /\ tap \subseteq tap' BY <1>2 DEF Network
    <2>3. Networked(s)' BY <2>1, <2>2 DEF Networked
    <2> QED BY <2>2, <2>3 DEF NetFine
  <1>3. CASE Boot(s)
    <2>1. cmd'[s].step = "record" /\ cmd[s].step = "boot" BY <1>0, <1>3, GoesOn DEF Boot, At
    <2>2. UNCHANGED host BY <1>3 DEF Boot
    <2>3. Networked(s)' BY <1>0, <2>1, <2>2 DEF Networked, Ahead, host
    <2> QED BY <2>1, <2>2, <2>3 DEF NetFine, host
  <1>4. CASE Record(s)
    <2>1. cmd'[s].step = "wait" /\ cmd[s].step = "record" /\ cmd'[s].vm = cmd[s].vm
      BY <1>0, <1>4, GoesOn DEF Record, At
    <2>2. UNCHANGED host BY <1>4 DEF Record
    <2>3. record'[s] = cmd[s].vm BY <1>0, <1>4 DEF Record, Files
    <2>4. Networked(s)' BY <1>0, <2>1, <2>2, <2>3 DEF Networked, Ahead, host
    <2> QED BY <2>1, <2>2, <2>4 DEF NetFine, host
  <1>5. CASE Ready(s)
    <2>1. cmd[s].step = "wait" /\ UNCHANGED <<vm, record, host, strays>>
      BY <1>5 DEF Ready, At
    <2>2. cmd'[s].step = "none" \/ cmd'[s].vm = cmd[s].vm
      BY <1>0, <1>5, GoesOn, IdleAgain DEF Ready, Idle
    <2>3. Networked(s)' BY <1>0, <2>1, <2>2 DEF Networked, Ahead, host
    <2> QED BY <2>1, <2>3 DEF NetFine, host
  <1> QED BY <1>1, <1>2, <1>3, <1>4, <1>5

(* The process is started on a slot that has its network.                   *)
LEMMA NetSpawn == ASSUME NetInv, NEW s \in Slots, Spawn(s) PROVE NetFine(s)
  <1>0. CmdTable /\ Networked(s) BY PartsOf DEF NetInv
  <1>1. PICK i : i = started' OBVIOUS
  <1>2. SetsStepAndVm(s, "boot", i) BY <1>1 DEF Spawn, SetsStepAndVm
  <1>3. cmd'[s].step = "boot"
    <2>1. cmd'[s] = Entry(cmd[s].op, "boot", i, cmd[s].memory, cmd[s].disk, cmd[s].portable)
      BY <1>0, <1>2, StepAndVm
    <2> QED BY <2>1 DEF Entry
  <1>4. cmd[s].step = "spawn" /\ UNCHANGED host BY DEF Spawn, At
  <1>5. Networked(s)' BY <1>0, <1>3, <1>4 DEF Networked, Ahead, host
  <1> QED BY <1>4, <1>5 DEF NetFine, host

(* A start that fails, and the workspace that replaces the guest's.         *)
LEMMA NetFails ==
    ASSUME NetInv, NEW s \in Slots, StartFails(s) \/ Unpack(s)
    PROVE  NetFine(s)
  <1>0. /\ VmTable /\ CmdTable /\ Files /\ Names(s) /\ Known(s) /\ Networked(s)
    BY PartsOf DEF NetInv
  <1>1. CASE StartFails(s)
    <2>1. cmd'[s].step \in {"none", "down"} BY <1>0, <1>1, FailedCommand DEF Idle
    <2>2. UNCHANGED <<record, nat, cut, strays>> BY <1>1 DEF StartFails
    <2>3. CASE cmd[s].step \in {"image", "inject", "network"} /\ UNCHANGED vm /\ tap \subseteq tap'
      <3>1. s \notin strays => ~Guest(record[s])
        BY <1>0, <2>3 DEF Known, Names, Guest, Live, Cleared
      <3>2. Networked(s)' BY <2>1, <2>2, <2>3, <3>1 DEF Networked, Ahead, Guest
      <3> QED BY <2>2, <2>3, <3>2 DEF NetFine
    <2>4. CASE cmd[s].step \in {"spawn", "boot", "record", "wait"} /\ Dropped(s)
      <3>1. Reaps(s, cmd[s].vm) BY <2>4 DEF Dropped, Reaps
      <3>2. Live(cmd[s].vm) => On(cmd[s].vm, s) BY <1>0 DEF Names
      <3>3. \A j \in Vms : Live(j)' => Live(j) /\ j # cmd[s].vm /\ vm'[j] = vm[j]
        BY <3>1, <3>2, Reaped DEF NetInv
      <3>4. Guest(record[s])' => On(record[s], s) /\ record[s] \in Vms /\ record[s] # cmd[s].vm
        BY <1>0, <2>2, <3>3 DEF Names, Guest, Live
      <3>5. s \notin strays => ~Guest(record[s])'
        BY <1>0, <2>4, <3>4 DEF Known, Cleared, Starting, Networked
      <3>6. Networked(s)' BY <2>1, <2>2, <3>5 DEF Networked, Ahead
      <3>7. \A t \in Slots \ {s} : t \in tap => t \in tap' BY <2>4 DEF Dropped
      <3> QED BY <2>2, <2>4, <3>6, <3>7 DEF NetFine
    <2>5. \/ cmd[s].step \in {"image", "inject", "network"} /\ UNCHANGED vm /\ tap \subseteq tap'
          \/ cmd[s].step \in {"spawn", "boot", "record", "wait"} /\ Dropped(s)
      BY <1>1 DEF StartFails, At
    <2> QED BY <2>3, <2>4, <2>5
  <1>2. CASE Unpack(s)
    <2>1. cmd'[s].step = "none" BY <1>0, <1>2, IdleAgain DEF Unpack, Idle
    <2>2. cmd[s].step = "unpack" /\ UNCHANGED host BY <1>2 DEF Unpack, At
    <2>3. Networked(s)' BY <1>0, <2>1, <2>2 DEF Networked, Ahead, host
    <2> QED BY <2>2, <2>3 DEF NetFine, host
  <1> QED BY <1>1, <1>2

(* The steps of a snapshot.                                                 *)
LEMMA NetSnapshot ==
    ASSUME NetInv, NEW s \in Slots,
           Pause(s) \/ Create(s) \/ Copy(s) \/ Resume(s) \/ Attach(s)
    PROVE  NetFine(s)
  <1>0. VmTable /\ CmdTable BY PartsOf DEF NetInv
  <1>1. UNCHANGED <<record, tap, nat, cut, strays>>
    BY DEF Pause, Create, Copy, Resume, Attach, host
  <1>2. cmd'[s].step \notin Ahead
    <2>1. CASE Ends(s) BY <1>0, <2>1, IdleAgain DEF Idle, Ahead
    <2>2. ASSUME NEW e \in {"create", "give up", "attach"}, Goes(s, e)
          PROVE  cmd'[s].step \notin Ahead
      BY <1>0, <2>2, GoesOn DEF Ahead
    <2>3. ASSUME NEW m, SetsStepAndMemory(s, "copy", m) PROVE cmd'[s].step \notin Ahead
      <3>1. cmd'[s] = Entry(cmd[s].op, "copy", cmd[s].vm, m, cmd[s].disk, cmd[s].portable)
        BY <1>0, <2>3, StepAndMemory
      <3> QED BY <3>1 DEF Entry, Ahead
    <2>4. ASSUME NEW d, SetsStepAndDisk(s, "resume", d) PROVE cmd'[s].step \notin Ahead
      <3>1. cmd'[s] = Entry(cmd[s].op, "resume", cmd[s].vm, cmd[s].memory, d, cmd[s].portable)
        BY <1>0, <2>4, StepAndDisk
      <3> QED BY <3>1 DEF Entry, Ahead
    <2>5. CASE Pause(s) BY <2>1, <2>2, <2>5 DEF Pause
    <2>6. CASE Create(s)
      <3>1. PICK m : m = vm[socket[s]].memory OBVIOUS
      <3>2. SetsStepAndMemory(s, "copy", m) \/ Goes(s, "give up")
        BY <2>6, <3>1 DEF Create, SetsStepAndMemory, Goes
      <3> QED BY <2>2, <2>3, <3>2
    <2>7. CASE Copy(s)
      <3>1. PICK d : d = disk[s] OBVIOUS
      <3>2. SetsStepAndDisk(s, "resume", d) \/ Goes(s, "give up")
        BY <2>7, <3>1 DEF Copy, SetsStepAndDisk, Goes
      <3> QED BY <2>2, <2>4, <3>2
    <2>8. CASE Resume(s) BY <2>1, <2>2, <2>8 DEF Resume
    <2>9. CASE Attach(s) BY <2>1, <2>9 DEF Attach
    <2> QED BY <2>5, <2>6, <2>7, <2>8, <2>9
  <1>3. \A j : Guest(j)' => Guest(j)
    <2>1. PICK i : i = socket[s] OBVIOUS
    <2>2. PICK yes : yes = TRUE OBVIOUS
    <2>3. \/ UNCHANGED vm
          \/ Guest(i) /\ TurnsTo(i, "paused")
          \/ Guest(i) /\ TurnsTo(i, "up")
          \/ Guest(i) /\ Halts(i, "paused", yes)
          \/ Guest(i) /\ Marks(i, yes)
      BY <2>1, <2>2 DEF Pause, Create, Copy, Resume, Attach, TurnsTo, Halts, Marks, Thawed,
                        AfterFailure
    <2>4. UNCHANGED vm \/ (Guest(i) /\ \A j \in Vms \ {i} : vm'[j] = vm[j])
      BY <1>0, <2>3, StateChanges, StateAndLeft, LeftChanges DEF Guest
    <2> QED BY <2>4 DEF Guest
  <1>4. Guest(record[s])' => Guest(record[s]) BY <1>1, <1>3
  <1>5. cmd'[s].step \notin {"wait", "unpack"} BY <1>2 DEF Ahead
  <1> QED BY <1>1, <1>2, <1>4, <1>5, NetSame

(* The guests, and commands that are killed.                                *)
LEMMA NetGuests ==
    ASSUME NetInv, NEW i \in Vms, Write(i) \/ Exits(i), NEW s \in Slots
    PROVE  NetFine(s)
  <1>0. VmTable /\ CmdTable /\ Networked(s) BY PartsOf DEF NetInv
  <1>1. UNCHANGED <<record, host, cmd, strays>> BY DEF Write, Exits
  <1>2. \A j : Guest(j)' => Guest(j)
    <2>1. CASE Exits(i)
      <3>1. vm'[i].state = "dead" /\ \A j \in Vms \ {i} : vm'[j] = vm[j]
        BY <1>0, <2>1, Dies DEF Exits
      <3> QED BY <3>1 DEF Guest
    <2>2. CASE Write(i)
      <3>1. PICK w : w = written' OBVIOUS
      <3>2. Sees(i, w) BY <2>2, <3>1 DEF Write, Sees
      <3>3. vm'[i].state = vm[i].state /\ \A j \in Vms \ {i} : vm'[j] = vm[j]
        BY <1>0, <3>2, MemoryChanges
      <3> QED BY <3>3 DEF Guest
    <2> QED BY <2>1, <2>2
  <1>3. Guest(record[s])' => Guest(record[s]) BY <1>1, <1>2
  <1>4. Networked(s)' BY <1>0, <1>1, <1>3 DEF Networked, host
  <1> QED BY <1>1, <1>4 DEF NetFine, host

(* A killed command drops nothing, and the rule and the TAPs stay.          *)
LEMMA NetKilled == ASSUME NetInv, NEW s \in Slots, Killed(s) PROVE NetFine(s)
  <1>0. VmTable /\ CmdTable /\ Files BY PartsOf DEF NetInv
  <1>2. UNCHANGED <<tap, nat, cut>> BY DEF Killed
  <1>3. cmd'[s].step = "none" BY <1>0, IdleAgain DEF Killed, Idle
  <1>4. record'[s] \in {record[s], Unreadable} BY <1>0 DEF Killed, Files
  <1>5. s \in strays => s \in strays' BY DEF Killed
  <1>6. PICK yes : yes = TRUE OBVIOUS
  <1>7. vm' = [i \in Vms |-> IF vm[i].slot = s /\ vm[i].state = "paused"
                             THEN [vm[i] EXCEPT !.left = yes] ELSE vm[i]]
    BY <1>6 DEF Killed
  <1>8. \A i \in Vms : [vm[i] EXCEPT !.left = yes].state = vm[i].state
    <2>1. TAKE i \in Vms
    <2>2. vm[i] = [slot |-> vm[i].slot, state |-> vm[i].state, memory |-> vm[i].memory,
                   left |-> vm[i].left]
      BY <1>0 DEF VmTable
    <2> QED BY <2>2
  <1>9. \A i \in Vms : vm'[i].state = vm[i].state BY <1>7, <1>8
  <1>10. Guest(record[s])' => Guest(record[s])
    BY <1>4, <1>9 DEF Guest, Vms, Unreadable
  <1>11. cmd'[s].step \notin Ahead BY <1>3 DEF Ahead
  <1> QED BY <1>2, <1>3, <1>5, <1>10, <1>11, NetSame

(* Every step keeps it.                                                     *)
LEMMA NetNext == ASSUME NetInv, [Next]_vars PROVE NetInv'
  <1>0. Inv BY DEF NetInv
  <1>1. CASE UNCHANGED vars
    <2>1. Inv' BY <1>0, InvNext
    <2>2. \A s \in Slots : Networked(s)' BY <1>1 DEF vars, host, NetInv, Networked, Guest
    <2> QED BY <2>1, <2>2 DEF NetInv
  <1>2. ASSUME NEW s \in Slots, Up(s) \/ Down(s) \/ Snapshot(s) PROVE NetInv'
    BY <1>0, <1>2, UpStep, DownStep, SnapshotStep, NetCommands, NetFineIsEnough
  <1>3. ASSUME NEW s \in Slots, NEW n \in natives, NEW p \in BOOLEAN, Restore(s, n, p)
        PROVE  NetInv'
    BY <1>0, <1>3, RestoreStep, NetCommands, NetFineIsEnough
  <1>4. ASSUME NEW s \in Slots, Resolve(s) \/ Stop(s) \/ Forget(s) PROVE NetInv'
    BY <1>0, <1>4, ResolveStep, StopStep, ForgetStep, NetDown, NetFineIsEnough
  <1>4a. ASSUME NEW s \in Slots, Unrule(s) \/ \E t \in Slots : Look(s, t) PROVE NetInv'
    BY <1>0, <1>4a, RuleStep, NetRule, NetFineIsEnough
  <1>5. ASSUME NEW s \in Slots,
               Image(s) \/ Inject(s) \/ Network(s) \/ Boot(s) \/ Record(s) \/ Ready(s)
        PROVE  NetInv'
    BY <1>0, <1>5, ImageStep, InjectStep, NetworkStep, BootStep, RecordStep, ReadyStep, NetUp,
       NetFineIsEnough
  <1>6. ASSUME NEW s \in Slots, Spawn(s) PROVE NetInv'
    BY <1>0, <1>6, SpawnStep, NetSpawn, NetFineIsEnough
  <1>7. ASSUME NEW s \in Slots, StartFails(s) \/ Unpack(s) PROVE NetInv'
    BY <1>0, <1>7, StartFailsStep, UnpackStep, NetFails, NetFineIsEnough
  <1>8. ASSUME NEW s \in Slots, Pause(s) \/ Create(s) \/ Copy(s) \/ Resume(s) \/ Attach(s)
        PROVE  NetInv'
    BY <1>0, <1>8, PauseStep, CreateStep, CopyStep, ResumeStep, AttachStep, NetSnapshot,
       NetFineIsEnough
  <1>9. ASSUME NEW i \in Vms, Write(i) \/ Exits(i) PROVE NetInv'
    <2>1. PICK s \in Slots : Fine(s) BY <1>0, <1>9, WriteStep, ExitsStep
    <2> QED BY <1>9, <2>1, NetGuests, NetFineIsEnough
  <1>10. ASSUME NEW s \in Slots, Killed(s) PROVE NetInv'
    BY <1>0, <1>10, KilledStep, NetKilled, NetFineIsEnough
  <1> QED BY <1>1, <1>2, <1>3, <1>4, <1>5, <1>6, <1>7, <1>8, <1>9, <1>10, <1>4a DEF Next

(* A guest that state.json names and no command works on keeps its TAP, and *)
(* the NAT rule unless a down that had found its slot idle has removed it,  *)
(* whatever becomes of the other slots.                                     *)
THEOREM GuestsReachable == Spec => []Reachable
  <1>1. Init => NetInv
    <2>1. Init => Inv BY InvInit
    <2>2. ASSUME Init, NEW s \in Slots PROVE Networked(s)
      <3>1. cmd[s].step = "none" /\ record[s] = None BY <2>2 DEF Init, Idle
      <3> QED BY <3>1 DEF Networked, Ahead, Guest, None, Vms
    <2> QED BY <2>1, <2>2 DEF NetInv
  <1>2. NetInv /\ [Next]_vars => NetInv' BY NetNext
  <1>3. NetInv => Reachable BY DEF NetInv, Reachable, Networked
  <1> QED BY <1>1, <1>2, <1>3, PTL DEF Spec
==============================================================================
