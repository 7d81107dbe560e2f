-------------------------- MODULE CheckpointProofs --------------------------
(* What is proved of Checkpoint for every process tree, every set of        *)
(* commands and every bound.                                                *)
(*                                                                          *)
(* Abra never continues a process that is not of the captured application,  *)
(* whatever other commands do meanwhile.  The argument is about             *)
(* identities, a PID with the start time of its process.  An identity is    *)
(* Genuine while no later process has its PID, or the one that has it is    *)
(* later and therefore told apart; every identity a command or a bundle     *)
(* holds is genuine.  It stays so because a PID that is given out again     *)
(* gets a later start time, and it is so at first because capture reads the *)
(* tree only while the root is still the process it checked, and follows    *)
(* the application's own processes from there.                              *)
(*                                                                          *)
(* Unless a command was crossed, the bundle it makes is of one moment, and  *)
(* the source it says to be resumed is.  Both say that nobody stops a       *)
(* process behind its back: a tree found frozen after the dump has been so  *)
(* since (Copying), and what a resume has continued is not stopped          *)
(* (Waking).  What is restored from a bundle finds the workspace published  *)
(* in it (Landed), as a bundle that was published is never replaced.        *)
EXTENDS Checkpoint, FiniteSetTheorems, SequenceTheorems, TLAPS

Genuine(id) ==
    /\ id.pid \in Pids /\ id.start_ticks \in Nat
    /\ \/ id.start_ticks < proc[id.pid].start_ticks
       \/ id.start_ticks = proc[id.pid].start_ticks /\ proc[id.pid].ours

Ids == [pid : Pids, start_ticks : Nat]
GenuineIds == {id \in Ids : Genuine(id)}

(* The process table is one. *)
Table ==
    /\ proc = [p \in Pids |-> proc[p]]
    /\ \A p \in Pids :
          /\ proc[p] = [start_ticks |-> proc[p].start_ticks, state |-> proc[p].state,
                        ours |-> proc[p].ours]
          /\ proc[p].start_ticks \in Nat

(* What the commands and the bundles hold. *)
Holds(e) ==
    /\ {"before", "tree", "left"} \subseteq DOMAIN e
    /\ e.before \in GenuineIds /\ e.before.pid = Root
    /\ e.tree \in Seq(GenuineIds) /\ e.left \in Seq(GenuineIds)

Held ==
    /\ cmd = [k \in Commands |-> cmd[k]] /\ bundle = [k \in Commands |-> bundle[k]]
    /\ \A k \in Commands : Holds(cmd[k]) /\ bundle[k].tree \in Seq(GenuineIds)
    /\ NoIdentity \in GenuineIds

-----------------------------------------------------------------------------
(* Facts of sequences: SetToSeq lists a finite set, reversing a sequence    *)
(* keeps its elements, and a sequence over a set is one over a larger set.  *)
LEMMA SetIsListed ==
    ASSUME NEW S, IsFiniteSet(S)
    PROVE  SetToSeq(S) \in [1..Cardinality(S) -> S] /\ Cardinality(S) \in Nat
  <1>1. PICK n \in Nat : ExistsBijection(1..n, S) BY FS_NatBijection
  <1>2. Cardinality(S) = n BY <1>1, FS_CountingElements
  <1>3. PICK f : f \in Bijection(1..n, S) BY <1>1 DEF ExistsBijection
  <1>4. f \in [1..n -> S] /\ IsInjective(f) BY <1>3 DEF Bijection, Injection
  <1>5. \E g \in [1..Cardinality(S) -> S] : IsInjective(g) BY <1>2, <1>4
  <1>6. SetToSeq(S) \in [1..Cardinality(S) -> S] BY <1>5 DEF SetToSeq
  <1> QED BY <1>2, <1>6

(* Reversing a list keeps it over the same set.                             *)
LEMMA ReversedElements ==
    ASSUME NEW S, NEW s \in Seq(S)
    PROVE  Reverse(s) \in Seq(S)
  <1>1. \A i \in 1..Len(s) : s[(Len(s) - i) + 1] \in S OBVIOUS
  <1>2. Len(s) \in Nat OBVIOUS
  <1>3. Reverse(s) \in [1..Len(s) -> S] BY <1>1 DEF Reverse
  <1> QED BY <1>2, <1>3

(* A list over a set is a list over each larger one.                        *)
LEMMA LargerSet ==
    ASSUME NEW S, NEW T, S \subseteq T, NEW s \in Seq(S)
    PROVE  s \in Seq(T)
  <1>1. Len(s) \in Nat /\ s \in [1..Len(s) -> S] OBVIOUS
  <1>2. s \in [1..Len(s) -> T] BY <1>1
  <1> QED BY <1>1, <1>2

(* A PID and a number are an identity.                                      *)
LEMMA IdentityOf ==
    ASSUME NEW p \in Pids, NEW n \in Nat
    PROVE  /\ [pid |-> p, start_ticks |-> n] \in Ids
           /\ [pid |-> p, start_ticks |-> n].pid = p
           /\ [pid |-> p, start_ticks |-> n].start_ticks = n
  BY DEF Ids

(* A process of the application has a genuine identity.                     *)
LEMMA OursIsGenuine ==
    ASSUME Table, NEW p \in Pids, proc[p].ours
    PROVE  process_identity(p) \in GenuineIds
  <1> DEFINE id == [pid |-> p, start_ticks |-> proc[p].start_ticks]
  <1>1. proc[p].start_ticks \in Nat BY DEF Table
  <1>2. id \in Ids /\ id.pid = p /\ id.start_ticks = proc[p].start_ticks BY <1>1, IdentityOf
  <1>3. process_identity(p) = id BY DEF process_identity
  <1> HIDE DEF id
  <1> QED BY <1>1, <1>2, <1>3 DEF GenuineIds, Genuine

(* The tree read while the root is of the application is genuine.           *)
LEMMA TreeIsGenuine ==
    ASSUME Table, proc[Root].ours
    PROVE  collect_process_tree \in Seq(GenuineIds)
  <1>1. process_identity(Root) \in GenuineIds BY OursIsGenuine DEF Pids
  <1>2. Descendants \in SUBSET Pids BY DEF Descendants, Pids
  <1>3. IsFiniteSet(Descendants) BY <1>2, FS_Subset, ConstantAssumption
  <1> DEFINE n == Cardinality(Descendants)
             list == SetToSeq(Descendants)
             ids == [i \in 1..n |-> process_identity(list[i])]
  <1>4. n \in Nat /\ list \in [1..n -> Descendants] BY <1>3, SetIsListed
  <1>5. \A p \in Descendants : process_identity(p) \in GenuineIds
    BY <1>2, OursIsGenuine DEF Descendants
  <1> HIDE DEF n, list
  <1>6. ids \in [1..n -> GenuineIds] BY <1>4, <1>5
  <1>7. ids \in Seq(GenuineIds) BY <1>4, <1>6
  <1>8. <<process_identity(Root)>> \in Seq(GenuineIds) BY <1>1
  <1>9. collect_process_tree = <<process_identity(Root)>> \o ids
    BY DEF collect_process_tree, n, list
  <1> HIDE DEF ids
  <1> QED BY <1>7, <1>8, <1>9

-----------------------------------------------------------------------------
(* Whatever happens to a PID, its process stays the same one or a later one *)
(* takes its place.                                                         *)
SameOrLater(p) ==
    \/ proc'[p].start_ticks = proc[p].start_ticks /\ proc'[p].ours = proc[p].ours
    \/ proc'[p].start_ticks > proc[p].start_ticks

(* Stopping or continuing processes changes no identity.                    *)
LEMMA StateChange ==
    ASSUME Table, NEW P \in SUBSET Pids, NEW new,
           proc' = [p \in Pids |-> IF p \in P THEN [proc[p] EXCEPT !.state = new] ELSE proc[p]]
    PROVE  Table' /\ \A p \in Pids : SameOrLater(p)
  <1> SUFFICES ASSUME NEW p \in Pids
               PROVE  /\ proc'[p] = [start_ticks |-> proc'[p].start_ticks,
                                     state |-> proc'[p].state, ours |-> proc'[p].ours]
                      /\ proc'[p].start_ticks \in Nat
                      /\ SameOrLater(p)
    BY DEF Table
  <1>1. /\ proc[p] = [start_ticks |-> proc[p].start_ticks, state |-> proc[p].state,
                      ours |-> proc[p].ours]
        /\ proc[p].start_ticks \in Nat
    BY DEF Table
  <1>2. CASE p \in P
    <2>1. proc'[p] = [proc[p] EXCEPT !.state = new] BY <1>2
    <2>2. proc'[p] = [start_ticks |-> proc[p].start_ticks, state |-> new, ours |-> proc[p].ours]
      BY <1>1, <2>1
    <2> QED BY <1>1, <2>2 DEF SameOrLater
  <1>3. CASE p \notin P
    <2>1. proc'[p] = proc[p] BY <1>3
    <2> QED BY <1>1, <2>1 DEF SameOrLater
  <1> QED BY <1>2, <1>3

(* A PID that is taken again gets a later start time.                       *)
LEMMA Succession ==
    ASSUME Table, NEW q \in Pids, NEW s, NEW o,
           proc' = [proc EXCEPT ![q] = [start_ticks |-> proc[q].start_ticks + 1,
                                       state |-> s, ours |-> o]]
    PROVE  Table' /\ \A p \in Pids : SameOrLater(p)
  <1>0. proc = [p \in Pids |-> proc[p]] BY DEF Table
  <1>1. proc' = [p \in Pids |-> proc'[p]] BY <1>0
  <1> SUFFICES ASSUME NEW p \in Pids
               PROVE  /\ proc'[p] = [start_ticks |-> proc'[p].start_ticks,
                                     state |-> proc'[p].state, ours |-> proc'[p].ours]
                      /\ proc'[p].start_ticks \in Nat
                      /\ SameOrLater(p)
    BY <1>1 DEF Table
  <1>2. /\ proc[p] = [start_ticks |-> proc[p].start_ticks, state |-> proc[p].state,
                      ours |-> proc[p].ours]
        /\ proc[p].start_ticks \in Nat
    BY DEF Table
  <1>3. CASE p = q
    <2>1. proc'[p] = [start_ticks |-> proc[p].start_ticks + 1, state |-> s, ours |-> o]
      BY <1>0, <1>3
    <2> QED BY <1>2, <2>1 DEF SameOrLater
  <1>4. CASE p # q
    <2>1. proc'[p] = proc[p] BY <1>0, <1>4
    <2> QED BY <1>2, <2>1 DEF SameOrLater
  <1> QED BY <1>3, <1>4

(* A freeze of the tree changes no identity.                                *)
LEMMA StoppedTable ==
    ASSUME Table, NEW P \in SUBSET Pids, proc' = Stopped(P)
    PROVE  Table' /\ \A p \in Pids : SameOrLater(p)
  <1> DEFINE Q == {p \in P : proc[p].state = "run"}
  <1>1. proc' = [p \in Pids |-> IF p \in Q THEN [proc[p] EXCEPT !.state = "stop"] ELSE proc[p]]
    BY DEF Stopped
  <1>2. Q \in SUBSET Pids OBVIOUS
  <1> HIDE DEF Q
  <1> QED BY <1>1, <1>2, StateChange

(* A signal to one process changes no identity.                             *)
LEMMA OneState ==
    ASSUME Table, NEW q \in Pids, NEW s, proc' = [proc EXCEPT ![q].state = s]
    PROVE  Table' /\ \A p \in Pids : SameOrLater(p)
  <1>1. proc = [p \in Pids |-> proc[p]] BY DEF Table
  <1>2. proc' = [p \in Pids |-> IF p \in {q} THEN [proc[p] EXCEPT !.state = s] ELSE proc[p]]
    BY <1>1
  <1> QED BY <1>2, StateChange

(* A step that leaves the processes alone changes no identity.              *)
LEMMA SameTable ==
    ASSUME Table, proc' = proc
    PROVE  Table' /\ \A p \in Pids : SameOrLater(p)
  BY DEF Table, SameOrLater

(* Every action leaves a process or puts a later one in its place.          *)
LEMMA TableStep ==
    ASSUME Table, Held, [Next]_vars
    PROVE  Table' /\ \A p \in Pids : SameOrLater(p)
  <1>1. ASSUME NEW k \in Commands, DumpSucceeds(k) \/ DumpFails(k)
        PROVE  Table' /\ \A p \in Pids : SameOrLater(p)
    <2>1. PICK P \in SUBSET Pids : proc' = Stopped(P)
      BY <1>1 DEF DumpSucceeds, DumpFails, Freezes, Descendants, Pids
    <2> QED BY <2>1, StoppedTable
  <1>2. ASSUME NEW k \in Commands, SignalNext(k)
        PROVE  Table' /\ \A p \in Pids : SameOrLater(p)
    <2>1. cmd[k].left # <<>> /\ (proc' = Continued(Head(cmd[k].left).pid) \/ UNCHANGED proc)
      BY <1>2 DEF SignalNext, Wakes
    <2>2. Head(cmd[k].left).pid \in Pids
      <3>1. cmd[k].left \in Seq(GenuineIds) BY DEF Held, Holds
      <3>2. Head(cmd[k].left) \in GenuineIds BY <2>1, <3>1, HeadTailProperties
      <3> QED BY <3>2 DEF GenuineIds, Genuine
    <2> DEFINE q == Head(cmd[k].left).pid
    <2>3. proc' = [proc EXCEPT ![q].state = "run"] \/ UNCHANGED proc
      BY <2>1 DEF Continued
    <2> HIDE DEF q
    <2>4. q \in Pids BY <2>2 DEF q
    <2> QED BY <2>3, <2>4, OneState, SameTable
  <1>3. ASSUME NEW p \in Pids, Fork(p)
        PROVE  Table' /\ \A q \in Pids : SameOrLater(q)
    BY <1>3, Succession DEF Fork
  <1>4. ASSUME NEW p \in Pids, Reuse(p)
        PROVE  Table' /\ \A q \in Pids : SameOrLater(q)
    <2>1. PICK s : proc' = [proc EXCEPT ![p] = [start_ticks |-> proc[p].start_ticks + 1,
                                                state |-> s, ours |-> FALSE]]
      BY <1>4 DEF Reuse
    <2> QED BY <2>1, Succession
  <1>5. ASSUME NEW p \in Pids, Reap(p) \/ Kill(p) \/ OutsideContinue(p)
        PROVE  Table' /\ \A q \in Pids : SameOrLater(q)
    <2>1. (\E s : proc' = [proc EXCEPT ![p].state = s]) \/ UNCHANGED proc
      BY <1>5 DEF Reap, Kill, OutsideContinue, Wakes, Continued
    <2> QED BY <2>1, OneState, SameTable
  <1>6. ASSUME NEW k \in Commands,
               \/ CaptureStart(k) \/ CheckRoot(k) \/ CollectTree(k) \/ Publish(k)
               \/ PublishFails(k) \/ Recover(k) \/ VerifyTree(k) \/ Resumed(k)
               \/ Interrupted(k) \/ Carry(k) \/ \E b \in Commands : ResumeStart(k, b)
        PROVE  UNCHANGED proc
    BY <1>6 DEF CaptureStart, CheckRoot, CollectTree, Publish, PublishFails, Recover,
       VerifyTree, Resumed, Interrupted, Carry, ResumeStart
  <1>7. CASE Write \/ Appears \/ Preflight \/ Install \/ InstallFails \/ CriuRestores
             \/ CriuRestoreFails \/ UNCHANGED vars
    <2>1. UNCHANGED proc
      BY <1>7 DEF Write, Appears, Preflight, Install, InstallFails, CriuRestores,
         CriuRestoreFails, vars
    <2> QED BY <2>1, SameTable
  <1> QED BY <1>1, <1>2, <1>3, <1>4, <1>5, <1>6, <1>7, SameTable DEF Next, Step

(* What was genuine stays genuine.                                          *)
LEMMA GenuineStays ==
    ASSUME Table, Table', \A p \in Pids : SameOrLater(p)
    PROVE  GenuineIds \subseteq GenuineIds'
  <1> SUFFICES ASSUME NEW id \in Ids, Genuine(id) PROVE Genuine(id)'
    BY DEF GenuineIds, Ids
  <1>1. id.pid \in Pids /\ id.start_ticks \in Nat BY DEF Genuine
  <1>2. SameOrLater(id.pid) BY <1>1
  <1>3. proc[id.pid].start_ticks \in Nat /\ proc'[id.pid].start_ticks \in Nat
    BY <1>1 DEF Table
  <1> QED BY <1>1, <1>2, <1>3 DEF Genuine, SameOrLater

-----------------------------------------------------------------------------
(* What a command holds stays genuine while its other fields change.        *)
LEMMA StillHolds ==
    ASSUME GenuineIds \subseteq GenuineIds', NEW e, Holds(e)
    PROVE  /\ {"before", "tree", "left"} \subseteq DOMAIN e
           /\ e.before \in GenuineIds' /\ e.before.pid = Root
           /\ e.tree \in Seq(GenuineIds') /\ e.left \in Seq(GenuineIds')
  <1>1. e.tree \in Seq(GenuineIds) /\ e.left \in Seq(GenuineIds) BY DEF Holds
  <1>2. e.tree \in Seq(GenuineIds') /\ e.left \in Seq(GenuineIds') BY <1>1, LargerSet
  <1> QED BY <1>2 DEF Holds

(* What commands and bundles hold stays genuine when more is genuine.       *)
LEMMA HeldLater ==
    ASSUME GenuineIds \subseteq GenuineIds', NoIdentity \in GenuineIds,
           cmd' = [k \in Commands |-> cmd'[k]], bundle' = [k \in Commands |-> bundle'[k]],
           \A k \in Commands : Holds(cmd'[k]) /\ bundle'[k].tree \in Seq(GenuineIds)
    PROVE  Held'
  <1> SUFFICES ASSUME NEW k \in Commands
               PROVE  Holds(cmd[k])' /\ bundle'[k].tree \in Seq(GenuineIds')
    BY DEF Held, NoIdentity
  <1>1. bundle'[k].tree \in Seq(GenuineIds') BY LargerSet
  <1>2. Holds(cmd'[k]) OBVIOUS
  <1>3. Holds(cmd[k])' BY <1>2, StillHolds DEF Holds
  <1> QED BY <1>1, <1>3

(* One command changes, and the bundles do not.                             *)
LEMMA CommandChange ==
    ASSUME Held, GenuineIds \subseteq GenuineIds', NEW k \in Commands, NEW new, Holds(new),
           cmd' = [cmd EXCEPT ![k] = new], UNCHANGED bundle
    PROVE  Held'
  <1>1. cmd = [j \in Commands |-> cmd[j]] /\ bundle = [j \in Commands |-> bundle[j]]
    BY DEF Held
  <1>2. cmd' = [j \in Commands |-> cmd'[j]] /\ bundle' = [j \in Commands |-> bundle'[j]]
    BY <1>1
  <1>3. \A j \in Commands : cmd'[j] = IF j = k THEN new ELSE cmd[j] BY <1>1
  <1>4. \A j \in Commands : Holds(cmd'[j]) /\ bundle'[j].tree \in Seq(GenuineIds)
    BY <1>3 DEF Held
  <1>5. NoIdentity \in GenuineIds BY DEF Held
  <1> QED BY <1>2, <1>4, <1>5, HeldLater

(* Every action leaves every identity that is held genuine.                 *)
LEMMA HeldStep == Table /\ Held /\ [Next]_vars => Held'
  <1> SUFFICES ASSUME Table, Held, [Next]_vars PROVE Held' OBVIOUS
  <1>a. Table' /\ GenuineIds \subseteq GenuineIds' BY TableStep, GenuineStays
  <1>b. /\ cmd = [k \in Commands |-> cmd[k]] /\ bundle = [k \in Commands |-> bundle[k]]
        /\ \A k \in Commands : Holds(cmd[k]) /\ bundle[k].tree \in Seq(GenuineIds)
        /\ NoIdentity \in GenuineIds
    BY DEF Held
  <1>c. CASE UNCHANGED <<cmd, bundle>> BY <1>a, <1>b, <1>c, HeldLater
  <1>d. ASSUME NEW k \in Commands, NEW to, NEW words, UNCHANGED bundle,
               \/ cmd' = [cmd EXCEPT ![k].pc = to]
               \/ cmd' = [cmd EXCEPT ![k].pc = to, ![k].said = words]
        PROVE  Held'
    <2>1. PICK new \in {[cmd[k] EXCEPT !.pc = to], [cmd[k] EXCEPT !.pc = to, !.said = words]} :
              cmd' = [cmd EXCEPT ![k] = new]
      BY <1>b, <1>d
    <2>2. Holds(new) BY <1>b DEF Holds
    <2> QED BY <1>a, <1>d, <2>1, <2>2, CommandChange
  <1>1. ASSUME NEW k \in Commands, CaptureStart(k) PROVE Held'
    <2> DEFINE new == [Waiting EXCEPT !.pc = "dump", !.op = "capture",
                                      !.before = process_identity(Root)]
    <2>1. cmd' = [cmd EXCEPT ![k] = new] /\ UNCHANGED bundle /\ proc[Root].ours
      BY <1>1 DEF CaptureStart
    <2>2. process_identity(Root) \in GenuineIds BY <2>1, OursIsGenuine DEF Pids
    <2>3. process_identity(Root).pid = Root BY DEF process_identity
    <2>4. Holds(Waiting) BY <1>b DEF Holds, Waiting, NoIdentity
    <2>5. Holds(new) BY <2>2, <2>3, <2>4 DEF Holds
    <2> HIDE DEF new
    <2> QED BY <1>a, <2>1, <2>5, CommandChange
  <1>2. ASSUME NEW k \in Commands, NEW b \in Commands, ResumeStart(k, b) PROVE Held'
    <2> DEFINE new == [Waiting EXCEPT !.pc = "verify", !.op = "resume",
                                      !.tree = bundle[b].tree]
    <2>1. cmd' = [cmd EXCEPT ![k] = new] /\ UNCHANGED bundle BY <1>2 DEF ResumeStart
    <2>2. NoIdentity.pid = Root BY DEF NoIdentity
    <2>3. Holds(Waiting) BY <1>b, <2>2 DEF Holds, Waiting
    <2>4. Holds(new) BY <1>b, <2>3 DEF Holds
    <2> HIDE DEF new
    <2> QED BY <1>a, <2>1, <2>4, CommandChange
  <1>3. ASSUME NEW k \in Commands, DumpSucceeds(k) PROVE Held'
    <2> DEFINE new == [cmd[k] EXCEPT !.pc = "dumped",
                          !.image = [procs |-> ToSet(collect_process_tree), at |-> files]]
    <2>1. cmd' = [cmd EXCEPT ![k] = new] /\ UNCHANGED bundle
      BY <1>b, <1>3 DEF DumpSucceeds
    <2>2. Holds(new) BY <1>b DEF Holds
    <2> HIDE DEF new
    <2> QED BY <1>a, <2>1, <2>2, CommandChange
  <1>4. ASSUME NEW k \in Commands,
               DumpFails(k) \/ PublishFails(k) \/ CheckRoot(k) \/ Resumed(k) \/ Interrupted(k)
        PROVE  Held'
    <2>1. UNCHANGED bundle /\ \E to, words : \/ cmd' = [cmd EXCEPT ![k].pc = to]
                                            \/ cmd' = [cmd EXCEPT ![k].pc = to, ![k].said = words]
      BY <1>4 DEF DumpFails, PublishFails, CheckRoot, Resumed, Interrupted, Goes, Ends
    <2> QED BY <1>d, <2>1
  <1>5. ASSUME NEW k \in Commands, CollectTree(k) \/ Recover(k) PROVE Held'
    <2>1. /\ UNCHANGED bundle
          /\ \/ \E to, words : \/ cmd' = [cmd EXCEPT ![k].pc = to]
                               \/ cmd' = [cmd EXCEPT ![k].pc = to, ![k].said = words]
             \/ /\ Exists(cmd[k].before)
                /\ \E to : cmd' = [cmd EXCEPT ![k].pc = to, ![k].tree = collect_process_tree]
      BY <1>5 DEF CollectTree, Recover, Goes, Ends
    <2>2. CASE Exists(cmd[k].before)
               /\ \E to : cmd' = [cmd EXCEPT ![k].pc = to, ![k].tree = collect_process_tree]
      <3>1. cmd[k].before \in GenuineIds /\ cmd[k].before.pid = Root BY <1>b DEF Holds
      <3>2. cmd[k].before.start_ticks = proc[Root].start_ticks
        BY <2>2, <3>1 DEF Exists, process_identity
      <3>3. proc[Root].start_ticks \in Nat BY DEF Table, Pids
      <3>4. proc[Root].ours BY <3>1, <3>2, <3>3 DEF GenuineIds, Genuine
      <3>5. collect_process_tree \in Seq(GenuineIds) BY <3>4, TreeIsGenuine
      <3>6. PICK to : cmd' = [cmd EXCEPT ![k].pc = to, ![k].tree = collect_process_tree]
        BY <2>2
      <3> DEFINE new == [cmd[k] EXCEPT !.pc = to, !.tree = collect_process_tree]
      <3>7. cmd' = [cmd EXCEPT ![k] = new] BY <1>b, <3>6
      <3>8. Holds(new) BY <1>b, <3>5 DEF Holds
      <3> HIDE DEF new
      <3> QED BY <1>a, <2>1, <3>7, <3>8, CommandChange
    <2> QED BY <1>d, <2>1, <2>2
  <1>6. ASSUME NEW k \in Commands, VerifyTree(k) PROVE Held'
    <2>1. /\ UNCHANGED bundle
          /\ \/ cmd' = [cmd EXCEPT ![k].pc = "ended", ![k].said = "may be frozen"]
             \/ cmd' = [cmd EXCEPT ![k].pc = "signal", ![k].left = Reverse(cmd[k].tree)]
      BY <1>6 DEF VerifyTree, Ends, ResumeOrder
    <2>2. CASE cmd' = [cmd EXCEPT ![k].pc = "signal", ![k].left = Reverse(cmd[k].tree)]
      <3> DEFINE new == [cmd[k] EXCEPT !.pc = "signal", !.left = Reverse(cmd[k].tree)]
      <3>1. cmd' = [cmd EXCEPT ![k] = new] BY <1>b, <2>2
      <3>2. cmd[k].tree \in Seq(GenuineIds) BY <1>b DEF Holds
      <3>3. Reverse(cmd[k].tree) \in Seq(GenuineIds) BY <3>2, ReversedElements
      <3>4. Holds(new) BY <1>b, <3>3 DEF Holds
      <3> HIDE DEF new
      <3> QED BY <1>a, <2>1, <3>1, <3>4, CommandChange
    <2> QED BY <1>d, <2>1, <2>2
  <1>7. ASSUME NEW k \in Commands, SignalNext(k) PROVE Held'
    <2>1. /\ cmd[k].left # <<>> /\ UNCHANGED bundle
          /\ \/ cmd' = [cmd EXCEPT ![k].pc = "ended", ![k].said = "may be frozen"]
             \/ cmd' = [cmd EXCEPT ![k].left = Tail(cmd[k].left)]
      BY <1>7 DEF SignalNext, Ends
    <2>2. CASE cmd' = [cmd EXCEPT ![k].left = Tail(cmd[k].left)]
      <3> DEFINE new == [cmd[k] EXCEPT !.left = Tail(cmd[k].left)]
      <3>1. cmd' = [cmd EXCEPT ![k] = new] BY <1>b, <2>2
      <3>2. cmd[k].left \in Seq(GenuineIds) BY <1>b DEF Holds
      <3>3. Tail(cmd[k].left) \in Seq(GenuineIds) BY <2>1, <3>2, HeadTailProperties
      <3>4. Holds(new) BY <1>b, <3>3 DEF Holds
      <3> HIDE DEF new
      <3> QED BY <1>a, <2>1, <3>1, <3>4, CommandChange
    <2> QED BY <1>d, <2>1, <2>2
  <1>8. ASSUME NEW k \in Commands, Publish(k) PROVE Held'
    <2>1. PICK b : /\ bundle' = [bundle EXCEPT ![k] = b] /\ b.tree = cmd[k].tree
                   /\ cmd' = [cmd EXCEPT ![k].pc = "ended", ![k].said = "published"]
      BY <1>8 DEF Publish, Ends
    <2> DEFINE new == [cmd[k] EXCEPT !.pc = "ended", !.said = "published"]
    <2>2. cmd' = [cmd EXCEPT ![k] = new] BY <1>b, <2>1
    <2>3. Holds(new) /\ b.tree \in Seq(GenuineIds) BY <1>b, <2>1 DEF Holds
    <2> HIDE DEF new
    <2>4. /\ cmd' = [j \in Commands |-> cmd'[j]] /\ bundle' = [j \in Commands |-> bundle'[j]]
          /\ \A j \in Commands : /\ cmd'[j] = IF j = k THEN new ELSE cmd[j]
                                 /\ bundle'[j] = IF j = k THEN b ELSE bundle[j]
      BY <1>b, <2>1, <2>2
    <2>5. \A j \in Commands : Holds(cmd'[j]) /\ bundle'[j].tree \in Seq(GenuineIds)
      BY <1>b, <2>3, <2>4
    <2> QED BY <1>a, <1>b, <2>4, <2>5, HeldLater
  <1>9. ASSUME NEW p \in Pids, Fork(p) \/ Reap(p) \/ Kill(p) \/ Reuse(p) \/ OutsideContinue(p)
        PROVE  Held'
    <2>1. UNCHANGED <<cmd, bundle>> BY <1>9 DEF Fork, Reap, Kill, Reuse, OutsideContinue
    <2> QED BY <1>c, <2>1
  <1>10. ASSUME NEW k \in Commands, Carry(k) PROVE Held'
    <2>1. UNCHANGED <<cmd, bundle>> BY <1>10 DEF Carry
    <2> QED BY <1>c, <2>1
  <1>11. CASE Write \/ Appears \/ Preflight \/ Install \/ InstallFails \/ CriuRestores
              \/ CriuRestoreFails \/ UNCHANGED vars
    <2>1. UNCHANGED <<cmd, bundle>>
      BY <1>11 DEF Write, Appears, Preflight, Install, InstallFails, CriuRestores,
         CriuRestoreFails, vars
    <2> QED BY <1>c, <2>1
  <1> QED BY <1>1, <1>2, <1>3, <1>4, <1>5, <1>6, <1>7, <1>8, <1>9, <1>10, <1>11 DEF Next, Step

(* A signal goes to the process whose genuine identity was checked.         *)
LEMMA SentStep == Table /\ Held /\ NeverAStranger /\ [Next]_vars => NeverAStranger'
  <1> SUFFICES ASSUME Table, Held, NeverAStranger, [Next]_vars PROVE NeverAStranger' OBVIOUS
  <1>1. CASE UNCHANGED sent BY <1>1 DEF NeverAStranger
  <1>2. ASSUME NEW k \in Commands, SignalNext(k) PROVE NeverAStranger'
    <2> DEFINE id == Head(cmd[k].left)
    <2>1. /\ cmd[k].left # <<>>
          /\ \/ UNCHANGED sent
             \/ /\ Exists(id)
                /\ sent' = sent \cup {[who |-> process_identity(id.pid), ours |-> proc[id.pid].ours]}
      BY <1>2 DEF SignalNext, SameIdentity
    <2>2. id \in GenuineIds
      <3>1. cmd[k].left \in Seq(GenuineIds) BY DEF Held, Holds
      <3> QED BY <2>1, <3>1, HeadTailProperties
    <2> HIDE DEF id
    <2>3. CASE Exists(id)
               /\ sent' = sent \cup {[who |-> process_identity(id.pid), ours |-> proc[id.pid].ours]}
      <3>1. id.start_ticks = proc[id.pid].start_ticks BY <2>3 DEF Exists, process_identity
      <3>2. id.pid \in Pids /\ proc[id.pid].start_ticks \in Nat
        BY <2>2 DEF GenuineIds, Genuine, Table
      <3>3. proc[id.pid].ours BY <2>2, <3>1, <3>2 DEF GenuineIds, Genuine
      <3> DEFINE one == [who |-> process_identity(id.pid), ours |-> proc[id.pid].ours]
      <3>4. one.ours BY <3>3
      <3> HIDE DEF one
      <3>5. \A s \in sent' : s \in sent \/ s = one BY <2>3 DEF one
      <3> QED BY <3>4, <3>5 DEF NeverAStranger
    <2> QED BY <1>1, <2>1, <2>3
  <1>3. ASSUME NEW k \in Commands,
               \/ CaptureStart(k) \/ DumpSucceeds(k) \/ DumpFails(k) \/ CheckRoot(k)
               \/ CollectTree(k) \/ Publish(k) \/ PublishFails(k) \/ Recover(k) \/ VerifyTree(k)
               \/ Resumed(k) \/ Interrupted(k) \/ Carry(k) \/ \E b \in Commands : ResumeStart(k, b)
        PROVE  UNCHANGED sent
    BY <1>3 DEF CaptureStart, DumpSucceeds, DumpFails, CheckRoot, CollectTree, Publish,
       PublishFails, Recover, VerifyTree, Resumed, Interrupted, Carry, ResumeStart
  <1>4. ASSUME NEW p \in Pids, Fork(p) \/ Reap(p) \/ Kill(p) \/ Reuse(p) \/ OutsideContinue(p)
        PROVE  UNCHANGED sent
    BY <1>4 DEF Fork, Reap, Kill, Reuse, OutsideContinue
  <1>5. CASE Write \/ Appears \/ Preflight \/ Install \/ InstallFails \/ CriuRestores
             \/ CriuRestoreFails \/ UNCHANGED vars
    <2>1. UNCHANGED sent
      BY <1>5 DEF Write, Appears, Preflight, Install, InstallFails, CriuRestores,
         CriuRestoreFails, vars
    <2> QED BY <1>1, <2>1
  <1> QED BY <1>1, <1>2, <1>3, <1>4, <1>5 DEF Next, Step

(* The start.                                                               *)
LEMMA GenuineAtFirst == Init => Table /\ Held /\ NeverAStranger
  <1> SUFFICES ASSUME Init PROVE Table /\ Held /\ NeverAStranger OBVIOUS
  <1>1. /\ proc \in [Pids -> {Alone(1, "run"), Alone(0, "none")}]
        /\ proc[Root].state = "run" /\ sent = {}
        /\ cmd = [k \in Commands |-> Waiting] /\ bundle = [k \in Commands |-> NoBundle]
    BY DEF Init
  <1>2. Table
    <2> SUFFICES ASSUME NEW p \in Pids
                 PROVE  /\ proc[p] = [start_ticks |-> proc[p].start_ticks, state |-> proc[p].state,
                                      ours |-> proc[p].ours]
                        /\ proc[p].start_ticks \in Nat
      BY <1>1 DEF Table
    <2>1. proc[p] = Alone(1, "run") \/ proc[p] = Alone(0, "none") BY <1>1
    <2> QED BY <2>1 DEF Alone
  <1>3. NoIdentity \in GenuineIds
    <2>1. Root \in Pids BY DEF Pids
    <2>2. proc[Root] = Alone(1, "run") \/ proc[Root] = Alone(0, "none") BY <1>1, <2>1
    <2>3. proc[Root].start_ticks = 1 BY <1>1, <2>2 DEF Alone
    <2>4. NoIdentity \in Ids /\ NoIdentity.pid = Root /\ NoIdentity.start_ticks = 0
      BY <2>1, IdentityOf DEF NoIdentity
    <2> QED BY <2>1, <2>3, <2>4 DEF GenuineIds, Genuine
  <1>4. NoIdentity.pid = Root BY DEF NoIdentity
  <1>5. Holds(Waiting) BY <1>3, <1>4 DEF Holds, Waiting
  <1>6. NoBundle.tree \in Seq(GenuineIds) BY DEF NoBundle
  <1>7. Held BY <1>1, <1>3, <1>5, <1>6 DEF Held
  <1> QED BY <1>1, <1>2, <1>7 DEF NeverAStranger

(* Abra continues processes of the captured application only                *)
(* (resume_verified_tree and recover_stopped_source): a PID that was given  *)
(* to another program since is told apart by its start time, whatever two   *)
(* commands and the machine around them do.                                 *)
THEOREM OnlyOursContinued == Spec => []NeverAStranger
  <1>1. Table /\ Held /\ NeverAStranger /\ [Next]_vars => (Table /\ Held /\ NeverAStranger)'
    <2>1. Table /\ Held /\ [Next]_vars => Table' BY TableStep
    <2> QED BY <2>1, HeldStep, SentStep
  <1> QED BY <1>1, GenuineAtFirst, PTL DEF Spec
-----------------------------------------------------------------------------
(* The commands.                                                            *)

(* The fields of a command that the arguments below speak of.               *)
Entries ==
    /\ cmd = [k \in Commands |-> cmd[k]]
    /\ \A k \in Commands : {"pc", "said", "before", "tree", "left", "image"} \subseteq DOMAIN cmd[k]

(* A command is replaced by another entry.                                  *)
Turns(k, new) == cmd' = [cmd EXCEPT ![k] = new]

(* The others stay, and the entry is the new one.                           *)
LEMMA TurnsOne ==
    ASSUME Entries, NEW k \in Commands, NEW new, Turns(k, new),
           {"pc", "said", "before", "tree", "left", "image"} \subseteq DOMAIN new
    PROVE  Entries' /\ cmd'[k] = new /\ \A j \in Commands \ {k} : cmd'[j] = cmd[j]
  <1>1. cmd' = [j \in Commands |-> IF j = k THEN new ELSE cmd[j]] BY DEF Entries, Turns
  <1>2. cmd'[k] = new /\ \A j \in Commands \ {k} : cmd'[j] = cmd[j] BY <1>1
  <1>3. cmd' = [j \in Commands |-> cmd'[j]] BY <1>1
  <1> QED BY <1>2, <1>3 DEF Entries

(* A command starts, or goes on with the root it has checked.               *)
Starts(k) ==
    \/ CaptureStart(k)
    \/ \E b \in Commands : ResumeStart(k, b)

Follows(k) ==
    /\ Entries' /\ \A j \in Commands \ {k} : cmd'[j] = cmd[j]
    /\ cmd'[k].before = cmd[k].before

(* The entry of a command that starts.                                      *)
LEMMA Started ==
    ASSUME Entries, NEW k \in Commands, Starts(k)
    PROVE  /\ Entries' /\ \A j \in Commands \ {k} : cmd'[j] = cmd[j]
           /\ cmd'[k].pc \in {"dump", "verify"} /\ cmd'[k].said = "nothing"
           /\ cmd[k].pc = "waiting" /\ UNCHANGED <<proc, files, bundle, sent, crossed, dest>>
  <1>1. PICK new : /\ Turns(k, new) /\ new.pc \in {"dump", "verify"} /\ new.said = "nothing"
                   /\ DOMAIN new = DOMAIN Waiting
    <2>1. CASE CaptureStart(k)
      <3> DEFINE new == [Waiting EXCEPT !.pc = "dump", !.op = "capture",
                                        !.before = process_identity(Root)]
      <3>1. new.pc = "dump" /\ new.said = "nothing" /\ DOMAIN new = DOMAIN Waiting
        BY DEF Waiting
      <3>2. Turns(k, new) BY <2>1 DEF CaptureStart, Turns
      <3> HIDE DEF new
      <3> QED BY <3>1, <3>2
    <2>2. ASSUME NEW b \in Commands, ResumeStart(k, b)
          PROVE  \E new : /\ Turns(k, new) /\ new.pc \in {"dump", "verify"}
                          /\ new.said = "nothing" /\ DOMAIN new = DOMAIN Waiting
      <3> DEFINE new == [Waiting EXCEPT !.pc = "verify", !.op = "resume",
                                        !.tree = bundle[b].tree]
      <3>1. new.pc = "verify" /\ new.said = "nothing" /\ DOMAIN new = DOMAIN Waiting
        BY DEF Waiting
      <3>2. Turns(k, new) BY <2>2 DEF ResumeStart, Turns
      <3> HIDE DEF new
      <3> QED BY <3>1, <3>2
    <2> QED BY <2>1, <2>2 DEF Starts
  <1>2. {"pc", "said", "before", "tree", "left", "image"} \subseteq DOMAIN new
    BY <1>1 DEF Waiting
  <1>3. Entries' /\ cmd'[k] = new /\ \A j \in Commands \ {k} : cmd'[j] = cmd[j]
    BY <1>1, <1>2, TurnsOne
  <1>4. cmd[k].pc = "waiting" /\ UNCHANGED <<proc, files, bundle, sent, crossed, dest>>
    BY DEF Starts, CaptureStart, ResumeStart, MayStart
  <1> QED BY <1>1, <1>3, <1>4

(* A command goes to another step, or ends with some words.                 *)
LEMMA Gone ==
    ASSUME Entries, NEW k \in Commands, NEW to, Goes(k, to)
    PROVE  /\ Follows(k) /\ cmd'[k].pc = to /\ cmd'[k].said = cmd[k].said
           /\ cmd'[k].image = cmd[k].image /\ cmd'[k].tree = cmd[k].tree
           /\ cmd'[k].left = cmd[k].left
  <1> DEFINE new == [cmd[k] EXCEPT !.pc = to]
  <1>1. Turns(k, new) BY DEF Goes, Turns, Entries
  <1>2. /\ new.pc = to /\ new.said = cmd[k].said /\ new.image = cmd[k].image
        /\ new.tree = cmd[k].tree /\ new.left = cmd[k].left /\ new.before = cmd[k].before
        /\ DOMAIN new = DOMAIN cmd[k]
    BY DEF Entries
  <1> HIDE DEF new
  <1>3. Entries' /\ cmd'[k] = new /\ \A j \in Commands \ {k} : cmd'[j] = cmd[j]
    BY <1>1, <1>2, TurnsOne DEF Entries
  <1> QED BY <1>2, <1>3 DEF Follows

(* It ends.                                                                 *)
LEMMA Ended ==
    ASSUME Entries, NEW k \in Commands, NEW words, Ends(k, words)
    PROVE  /\ Follows(k) /\ cmd'[k].pc = "ended" /\ cmd'[k].said = words
           /\ cmd'[k].image = cmd[k].image /\ cmd'[k].tree = cmd[k].tree
  <1> DEFINE new == [cmd[k] EXCEPT !.pc = "ended", !.said = words]
  <1>1. Turns(k, new) BY DEF Ends, Turns, Entries
  <1>2. /\ new.pc = "ended" /\ new.said = words /\ new.image = cmd[k].image
        /\ new.tree = cmd[k].tree /\ new.before = cmd[k].before /\ DOMAIN new = DOMAIN cmd[k]
    BY DEF Entries
  <1> HIDE DEF new
  <1>3. Entries' /\ cmd'[k] = new /\ \A j \in Commands \ {k} : cmd'[j] = cmd[j]
    BY <1>1, <1>2, TurnsOne DEF Entries
  <1> QED BY <1>2, <1>3 DEF Follows

SetsImage(k, to, image) == cmd' = [cmd EXCEPT ![k].pc = to, ![k].image = image]
SetsTree(k, to, tree)   == cmd' = [cmd EXCEPT ![k].pc = to, ![k].tree = tree]
SetsLeft(k, to, left)   == cmd' = [cmd EXCEPT ![k].pc = to, ![k].left = left]
Drops(k, left)          == cmd' = [cmd EXCEPT ![k].left = left]

(* It goes on with another image, tree or list of what is left.             *)
LEMMA WithImage ==
    ASSUME Entries, NEW k \in Commands, NEW to, NEW image, SetsImage(k, to, image)
    PROVE  /\ Follows(k) /\ cmd'[k].pc = to /\ cmd'[k].said = cmd[k].said
           /\ cmd'[k].image = image /\ cmd'[k].tree = cmd[k].tree
  <1> DEFINE new == [cmd[k] EXCEPT !.pc = to, !.image = image]
  <1>1. Turns(k, new) BY DEF SetsImage, Turns, Entries
  <1>2. /\ new.pc = to /\ new.said = cmd[k].said /\ new.image = image
        /\ new.tree = cmd[k].tree /\ new.before = cmd[k].before /\ DOMAIN new = DOMAIN cmd[k]
    BY DEF Entries
  <1> HIDE DEF new
  <1>3. Entries' /\ cmd'[k] = new /\ \A j \in Commands \ {k} : cmd'[j] = cmd[j]
    BY <1>1, <1>2, TurnsOne DEF Entries
  <1> QED BY <1>2, <1>3 DEF Follows

(* Its tree.                                                                *)
LEMMA WithTree ==
    ASSUME Entries, NEW k \in Commands, NEW to, NEW tree, SetsTree(k, to, tree)
    PROVE  /\ Follows(k) /\ cmd'[k].pc = to /\ cmd'[k].said = cmd[k].said
           /\ cmd'[k].image = cmd[k].image /\ cmd'[k].tree = tree
  <1> DEFINE new == [cmd[k] EXCEPT !.pc = to, !.tree = tree]
  <1>1. Turns(k, new) BY DEF SetsTree, Turns, Entries
  <1>2. /\ new.pc = to /\ new.said = cmd[k].said /\ new.image = cmd[k].image
        /\ new.tree = tree /\ new.before = cmd[k].before /\ DOMAIN new = DOMAIN cmd[k]
    BY DEF Entries
  <1> HIDE DEF new
  <1>3. Entries' /\ cmd'[k] = new /\ \A j \in Commands \ {k} : cmd'[j] = cmd[j]
    BY <1>1, <1>2, TurnsOne DEF Entries
  <1> QED BY <1>2, <1>3 DEF Follows

(* What is left to signal.                                                  *)
LEMMA WithLeft ==
    ASSUME Entries, NEW k \in Commands, NEW to, NEW left,
           SetsLeft(k, to, left) \/ (Drops(k, left) /\ cmd[k].pc = to)
    PROVE  /\ Follows(k) /\ cmd'[k].pc = to /\ cmd'[k].said = cmd[k].said
           /\ cmd'[k].left = left /\ cmd'[k].tree = cmd[k].tree
  <1> DEFINE new == [cmd[k] EXCEPT !.pc = to, !.left = left]
             same == [cmd[k] EXCEPT !.left = left]
  <1>1. Turns(k, new) \/ (Turns(k, same) /\ cmd[k].pc = to)
    BY DEF SetsLeft, Drops, Turns, Entries
  <1>2. /\ new.pc = to /\ new.said = cmd[k].said /\ new.left = left
        /\ new.tree = cmd[k].tree /\ new.before = cmd[k].before /\ DOMAIN new = DOMAIN cmd[k]
    BY DEF Entries
  <1>3. /\ same.pc = cmd[k].pc /\ same.said = cmd[k].said /\ same.left = left
        /\ same.tree = cmd[k].tree /\ same.before = cmd[k].before /\ DOMAIN same = DOMAIN cmd[k]
    BY DEF Entries
  <1> HIDE DEF new, same
  <1>4. PICK e \in {new, same} : Turns(k, e) /\ e.pc = to BY <1>1, <1>2, <1>3
  <1>5. DOMAIN e = DOMAIN cmd[k] BY <1>2, <1>3
  <1>6. Entries' /\ cmd'[k] = e /\ \A j \in Commands \ {k} : cmd'[j] = cmd[j]
    BY <1>4, <1>5, TurnsOne DEF Entries
  <1> QED BY <1>2, <1>3, <1>4, <1>5, <1>6 DEF Follows

(* What a running command does to its entry.                                *)
Busy(k) == Step(k) \/ Interrupted(k)

(* It changes its own entry only, and keeps the root it has checked.        *)
LEMMA Followed ==
    ASSUME Entries, NEW k \in Commands, Busy(k)
    PROVE  Follows(k) /\ Running(k)
  <1>1. Running(k)
    BY DEF Busy, Step, Running, DumpSucceeds, DumpFails, CheckRoot, CollectTree, Publish,
       PublishFails, Recover, VerifyTree, SignalNext, Resumed, Interrupted
  <1>2. CASE \E to : Goes(k, to) BY <1>1, <1>2, Gone
  <1>3. CASE \E words : Ends(k, words) BY <1>1, <1>3, Ended
  <1>4. CASE \E to, image : SetsImage(k, to, image) BY <1>1, <1>4, WithImage
  <1>5. CASE \E to, tree : SetsTree(k, to, tree) BY <1>1, <1>5, WithTree
  <1>6. CASE \E to, left : SetsLeft(k, to, left) BY <1>1, <1>6, WithLeft
  <1>7. CASE \E left : Drops(k, left) BY <1>1, <1>7, WithLeft
  <1>8. CASE DumpSucceeds(k)
    <2>1. \E image : SetsImage(k, "dumped", image) BY <1>8 DEF DumpSucceeds, SetsImage
    <2> QED BY <1>1, <1>4, <2>1
  <1>9. CASE CollectTree(k) \/ Recover(k)
    <2>1. (\E to : Goes(k, to)) \/ (\E words : Ends(k, words)) \/ \E to, tree : SetsTree(k, to, tree)
      BY <1>9 DEF CollectTree, Recover, SetsTree
    <2> QED BY <1>1, <1>2, <1>3, <1>5, <2>1
  <1>10. CASE VerifyTree(k) \/ SignalNext(k)
    <2>1. \/ \E words : Ends(k, words)
          \/ \E left : SetsLeft(k, "signal", left) \/ Drops(k, left)
      BY <1>10 DEF VerifyTree, SignalNext, SetsLeft, Drops
    <2> QED BY <1>1, <1>3, <1>6, <1>7, <2>1
  <1>11. CASE DumpFails(k) \/ CheckRoot(k) \/ Publish(k) \/ PublishFails(k) \/ Resumed(k)
               \/ Interrupted(k)
    <2>1. (\E to : Goes(k, to)) \/ \E words : Ends(k, words)
      BY <1>11 DEF DumpFails, CheckRoot, Publish, PublishFails, Resumed, Interrupted
    <2> QED BY <1>1, <1>2, <1>3, <2>1
  <1> QED BY <1>8, <1>9, <1>10, <1>11 DEF Busy, Step

(* What goes on around the commands.                                        *)
Around ==
    \/ Write
    \/ \E p \in Pids : Fork(p) \/ Reap(p) \/ Kill(p) \/ Reuse(p) \/ OutsideContinue(p)

Elsewhere ==
    \/ \E k \in Commands : Carry(k)
    \/ Appears \/ Preflight \/ Install \/ InstallFails \/ CriuRestores \/ CriuRestoreFails

(* The kinds of steps there are.                                            *)
LEMMA Kinds ==
    ASSUME [Next]_vars
    PROVE  \/ \E k \in Commands : Starts(k) \/ Busy(k)
           \/ Around /\ UNCHANGED <<cmd, bundle, dest>>
           \/ Elsewhere /\ UNCHANGED <<proc, files, cmd, bundle, crossed>>
           \/ UNCHANGED vars
  <1>1. Around => UNCHANGED <<cmd, bundle, dest>>
    BY DEF Around, Write, Fork, Reap, Kill, Reuse, OutsideContinue
  <1>2. Elsewhere => UNCHANGED <<proc, files, cmd, bundle, crossed>>
    BY DEF Elsewhere, Carry, Appears, Preflight, Install, InstallFails, CriuRestores,
       CriuRestoreFails
  <1> QED BY <1>1, <1>2 DEF Next, Starts, Busy, Around, Elsewhere

(* What a running command does to the processes: nothing, or it freezes     *)
(* some, or it continues one of the application.                            *)
LEMMA BusyKinds ==
    ASSUME Table, Held, NEW k \in Commands, Busy(k)
    PROVE  /\ UNCHANGED files
           /\ \/ UNCHANGED <<proc, crossed>>
              \/ \E P \in SUBSET Pids : Freezes(P) /\ cmd[k].pc = "dump"
              \/ \E p \in Pids : proc[p].ours /\ Wakes(p) /\ SignalNext(k)
  <1>1. CASE DumpSucceeds(k) \/ DumpFails(k)
    BY <1>1 DEF DumpSucceeds, DumpFails, Descendants, Pids
  <1>2. CASE SignalNext(k)
    <2> DEFINE id == Head(cmd[k].left)
    <2>1. /\ UNCHANGED files /\ cmd[k].left # <<>>
          /\ \/ UNCHANGED <<proc, crossed>>
             \/ Exists(id) /\ Wakes(id.pid)
      BY <1>2 DEF SignalNext, SameIdentity
    <2>2. cmd[k].left \in Seq(GenuineIds) BY DEF Held, Holds
    <2>3. id \in GenuineIds BY <2>1, <2>2, HeadTailProperties
    <2> HIDE DEF id
    <2>4. id.pid \in Pids /\ Genuine(id) BY <2>3 DEF GenuineIds, Genuine
    <2>5. CASE Exists(id) /\ Wakes(id.pid)
      <3>1. id.start_ticks = proc[id.pid].start_ticks BY <2>5 DEF Exists, process_identity
      <3>2. proc[id.pid].start_ticks \in Nat BY <2>4 DEF Table
      <3>3. proc[id.pid].ours BY <2>4, <3>1, <3>2 DEF Genuine
      <3> QED BY <1>2, <2>1, <2>4, <2>5, <3>3
    <2> QED BY <2>1, <2>5
  <1>3. CASE \/ CheckRoot(k) \/ CollectTree(k) \/ Publish(k) \/ PublishFails(k) \/ Recover(k)
             \/ VerifyTree(k) \/ Resumed(k) \/ Interrupted(k)
    BY <1>3 DEF CheckRoot, CollectTree, Publish, PublishFails, Recover, VerifyTree, Resumed,
       Interrupted
  <1> QED BY <1>1, <1>2, <1>3 DEF Busy, Step

(* The fields are there after every step, and no crossing is undone.        *)
LEMMA EntriesStep ==
    ASSUME Table, Held, Entries, [Next]_vars
    PROVE  Entries' /\ crossed \subseteq crossed'
  <1>1. ASSUME NEW k \in Commands, Starts(k) PROVE Entries' /\ crossed \subseteq crossed'
    BY <1>1, Started
  <1>2. ASSUME NEW k \in Commands, Busy(k) PROVE Entries' /\ crossed \subseteq crossed'
    <2>1. Entries' BY <1>2, Followed DEF Follows
    <2>2. crossed \subseteq crossed' BY <1>2, BusyKinds DEF Freezes, Wakes
    <2> QED BY <2>1, <2>2
  <1>3. CASE Around /\ UNCHANGED <<cmd, bundle, dest>>
    <2>1. crossed \subseteq crossed'
      BY <1>3 DEF Around, Write, Fork, Reap, Kill, Reuse, OutsideContinue, Wakes
    <2> QED BY <1>3, <2>1 DEF Entries
  <1>4. CASE UNCHANGED <<cmd, crossed>> BY <1>4 DEF Entries
  <1> QED BY <1>1, <1>2, <1>3, <1>4, Kinds DEF vars

-----------------------------------------------------------------------------
(* The workspace is copied while the processes are stopped.                 *)

(* Every process of the tree is in the list that is made of it.             *)
LEMMA ListHasAll ==
    ASSUME NEW S, IsFiniteSet(S), NEW x \in S
    PROVE  \E i \in 1..Cardinality(S) : SetToSeq(S)[i] = x
  <1>1. PICK n \in Nat : ExistsBijection(1..n, S) BY FS_NatBijection
  <1>2. Cardinality(S) = n BY <1>1, FS_CountingElements
  <1>3. PICK f : f \in Bijection(1..n, S) BY <1>1 DEF ExistsBijection
  <1>4. f \in [1..n -> S] /\ IsInjective(f) BY <1>3 DEF Bijection, Injection
  <1>5. \E g \in [1..Cardinality(S) -> S] : IsInjective(g) BY <1>2, <1>4
  <1> DEFINE g == SetToSeq(S)
  <1>6. g \in [1..n -> S] /\ IsInjective(g) BY <1>2, <1>5 DEF SetToSeq
  <1> HIDE DEF g
  <1>7. g \in Injection(1..n, S)
    BY <1>6 DEF Injection
  <1>8. IsFiniteSet(1..n) /\ Cardinality(1..n) = n BY <1>1, FS_Interval
  <1>9. g \in Surjection(1..n, S) BY <1>2, <1>7, <1>8, FS_Injection
  <1>10. \E i \in 1..n : g[i] = x BY <1>9 DEF Surjection
  <1> QED BY <1>2, <1>10 DEF g

(* So a tree whose list is stopped is stopped.                              *)
LEMMA TreeStopped ==
    ASSUME Table, AllStopped(collect_process_tree)
    PROVE  \A p \in {Root} \cup Descendants : process_is_stopped(p)
  <1>1. Descendants \in SUBSET Pids BY DEF Descendants, Pids
  <1>2. IsFiniteSet(Descendants) BY <1>1, FS_Subset, ConstantAssumption
  <1> DEFINE n == Cardinality(Descendants)
             list == SetToSeq(Descendants)
             ids == [i \in 1..n |-> process_identity(list[i])]
  <1>3. n \in Nat BY <1>2, FS_CardinalityType
  <1>4. ids \in Seq({process_identity(list[i]) : i \in 1..n}) /\ Len(ids) = n BY <1>3
  <1>5. collect_process_tree = <<process_identity(Root)>> \o ids
    BY DEF collect_process_tree
  <1> DEFINE tree == <<process_identity(Root)>> \o ids
  <1>6. \A id \in ToSet(tree) : process_is_stopped(id.pid) BY <1>5 DEF AllStopped
  <1>7. \A i \in DOMAIN tree : process_is_stopped(tree[i].pid) BY <1>6 DEF ToSet
  <1>8. ids = [i \in 1..n |-> ids[i]] /\ \A i \in 1..n : ids[i].pid = list[i]
    BY DEF process_identity
  <1>9. process_identity(Root).pid = Root BY DEF process_identity
  <1>10. \A p \in Descendants : \E i \in 1..n : list[i] = p BY <1>2, ListHasAll
  <1> HIDE DEF n, list, ids
  <1>11. Len(tree) = n + 1 /\ tree[1] = process_identity(Root)
         /\ \A i \in 1..n : tree[i + 1] = ids[i] /\ i + 1 \in DOMAIN tree
    BY <1>3, <1>4
  <1>12. 1 \in DOMAIN tree BY <1>3, <1>4
  <1> HIDE DEF tree
  <1>13. process_is_stopped(Root) BY <1>7, <1>9, <1>11, <1>12
  <1>14. \A i \in 1..n : process_is_stopped(list[i]) BY <1>7, <1>8, <1>11
  <1> QED BY <1>10, <1>13, <1>14

Quiet == \A p \in Pids : proc[p].ours /\ proc[p].state # "none" => process_is_stopped(p)
StillFrozen(k) == Exists(cmd[k].before) /\ Quiet
NoneRuns == \A p \in Pids : proc[p].ours => proc[p].state # "run"

(* A bundle, or an entry without one, is whole.                             *)
Whole(b) ==
    /\ b = [tree |-> b.tree, image |-> b.image, ws |-> b.ws, files |-> b.files]
    /\ b.ws \in Nat /\ b.files = <<b.ws, b.image>>

(* From the dump on, a tree that is still frozen has not written.           *)
Fresh(k) ==
    /\ cmd[k].pc \in {"dumped", "collect"} /\ StillFrozen(k) => cmd[k].image.at = files
    /\ cmd[k].pc = "copy" => NoneRuns /\ cmd[k].image.at = files
    /\ bundle[k].image.at = bundle[k].ws

Copying ==
    /\ files \in Nat
    /\ bundle = [k \in Commands |-> bundle[k]]
    /\ \A k \in Commands :
          /\ Whole(bundle[k]) /\ (Published(k) => cmd[k].pc = "ended")
          /\ k \notin crossed => Fresh(k)

(* Of a root that is still the one captured.                                *)
LEMMA SameRoot ==
    ASSUME Table, Held, NEW k \in Commands, Exists(cmd[k].before)
    PROVE  /\ proc[Root].ours /\ proc[Root].state # "none"
           /\ proc[Root].start_ticks = cmd[k].before.start_ticks
           /\ cmd[k].before.pid = Root
  <1>1. cmd[k].before \in GenuineIds /\ cmd[k].before.pid = Root BY DEF Held, Holds
  <1>2. proc[Root].state # "none" /\ proc[Root].start_ticks = cmd[k].before.start_ticks
    BY <1>1 DEF Exists, process_identity
  <1>3. proc[Root].start_ticks \in Nat BY DEF Table, Pids
  <1>4. Genuine(cmd[k].before) BY <1>1 DEF GenuineIds
  <1>5. proc[Root].ours BY <1>1, <1>2, <1>3, <1>4 DEF Genuine
  <1> QED BY <1>1, <1>2, <1>5

(* A root that is the one captured after a step around it was so before.    *)
LEMMA RootStays ==
    ASSUME Table, Held, Table', Held', \A p \in Pids : SameOrLater(p),
           NEW k \in Commands, cmd'[k].before = cmd[k].before, Exists(cmd[k].before)'
    PROVE  /\ proc[Root].ours /\ proc'[Root].start_ticks = proc[Root].start_ticks
           /\ proc'[Root].ours /\ proc'[Root].state # "none"
           /\ proc[Root].state # "none" => Exists(cmd[k].before)
  <1>1. /\ proc'[Root].ours /\ proc'[Root].state # "none"
        /\ proc'[Root].start_ticks = cmd'[k].before.start_ticks
        /\ cmd'[k].before.pid = Root
    <2>1. cmd'[k].before \in GenuineIds' /\ cmd'[k].before.pid = Root BY DEF Held, Holds
    <2>2. proc'[Root].state # "none" /\ proc'[Root].start_ticks = cmd'[k].before.start_ticks
      BY <2>1 DEF Exists, process_identity
    <2>3. proc'[Root].start_ticks \in Nat BY DEF Table, Pids
    <2>4. Genuine(cmd[k].before)' BY <2>1 DEF GenuineIds
    <2> QED BY <2>1, <2>2, <2>3, <2>4 DEF Genuine
  <1>2. Genuine(cmd[k].before) BY DEF Held, Holds, GenuineIds
  <1>3. /\ proc[Root].start_ticks \in Nat /\ proc'[Root].start_ticks \in Nat
        /\ SameOrLater(Root)
    BY DEF Table, Pids
  <1>4. proc'[Root].start_ticks = proc[Root].start_ticks /\ proc[Root].ours
    BY <1>1, <1>2, <1>3 DEF Genuine, SameOrLater
  <1>5. process_identity(Root) = [pid |-> Root, start_ticks |-> proc[Root].start_ticks]
    BY DEF process_identity
  <1>6. cmd[k].before = [pid |-> Root, start_ticks |-> proc'[Root].start_ticks]
    BY <1>1 DEF Exists, process_identity
  <1> QED BY <1>1, <1>4, <1>5, <1>6 DEF Exists

(* A tree that is still frozen after a step around it was so before, and    *)
(* the workspace is what it was.                                            *)
LEMMA FrozenBefore ==
    ASSUME Table, Held, [Next]_vars, NEW k \in Commands, Around,
           cmd'[k].before = cmd[k].before, StillFrozen(k)'
    PROVE  StillFrozen(k) /\ UNCHANGED files
  <1>0. Table' /\ Held' /\ \A p \in Pids : SameOrLater(p) BY TableStep, HeldStep
  <1>1. /\ proc[Root].ours /\ proc'[Root].start_ticks = proc[Root].start_ticks
        /\ proc'[Root].ours /\ proc'[Root].state # "none"
        /\ proc[Root].state # "none" => Exists(cmd[k].before)
    BY <1>0, RootStays DEF StillFrozen
  <1>2. Root \in Pids /\ Others \subseteq Pids /\ Root \notin Others
    BY ConstantAssumption DEF Pids
  <1>3. \A p \in Pids : proc'[p].ours /\ proc'[p].state # "none" => proc'[p].state = "stop"
    BY DEF StillFrozen, Quiet, process_is_stopped
  <1>4. proc'[Root].state = "stop" BY <1>1, <1>2, <1>3
  <1>5. proc = [p \in Pids |-> proc[p]]
        /\ \A p \in Pids : proc[p] = [start_ticks |-> proc[p].start_ticks,
                                      state |-> proc[p].state, ours |-> proc[p].ours]
    BY DEF Table
  <1>6. CASE Write
    <2>1. UNCHANGED proc BY <1>6 DEF Write
    <2> QED BY <1>2, <1>3, <1>6, <2>1 DEF Write
  <1>7. ASSUME NEW p \in Pids, Fork(p) PROVE FALSE
    <2>1. p # Root /\ proc'[Root] = proc[Root] BY <1>2, <1>5, <1>7 DEF Fork
    <2> QED BY <1>4, <1>7, <2>1 DEF Fork
  <1>8. ASSUME NEW p \in Pids, Reap(p) PROVE FALSE
    <2>1. p # Root /\ proc'[Root] = proc[Root] BY <1>2, <1>5, <1>8 DEF Reap
    <2> QED BY <1>1, <1>4, <1>8, <2>1 DEF Reap
  <1>9. ASSUME NEW p \in Pids, Kill(p) PROVE FALSE
    <2>1. CASE p = Root
      <3>1. proc'[Root].state = "none" BY <1>2, <1>5, <1>9, <2>1 DEF Kill
      <3> QED BY <1>4, <3>1
    <2>2. CASE p # Root
      <3>1. p \in Others /\ proc'[Root] = proc[Root] BY <1>2, <1>5, <1>9, <2>2 DEF Kill, Pids
      <3>2. proc'[p].state = "dead" /\ proc'[p].ours
        BY <1>1, <1>4, <1>5, <1>9, <3>1 DEF Kill
      <3> QED BY <1>3, <3>2
    <2> QED BY <2>1, <2>2
  <1>10. ASSUME NEW p \in Pids, Reuse(p) PROVE StillFrozen(k) /\ UNCHANGED files
    <2>1. PICK s : proc' = [proc EXCEPT ![p] = [start_ticks |-> proc[p].start_ticks + 1,
                                               state |-> s, ours |-> FALSE]]
      BY <1>10 DEF Reuse
    <2>2. p # Root BY <1>0, <1>1, <1>2, <1>5, <2>1 DEF Table
    <2>3. \A q \in Pids \ {p} : proc'[q] = proc[q] BY <1>5, <2>1
    <2>4. proc[p].state = "none" /\ UNCHANGED files BY <1>10 DEF Reuse
    <2>5. Quiet BY <1>3, <2>3, <2>4 DEF Quiet, process_is_stopped
    <2> QED BY <1>1, <1>2, <1>4, <2>2, <2>3, <2>4, <2>5 DEF StillFrozen
  <1>11. ASSUME NEW p \in Pids, OutsideContinue(p) PROVE FALSE
    <2>1. proc' = [proc EXCEPT ![p].state = "run"]
      BY <1>11 DEF OutsideContinue, Wakes, Continued
    <2>2. proc'[p].state = "run" /\ proc'[p].ours = proc[p].ours BY <1>5, <2>1
    <2> QED BY <1>3, <1>11, <2>2 DEF OutsideContinue
  <1> QED BY <1>6, <1>7, <1>8, <1>9, <1>10, <1>11 DEF Around

(* While a copy is made that is not crossed, no process of the application  *)
(* begins to run.                                                           *)
LEMMA StillNoneRuns ==
    ASSUME Table, NEW k \in Commands \ crossed', cmd[k].pc = "copy", NoneRuns, Around
    PROVE  NoneRuns' /\ UNCHANGED files
  <1>1. proc = [p \in Pids |-> proc[p]]
        /\ \A p \in Pids : proc[p] = [start_ticks |-> proc[p].start_ticks,
                                      state |-> proc[p].state, ours |-> proc[p].ours]
    BY DEF Table
  <1>2. Root \in Pids BY DEF Pids
  <1>3. CASE Write
    <2> QED BY <1>3 DEF Write, NoneRuns
  <1>4. ASSUME NEW p \in Pids, Fork(p) PROVE FALSE BY <1>2, <1>4 DEF Fork, NoneRuns
  <1>5. ASSUME NEW p \in Pids, Reap(p) \/ Kill(p) PROVE NoneRuns' /\ UNCHANGED files
    <2>1. PICK s \in {"none", "dead"} : proc' = [proc EXCEPT ![p].state = s]
      BY <1>5 DEF Reap, Kill
    <2>2. proc'[p].state = s /\ \A q \in Pids \ {p} : proc'[q] = proc[q] BY <1>1, <2>1
    <2>3. UNCHANGED files BY <1>5 DEF Reap, Kill
    <2> QED BY <2>1, <2>2, <2>3 DEF NoneRuns
  <1>6. ASSUME NEW p \in Pids, Reuse(p) PROVE NoneRuns' /\ UNCHANGED files
    <2>1. PICK s, o : /\ o = FALSE
                      /\ proc' = [proc EXCEPT ![p] = [start_ticks |-> proc[p].start_ticks + 1,
                                                      state |-> s, ours |-> o]]
      BY <1>6 DEF Reuse
    <2>2. proc'[p].ours = o /\ \A q \in Pids \ {p} : proc'[q] = proc[q] BY <1>1, <2>1
    <2>3. UNCHANGED files BY <1>6 DEF Reuse
    <2> QED BY <2>1, <2>2, <2>3 DEF NoneRuns
  <1>7. ASSUME NEW p \in Pids, OutsideContinue(p) PROVE FALSE
    BY <1>7 DEF OutsideContinue, Wakes, At
  <1> QED BY <1>3, <1>4, <1>5, <1>6, <1>7 DEF Around

(* What holds of a copy is kept when its command and the processes stay.    *)
LEMMA FreshStays ==
    ASSUME NEW k \in Commands, Fresh(k), cmd'[k] = cmd[k], bundle'[k] = bundle[k],
           UNCHANGED <<proc, files>>
    PROVE  Fresh(k)'
  <1>1. StillFrozen(k)' => StillFrozen(k)
    BY DEF StillFrozen, Quiet, Exists, process_identity, process_is_stopped
  <1>2. NoneRuns => NoneRuns' BY DEF NoneRuns
  <1> QED BY <1>1, <1>2 DEF Fresh

(* It is kept when another command freezes processes and does not cross it. *)
LEMMA FreshThroughFreeze ==
    ASSUME Table, NEW k \in Commands, k \notin crossed', Fresh(k), cmd'[k] = cmd[k],
           bundle'[k] = bundle[k], UNCHANGED files, NEW P \in SUBSET Pids, Freezes(P)
    PROVE  Fresh(k)'
  <1>1. proc' = Stopped(P) BY DEF Freezes
  <1>2. CASE Stopped(P) = proc BY <1>1, <1>2, FreshStays
  <1>3. CASE Stopped(P) # proc
    <2>1. k \notin At({"dumped", "collect", "signal"}) BY <1>3 DEF Freezes
    <2>2. cmd[k].pc \notin {"dumped", "collect"} BY <2>1 DEF At
    <2>3. ASSUME NoneRuns PROVE NoneRuns'
      <3> SUFFICES ASSUME NEW p \in Pids, proc'[p].ours PROVE proc'[p].state # "run"
        BY DEF NoneRuns
      <3>1. proc[p] = [start_ticks |-> proc[p].start_ticks, state |-> proc[p].state,
                       ours |-> proc[p].ours]
        BY DEF Table
      <3>2. CASE p \in P /\ proc[p].state = "run"
        <4>1. proc'[p] = [proc[p] EXCEPT !.state = "stop"] BY <1>1, <3>2 DEF Stopped
        <4> QED BY <3>1, <4>1
      <3>3. CASE ~(p \in P /\ proc[p].state = "run")
        <4>1. proc'[p] = proc[p] BY <1>1, <3>3 DEF Stopped
        <4> QED BY <2>3, <4>1 DEF NoneRuns
      <3> QED BY <3>2, <3>3
    <2> QED BY <2>2, <2>3 DEF Fresh
  <1> QED BY <1>2, <1>3

(* And when another command continues a process and does not cross it: a    *)
(* tree that is still frozen has not been touched.                          *)
LEMMA FreshThroughWake ==
    ASSUME Table, NEW k \in Commands, k \notin crossed', Fresh(k), cmd'[k] = cmd[k],
           bundle'[k] = bundle[k], UNCHANGED files, NEW p \in Pids, proc[p].ours, Wakes(p)
    PROVE  Fresh(k)'
  <1>1. CASE ~process_is_stopped(p)
    <2>1. UNCHANGED proc BY <1>1 DEF Wakes, Continued
    <2> QED BY <2>1, FreshStays
  <1>2. CASE process_is_stopped(p)
    <2>1. cmd[k].pc # "copy" BY <1>2 DEF Wakes, At
    <2>2. proc' = [proc EXCEPT ![p].state = "run"] BY <1>2 DEF Wakes, Continued
    <2>3. proc = [q \in Pids |-> proc[q]]
          /\ proc[p] = [start_ticks |-> proc[p].start_ticks, state |-> proc[p].state,
                        ours |-> proc[p].ours]
      BY DEF Table
    <2>4. proc'[p].state = "run" /\ proc'[p].ours BY <2>2, <2>3
    <2>5. ~StillFrozen(k)' BY <2>4 DEF StillFrozen, Quiet, process_is_stopped
    <2> QED BY <2>1, <2>5 DEF Fresh
  <1> QED BY <1>1, <1>2

(* The dump and what follows it.                                            *)
LEMMA FreshCapture ==
    ASSUME Table, Held, Entries, Copying, NEW k \in Commands, k \notin crossed, Fresh(k),
           DumpSucceeds(k) \/ CheckRoot(k) \/ CollectTree(k) \/ Publish(k)
    PROVE  Fresh(k)'
  <1>4. UNCHANGED files
    BY DEF DumpSucceeds, CheckRoot, CollectTree, Publish
  <1>5. CASE DumpSucceeds(k)
    <2> DEFINE image == [procs |-> ToSet(collect_process_tree), at |-> files]
    <2>1. SetsImage(k, "dumped", image) /\ UNCHANGED bundle
      BY <1>5 DEF DumpSucceeds, SetsImage
    <2>2. image.at = files OBVIOUS
    <2> HIDE DEF image
    <2>3. cmd'[k].pc = "dumped" /\ cmd'[k].image = image BY <2>1, WithImage
    <2> QED BY <1>4, <2>1, <2>2, <2>3 DEF Fresh
  <1>6. CASE CheckRoot(k)
    <2>1. UNCHANGED <<proc, files, bundle>> /\ cmd[k].pc = "dumped" BY <1>6 DEF CheckRoot
    <2>2. CASE \E words : Ends(k, words) BY <2>1, <2>2, Ended DEF Fresh
    <2>3. CASE \E to \in {"recover", "collect"} : Goes(k, to)
      <3>1. /\ cmd'[k].image = cmd[k].image /\ cmd'[k].before = cmd[k].before
            /\ cmd'[k].pc \in {"recover", "collect"}
        BY <2>3, Gone DEF Follows
      <3>2. StillFrozen(k)' => StillFrozen(k)
        BY <2>1, <3>1 DEF StillFrozen, Quiet, Exists, process_identity, process_is_stopped
      <3> QED BY <2>1, <3>1, <3>2 DEF Fresh
    <2> QED BY <1>6, <2>2, <2>3 DEF CheckRoot
  <1>7. CASE CollectTree(k)
    <2>1. UNCHANGED <<proc, files, bundle>> /\ cmd[k].pc = "collect" BY <1>7 DEF CollectTree
    <2>2. CASE Goes(k, "recover") BY <2>1, <2>2, Gone DEF Fresh
    <2>3. CASE /\ Exists(cmd[k].before) /\ AllStopped(collect_process_tree)
               /\ cmd' = [cmd EXCEPT ![k].pc = "copy", ![k].tree = collect_process_tree]
      <3>1. \A p \in {Root} \cup Descendants : process_is_stopped(p) BY <2>3, TreeStopped
      <3>2. proc[Root].ours BY <2>3, SameRoot
      <3>3. Quiet /\ NoneRuns
        BY <3>1, <3>2 DEF Quiet, NoneRuns, Descendants, Pids, process_is_stopped
      <3>4. cmd[k].image.at = files BY <2>1, <2>3, <3>3 DEF Fresh, StillFrozen
      <3>5. SetsTree(k, "copy", collect_process_tree) BY <2>3 DEF SetsTree
      <3>6. cmd'[k].pc = "copy" /\ cmd'[k].image = cmd[k].image BY <3>5, WithTree
      <3>7. NoneRuns' BY <2>1, <3>3 DEF NoneRuns
      <3> QED BY <2>1, <3>4, <3>6, <3>7 DEF Fresh
    <2> QED BY <1>7, <2>2, <2>3 DEF CollectTree
  <1>8. CASE Publish(k)
    <2>1. /\ bundle' = [bundle EXCEPT ![k] =
                          [tree |-> cmd[k].tree, image |-> cmd[k].image, ws |-> files,
                           files |-> <<files, cmd[k].image>>]]
          /\ Ends(k, "published") /\ cmd[k].pc = "copy"
      BY <1>8 DEF Publish, copy_tree, inventory_bundle
    <2>2. cmd[k].image.at = files BY <2>1 DEF Fresh
    <2>3. cmd'[k].pc = "ended" BY <2>1, Ended
    <2>4. bundle'[k].image = cmd[k].image /\ bundle'[k].ws = files
      BY <2>1 DEF Copying
    <2> QED BY <2>2, <2>3, <2>4 DEF Fresh
  <1> QED BY <1>5, <1>6, <1>7, <1>8

(* A command that goes elsewhere has no copy to keep.                       *)
LEMMA FreshElsewhere ==
    ASSUME Entries, NEW k \in Commands, Fresh(k), Busy(k),
           ~(DumpSucceeds(k) \/ CheckRoot(k) \/ CollectTree(k) \/ Publish(k))
    PROVE  Fresh(k)'
  <1>1. UNCHANGED bundle
    BY DEF Busy, Step, DumpFails, PublishFails, Recover, VerifyTree, SignalNext, Resumed,
       Interrupted
  <1>2. \/ \E to \in {"recover", "verify"} : Goes(k, to)
        \/ \E words : Ends(k, words)
        \/ \E tree : SetsTree(k, "verify", tree)
        \/ cmd[k].pc = "signal" /\ \E left : Drops(k, left)
        \/ \E left : SetsLeft(k, "signal", left)
    <2>1. CASE DumpFails(k) \/ PublishFails(k) \/ Resumed(k) \/ Interrupted(k)
      BY <2>1 DEF DumpFails, PublishFails, Resumed, Interrupted
    <2>2. CASE Recover(k) \/ VerifyTree(k) \/ SignalNext(k)
      BY <2>2 DEF Recover, VerifyTree, SignalNext, SetsTree, SetsLeft, Drops
    <2> QED BY <2>1, <2>2 DEF Busy, Step
  <1>3. cmd'[k].pc \notin {"dumped", "collect", "copy"}
    BY <1>2, Gone, Ended, WithTree, WithLeft
  <1> QED BY <1>1, <1>3 DEF Fresh

(* A bundle that is published is whole, and its command has ended.          *)
LEMMA BundlesStep ==
    ASSUME Held, Entries, Copying, [Next]_vars, NEW k \in Commands
    PROVE  /\ Whole(bundle[k])' /\ (Published(k) => cmd[k].pc = "ended")'
           /\ bundle' = [j \in Commands |-> bundle'[j]]
           /\ Published(k) => bundle'[k] = bundle[k]
           /\ bundle'[k] = bundle[k] \/ Publish(k)
  <1>0. /\ Whole(bundle[k]) /\ (Published(k) => cmd[k].pc = "ended")
        /\ bundle = [j \in Commands |-> bundle[j]]
    BY DEF Copying
  <1>1. ASSUME UNCHANGED bundle, ~(cmd[k].pc = "ended" /\ cmd'[k].pc # "ended")
        PROVE  /\ Whole(bundle[k])' /\ (Published(k) => cmd[k].pc = "ended")'
               /\ bundle' = [j \in Commands |-> bundle'[j]] /\ bundle'[k] = bundle[k]
    BY <1>0, <1>1 DEF Whole, Published, NoBundle
  <1>2. ASSUME NEW j \in Commands, Starts(j)
        PROVE  UNCHANGED bundle /\ ~(cmd[k].pc = "ended" /\ cmd'[k].pc # "ended")
    <2>1. /\ \A i \in Commands \ {j} : cmd'[i] = cmd[i]
          /\ cmd[j].pc = "waiting" /\ UNCHANGED bundle
      BY <1>2, Started
    <2> QED BY <2>1
  <1>3. ASSUME NEW j \in Commands, Busy(j), ~Publish(j)
        PROVE  UNCHANGED bundle /\ ~(cmd[k].pc = "ended" /\ cmd'[k].pc # "ended")
    <2>1. Follows(j) /\ Running(j) BY <1>3, Followed
    <2>2. UNCHANGED bundle
      BY <1>3 DEF Busy, Step, DumpSucceeds, DumpFails, CheckRoot, CollectTree, PublishFails,
         Recover, VerifyTree, SignalNext, Resumed, Interrupted
    <2> QED BY <2>1, <2>2 DEF Follows, Running
  <1>4. ASSUME NEW j \in Commands, Publish(j)
        PROVE  /\ Whole(bundle[k])' /\ (Published(k) => cmd[k].pc = "ended")'
               /\ bundle' = [i \in Commands |-> bundle'[i]]
               /\ Published(k) => bundle'[k] = bundle[k]
               /\ bundle'[k] = bundle[k] \/ k = j
    <2> DEFINE new == [tree |-> cmd[j].tree, image |-> cmd[j].image, ws |-> files,
                       files |-> <<files, cmd[j].image>>]
    <2>1. /\ bundle' = [bundle EXCEPT ![j] = new] /\ Ends(j, "published")
          /\ cmd[j].pc = "copy"
      BY <1>4 DEF Publish, copy_tree, inventory_bundle
    <2>2. Whole(new) BY DEF Whole, Copying
    <2> HIDE DEF new
    <2>3. Follows(j) /\ cmd'[j].pc = "ended" BY <2>1, Ended
    <2>4. /\ bundle' = [i \in Commands |-> bundle'[i]]
          /\ \A i \in Commands : bundle'[i] = IF i = j THEN new ELSE bundle[i]
      BY <1>0, <2>1
    <2>5. CASE k = j BY <1>0, <2>1, <2>2, <2>3, <2>4, <2>5 DEF Whole
    <2>6. CASE k # j BY <1>0, <2>3, <2>4, <2>6 DEF Whole, Published, NoBundle, Follows
    <2> QED BY <2>5, <2>6
  <1>5. CASE UNCHANGED <<cmd, bundle>> BY <1>1, <1>5
  <1> QED BY <1>1, <1>2, <1>3, <1>4, <1>5, Kinds DEF vars

(* Every step keeps it.                                                     *)
LEMMA CopyingStep ==
    ASSUME Table, Held, Entries, Copying, [Next]_vars
    PROVE  Copying'
  <1>0. crossed \subseteq crossed' BY EntriesStep
  <1>1. files' \in Nat
    <2>1. CASE Around
      BY <2>1 DEF Around, Write, Fork, Reap, Kill, Reuse, OutsideContinue, Copying
    <2>2. ASSUME NEW k \in Commands, Starts(k) \/ Busy(k) PROVE UNCHANGED files
      BY <2>2, Started, BusyKinds
    <2> QED BY <2>1, <2>2, Kinds DEF Copying, vars
  <1>2. ASSUME NEW k \in Commands, k \notin crossed' PROVE Fresh(k)'
    <2>0. Fresh(k) /\ k \notin crossed BY <1>0, <1>2 DEF Copying
    <2>1. ASSUME NEW j \in Commands, Starts(j) PROVE Fresh(k)'
      <3>1. /\ \A i \in Commands \ {j} : cmd'[i] = cmd[i]
            /\ cmd'[j].pc \in {"dump", "verify"} /\ UNCHANGED <<proc, files, bundle>>
        BY <2>1, Started
      <3>2. CASE k = j BY <2>0, <3>1, <3>2 DEF Fresh
      <3>3. CASE k # j BY <2>0, <3>1, <3>3, FreshStays
      <3> QED BY <3>2, <3>3
    <2>2. CASE Busy(k) BY <2>0, <2>2, FreshCapture, FreshElsewhere
    <2>3. ASSUME NEW j \in Commands \ {k}, Busy(j) PROVE Fresh(k)'
      <3>1. cmd'[k] = cmd[k] BY <2>3, Followed DEF Follows
      <3>2. bundle'[k] = bundle[k]
        <4>1. Publish(k) => cmd'[k].pc = "ended" /\ cmd[k].pc = "copy"
          BY Ended DEF Publish
        <4> QED BY <3>1, <4>1, BundlesStep
      <3>3. UNCHANGED files BY <2>3, BusyKinds
      <3>4. CASE UNCHANGED <<proc, crossed>> BY <2>0, <3>1, <3>2, <3>3, <3>4, FreshStays
      <3>5. ASSUME NEW P \in SUBSET Pids, Freezes(P) PROVE Fresh(k)'
        BY <1>2, <2>0, <3>1, <3>2, <3>3, <3>5, FreshThroughFreeze
      <3>6. ASSUME NEW p \in Pids, proc[p].ours, Wakes(p) PROVE Fresh(k)'
        BY <1>2, <2>0, <3>1, <3>2, <3>3, <3>6, FreshThroughWake
      <3> QED BY <2>3, <3>4, <3>5, <3>6, BusyKinds
    <2>4. CASE Around /\ UNCHANGED <<cmd, bundle, dest>>
      <3>1. StillFrozen(k)' => StillFrozen(k) /\ UNCHANGED files BY <2>4, FrozenBefore
      <3>2. cmd[k].pc = "copy" => NoneRuns' /\ UNCHANGED files
        BY <1>2, <2>0, <2>4, StillNoneRuns DEF Fresh
      <3> QED BY <2>0, <2>4, <3>1, <3>2 DEF Fresh
    <2>5. CASE UNCHANGED <<proc, files, cmd, bundle>> BY <2>0, <2>5, FreshStays
    <2> QED BY <2>1, <2>2, <2>3, <2>4, <2>5, Kinds DEF vars
  <1>3. \A k \in Commands : /\ Whole(bundle[k])' /\ (Published(k) => cmd[k].pc = "ended")'
    BY BundlesStep
  <1>4. bundle' = [k \in Commands |-> bundle'[k]]
    <2>1. CASE Commands = {}
      <3>1. UNCHANGED bundle
        BY <2>1, Kinds DEF vars
      <3> QED BY <3>1 DEF Copying
    <2>2. CASE Commands # {} BY <2>2, BundlesStep
    <2> QED BY <2>1, <2>2
  <1> QED BY <1>1, <1>2, <1>3, <1>4 DEF Copying

(* No command has begun at first.                                           *)
LEMMA CopyingAtFirst == Init => Entries /\ Copying
  <1> SUFFICES ASSUME Init PROVE Entries /\ Copying OBVIOUS
  <1>1. /\ cmd = [k \in Commands |-> Waiting] /\ bundle = [k \in Commands |-> NoBundle]
        /\ files = 0
    BY DEF Init
  <1>2. Entries BY <1>1 DEF Entries, Waiting
  <1>3. Whole(NoBundle) /\ NoBundle.image.at = NoBundle.ws BY DEF Whole, NoBundle, NoImage
  <1>4. \A k \in Commands : cmd[k].pc = "waiting" BY <1>1 DEF Waiting
  <1>5. Copying BY <1>1, <1>3, <1>4 DEF Copying, Fresh, Published
  <1> QED BY <1>2, <1>5

CaptureInv == Table /\ Held /\ Entries /\ Copying

(* The invariant of the commands.                                           *)
LEMMA CaptureAlways ==
    Spec => []CaptureInv
  <1>1. Init => CaptureInv BY GenuineAtFirst, CopyingAtFirst DEF CaptureInv
  <1>2. CaptureInv /\ [Next]_vars => CaptureInv'
    <2> SUFFICES ASSUME CaptureInv, [Next]_vars PROVE CaptureInv' OBVIOUS
    <2>1. Table' /\ Held' BY TableStep, HeldStep DEF CaptureInv
    <2>2. Entries' BY EntriesStep DEF CaptureInv
    <2>3. Copying' BY CopyingStep DEF CaptureInv
    <2> QED BY <2>1, <2>2, <2>3 DEF CaptureInv
  <1> QED BY <1>1, <1>2, PTL DEF Spec

(* The workspace of a bundle is the one its processes were frozen with      *)
(* (capture), unless the capture was crossed: who continues one of them     *)
(* between the dump and the copy is noticed when nobody stops it again, and *)
(* a parent that is stopped reaps none of its children.                     *)
THEOREM BundleIsOfOneMoment == Spec => []CopiedWhileStopped
  <1>1. CaptureInv => CopiedWhileStopped
    BY DEF CaptureInv, Copying, Fresh, CopiedWhileStopped
  <1> QED BY <1>1, CaptureAlways, PTL

-----------------------------------------------------------------------------
(* The destination.                                                         *)

(* What is restored has passed verify_bundle and compare_hosts, and its     *)
(* workspace is where restore put it.                                       *)
Landed ==
    /\ dest = [copy |-> dest.copy, host |-> dest.host, dir |-> dest.dir,
               image |-> dest.image, pc |-> dest.pc]
    /\ verify_bundle(dest.copy) => \E k \in Commands : Published(k) /\ dest.copy = bundle[k]
    /\ dest.pc \in {"staged", "installed"} => plan /\ dest.image = NoImage
    /\ dest.pc = "installed" => dest.dir = dest.copy.ws
    /\ dest.image # NoImage =>
          /\ dest.dir \in Nat /\ Features \subseteq dest.host.cpu
          /\ \E k \in Commands : /\ Published(k) /\ bundle[k].image = dest.image
                                 /\ bundle[k].ws = dest.dir

(* A copy that passes is the bundle that was published.                     *)
LEMMA CarriedIsWhole ==
    ASSUME NEW b, Whole(b), NEW copy \in {b} \cup Damaged(b), verify_bundle(copy)
    PROVE  copy = b
  <1>1. copy.files = <<copy.ws, copy.image>> BY DEF verify_bundle, inventory_bundle
  <1>2. /\ b = [tree |-> b.tree, image |-> b.image, ws |-> b.ws, files |-> b.files]
        /\ b.ws \in Nat /\ b.files = <<b.ws, b.image>>
    BY DEF Whole
  <1>3. CASE copy = b BY <1>3
  <1>4. CASE copy = [b EXCEPT !.ws = @ + 1]
    <2>1. copy = [tree |-> b.tree, image |-> b.image, ws |-> b.ws + 1, files |-> b.files]
      BY <1>2, <1>4
    <2>2. copy.ws = b.ws + 1 /\ copy.files = <<b.ws, b.image>> BY <1>2, <2>1
    <2>3. b.ws + 1 = b.ws BY <1>1, <2>2
    <2> QED BY <1>2, <2>3
  <1>5. CASE copy = [b EXCEPT !.image = NoImage]
    <2>1. copy = [tree |-> b.tree, image |-> NoImage, ws |-> b.ws, files |-> b.files]
      BY <1>2, <1>5
    <2>2. copy.image = NoImage /\ copy.ws = b.ws /\ copy.files = <<b.ws, b.image>>
      BY <1>2, <2>1
    <2>3. b.image = NoImage BY <1>1, <2>2
    <2> QED BY <1>2, <2>1, <2>3
  <1> QED BY <1>3, <1>4, <1>5 DEF Damaged

(* The destination changes in one or more of its parts.                     *)
Lands(copy, dir, image, pc) ==
    dest' = [copy |-> copy, host |-> dest.host, dir |-> dir, image |-> image, pc |-> pc]

(* What a step there does to it.                                            *)
LEMMA LandedStep ==
    ASSUME Table, Held, Entries, Copying, Landed, [Next]_vars
    PROVE  Landed'
  <1>a. \A k \in Commands : Published(k) => Published(k)' /\ bundle'[k] = bundle[k]
    BY BundlesStep DEF Published, NoBundle
  <1>0. dest = [copy |-> dest.copy, host |-> dest.host, dir |-> dest.dir,
                image |-> dest.image, pc |-> dest.pc]
    BY DEF Landed
  <1>1. CASE UNCHANGED dest BY <1>1, <1>a DEF Landed, plan
  <1>2. ASSUME NEW k \in Commands, Carry(k) PROVE Landed'
    <2>1. PICK copy \in {bundle[k]} \cup Damaged(bundle[k]) : dest' = [dest EXCEPT !.copy = copy]
      BY <1>2 DEF Carry
    <2>2. dest.pc = "waiting" BY <1>2 DEF Carry
    <2>3. Lands(copy, dest.dir, dest.image, "waiting") BY <1>0, <2>1, <2>2 DEF Lands
    <2>4. verify_bundle(copy) => copy = bundle[k]
      BY CarriedIsWhole DEF Copying
    <2>5. Published(k) BY <1>2 DEF Carry
    <2> QED BY <1>a, <2>3, <2>4, <2>5 DEF Landed, Lands
  <1>3. CASE Appears
    <2>1. Lands(dest.copy, Foreign, dest.image, dest.pc) /\ dest.pc = "staged"
      BY <1>0, <1>3 DEF Appears, Lands
    <2> QED BY <1>a, <2>1 DEF Landed, Lands, plan
  <1>4. CASE Preflight
    <2>1. Lands(dest.copy, dest.dir, dest.image, "staged") /\ plan /\ dest.dir = Nothing
      BY <1>0, <1>4 DEF Preflight, Lands, Absent
    <2>2. dest.image = NoImage BY <2>1 DEF Landed, Nothing
    <2> QED BY <1>a, <2>1, <2>2 DEF Landed, Lands, plan
  <1>5. CASE Install
    <2>1. /\ dest.pc = "staged"
          /\ \/ Lands(dest.copy, dest.copy.ws, dest.image, "installed")
             \/ Lands(dest.copy, dest.dir, dest.image, "waiting")
      BY <1>0, <1>5 DEF Install, Lands
    <2> QED BY <1>a, <2>1 DEF Landed, Lands, plan
  <1>6. CASE InstallFails
    <2>1. Lands(dest.copy, Nothing, dest.image, "waiting") /\ dest.pc = "installed"
      BY <1>0, <1>6 DEF InstallFails, Lands
    <2> QED BY <1>a, <2>1 DEF Landed, Lands
  <1>7. CASE CriuRestores \/ CriuRestoreFails
    <2>1. PICK image \in {dest.image, dest.copy.image} :
             Lands(dest.copy, dest.dir, image, "waiting")
      BY <1>0, <1>7 DEF CriuRestores, CriuRestoreFails, LeftBehind, Lands
    <2>2. dest.pc = "installed" BY <1>7 DEF CriuRestores, CriuRestoreFails
    <2>3. /\ plan /\ dest.image = NoImage /\ dest.dir = dest.copy.ws
          /\ verify_bundle(dest.copy)
      BY <2>2 DEF Landed, plan
    <2>4. Features \subseteq dest.host.cpu BY <2>3 DEF plan, compare_hosts, SourceHost
    <2>5. PICK k \in Commands : Published(k) /\ dest.copy = bundle[k] BY <2>3 DEF Landed
    <2>6. bundle[k].ws \in Nat BY DEF Copying, Whole
    <2> QED BY <1>a, <2>1, <2>3, <2>4, <2>5, <2>6 DEF Landed, Lands
  <1>8. ASSUME NEW k \in Commands, Starts(k) \/ Busy(k) PROVE UNCHANGED dest
    BY <1>8 DEF Starts, Busy, Step, CaptureStart, ResumeStart, DumpSucceeds, DumpFails,
       CheckRoot, CollectTree, Publish, PublishFails, Recover, VerifyTree, SignalNext, Resumed,
       Interrupted
  <1> QED BY <1>1, <1>2, <1>3, <1>4, <1>5, <1>6, <1>7, <1>8, Kinds DEF Elsewhere, vars

(* Processes that were restored find the workspace published with them, on  *)
(* a host with the CPU they were using (restore): a damaged copy, a         *)
(* directory that appears, a CRIU that fails late are no exception.         *)
THEOREM RestoredWhole == Spec => []RestoredHasItsFiles
  <1>1. Init => Landed
    <2> SUFFICES ASSUME Init PROVE Landed OBVIOUS
    <2>1. /\ dest.copy = NoBundle /\ dest.image = NoImage /\ dest.pc = "waiting"
          /\ dest = [copy |-> dest.copy, host |-> dest.host, dir |-> dest.dir,
                     image |-> dest.image, pc |-> dest.pc]
      BY DEF Init
    <2> QED BY <2>1 DEF Landed, verify_bundle
  <1>2. CaptureInv /\ Landed /\ [Next]_vars => Landed' BY LandedStep DEF CaptureInv
  <1>3. CaptureInv /\ Landed => RestoredHasItsFiles
    BY DEF CaptureInv, Copying, Fresh, Landed, RestoredHasItsFiles
  <1> QED BY <1>1, <1>2, <1>3, CaptureAlways, PTL DEF Spec

-----------------------------------------------------------------------------
(* A source that is said to be resumed.                                     *)

StillStopped(id) == Exists(id) /\ process_is_stopped(id.pid)

(* What is no more on the list of a resume is not stopped.                  *)
Waking ==
    \A k \in Commands \ crossed : cmd[k].pc = "signal" =>
        \A id \in ToSet(cmd[k].tree) : StillStopped(id) => id \in ToSet(cmd[k].left)

(* A list that is reversed has what it had, and only its head is taken off. *)
LEMMA ListsKeep ==
    ASSUME NEW S, NEW s \in Seq(S), NEW x \in ToSet(s)
    PROVE  /\ x \in S /\ x \in ToSet(Reverse(s))
           /\ s # <<>> /\ (x = Head(s) \/ x \in ToSet(Tail(s)))
  <1>1. PICK i \in 1..Len(s) : s[i] = x BY DEF ToSet
  <1>2. Len(s) \in Nat /\ s # <<>> BY <1>1
  <1>3. x \in S BY <1>1
  <1>4. x \in ToSet(Reverse(s))
    <2> DEFINE j == Len(s) - i + 1
    <2>1. j \in 1..Len(s) /\ Len(s) - j + 1 = i BY <1>1, <1>2
    <2> HIDE DEF j
    <2>2. Reverse(s)[j] = x /\ DOMAIN Reverse(s) = 1..Len(s) BY <1>1, <2>1 DEF Reverse
    <2> QED BY <2>1, <2>2 DEF ToSet
  <1>5. CASE i = 1 BY <1>1, <1>2, <1>3, <1>4, <1>5
  <1>6. CASE i # 1
    <2> DEFINE j == i - 1
    <2>1. Len(Tail(s)) = Len(s) - 1 /\ j \in 1..(Len(s) - 1) /\ j + 1 = i
      BY <1>1, <1>2, <1>6
    <2> HIDE DEF j
    <2>2. Tail(s)[j] = x /\ j \in DOMAIN Tail(s) BY <1>1, <1>2, <2>1
    <2> QED BY <1>2, <1>3, <1>4, <2>2 DEF ToSet
  <1> QED BY <1>5, <1>6

(* A process recorded that is stopped after a step that stops none was      *)
(* stopped before.                                                          *)
LEMMA StoppedBefore ==
    ASSUME Table, Table', \A p \in Pids : SameOrLater(p), NEW id \in GenuineIds,
           StillStopped(id)',
           \A p \in Pids : \/ proc'[p] = proc[p]
                           \/ proc'[p].state # "stop"
                           \/ proc'[p].start_ticks # proc[p].start_ticks
    PROVE  StillStopped(id) /\ proc'[id.pid] = proc[id.pid]
  <1>1. id.pid \in Pids /\ Genuine(id) BY DEF GenuineIds, Genuine
  <1>2. /\ proc'[id.pid].state = "stop" /\ proc'[id.pid].start_ticks = id.start_ticks
        /\ id = [pid |-> id.pid, start_ticks |-> proc'[id.pid].start_ticks]
    BY DEF StillStopped, Exists, process_identity, process_is_stopped
  <1>3. proc'[id.pid].start_ticks = proc[id.pid].start_ticks
    <2>1. proc[id.pid].start_ticks \in Nat /\ proc'[id.pid].start_ticks \in Nat
      BY <1>1 DEF Table
    <2> QED BY <1>1, <1>2, <2>1 DEF Genuine, SameOrLater
  <1>4. proc'[id.pid] = proc[id.pid] BY <1>1, <1>2, <1>3
  <1> QED BY <1>2, <1>4 DEF StillStopped, Exists, process_identity, process_is_stopped

(* What goes on around the commands stops no process.                       *)
LEMMA AroundStopsNone ==
    ASSUME Table, Around
    PROVE  \A p \in Pids : \/ proc'[p] = proc[p]
                           \/ proc'[p].state # "stop"
                           \/ proc'[p].start_ticks # proc[p].start_ticks
  <1>1. proc = [p \in Pids |-> proc[p]]
        /\ \A p \in Pids : /\ proc[p] = [start_ticks |-> proc[p].start_ticks,
                                         state |-> proc[p].state, ours |-> proc[p].ours]
                           /\ proc[p].start_ticks \in Nat
    BY DEF Table
  <1>2. CASE Write BY <1>2 DEF Write
  <1>3. ASSUME NEW q \in Pids, NEW s, NEW o,
               proc' = [proc EXCEPT ![q] = [start_ticks |-> proc[q].start_ticks + 1,
                                           state |-> s, ours |-> o]]
        PROVE  \A p \in Pids : proc'[p] = proc[p] \/ proc'[p].start_ticks # proc[p].start_ticks
    <2>1. /\ proc'[q].start_ticks = proc[q].start_ticks + 1
          /\ \A p \in Pids \ {q} : proc'[p] = proc[p]
      BY <1>1, <1>3
    <2> QED BY <1>1, <2>1
  <1>4. ASSUME NEW q \in Pids, Fork(q) \/ Reuse(q)
        PROVE  \A p \in Pids : proc'[p] = proc[p] \/ proc'[p].start_ticks # proc[p].start_ticks
    <2>1. PICK s, o : proc' = [proc EXCEPT ![q] = [start_ticks |-> proc[q].start_ticks + 1,
                                                  state |-> s, ours |-> o]]
      BY <1>4 DEF Fork, Reuse
    <2> QED BY <1>3, <2>1
  <1>5. ASSUME NEW q \in Pids, Reap(q) \/ Kill(q) \/ OutsideContinue(q)
        PROVE  \A p \in Pids : proc'[p] = proc[p] \/ proc'[p].state # "stop"
    <2>1. PICK s \in {"none", "dead", "run"} : proc' = [proc EXCEPT ![q].state = s]
      BY <1>5 DEF Reap, Kill, OutsideContinue, Wakes, Continued
    <2>2. proc'[q].state = s /\ \A p \in Pids \ {q} : proc'[p] = proc[p] BY <1>1, <2>1
    <2> QED BY <2>1, <2>2
  <1> QED BY <1>2, <1>4, <1>5 DEF Around

(* What a step of a command leaves stopped was so before, unless it froze   *)
(* processes and crossed every command that was waking its own.             *)
LEMMA StepStopsNone ==
    ASSUME Table, Held, NEW j \in Commands, Busy(j)
    PROVE  \/ At({"signal"}) \subseteq crossed'
           \/ \A p \in Pids : proc'[p] = proc[p] \/ proc'[p].state # "stop"
  <1>1. CASE UNCHANGED proc BY <1>1
  <1>2. ASSUME NEW P \in SUBSET Pids, Freezes(P), proc' # proc
        PROVE  At({"signal"}) \subseteq crossed'
    BY <1>2 DEF Freezes, At
  <1>3. ASSUME NEW q \in Pids, Wakes(q), process_is_stopped(q)
        PROVE  \A p \in Pids : proc'[p] = proc[p] \/ proc'[p].state # "stop"
    <2>1. proc' = [proc EXCEPT ![q].state = "run"] BY <1>3 DEF Wakes, Continued
    <2>2. proc = [p \in Pids |-> proc[p]]
          /\ \A p \in Pids : proc[p] = [start_ticks |-> proc[p].start_ticks,
                                        state |-> proc[p].state, ours |-> proc[p].ours]
      BY DEF Table
    <2>3. proc'[q].state = "run" /\ \A p \in Pids \ {q} : proc'[p] = proc[p] BY <2>1, <2>2
    <2> QED BY <2>3
  <1>4. ASSUME NEW q \in Pids, Wakes(q), ~process_is_stopped(q) PROVE UNCHANGED proc
    BY <1>4 DEF Wakes, Continued
  <1> QED BY <1>1, <1>2, <1>3, <1>4, BusyKinds

(* Every step keeps it.                                                     *)
LEMMA WakingStep ==
    ASSUME Table, Held, Entries, Waking, [Next]_vars
    PROVE  Waking'
  <1>0. Table' /\ Held' /\ \A p \in Pids : SameOrLater(p) BY TableStep, HeldStep
  <1>a. crossed \subseteq crossed' BY EntriesStep
  <1>1. ASSUME NEW k \in Commands, Starts(k) PROVE Waking'
    <2>1. /\ \A j \in Commands \ {k} : cmd'[j] = cmd[j]
          /\ cmd'[k].pc \in {"dump", "verify"} /\ UNCHANGED proc
      BY <1>1, Started
    <2> QED BY <1>a, <2>1 DEF Waking, StillStopped, Exists, process_identity, process_is_stopped
  <1>2. ASSUME NEW k \in Commands, Busy(k) PROVE Waking'
    <2>1. Follows(k) /\ Running(k) BY <1>2, Followed
    <2>2. ASSUME NEW j \in Commands \ {k}, j \notin crossed', cmd'[j].pc = "signal",
                 NEW id \in ToSet(cmd'[j].tree), StillStopped(id)'
          PROVE  id \in ToSet(cmd'[j].left)
      <3>1. cmd'[j] = cmd[j] /\ j \notin crossed BY <1>a, <2>1, <2>2 DEF Follows
      <3>2. j \in At({"signal"}) BY <2>2, <3>1 DEF At
      <3>3. \A p \in Pids : proc'[p] = proc[p] \/ proc'[p].state # "stop"
        BY <1>2, <2>2, <3>2, StepStopsNone
      <3>4. id \in GenuineIds
        <4>1. cmd[j].tree \in Seq(GenuineIds) BY DEF Held, Holds
        <4> QED BY <2>2, <3>1, <4>1, ListsKeep
      <3>5. StillStopped(id) BY <1>0, <2>2, <3>3, <3>4, StoppedBefore
      <3> QED BY <2>2, <3>1, <3>5 DEF Waking
    <2>3. ASSUME \/ cmd'[k].pc # "signal"
                 \/ k \in crossed'
                 \/ \A id \in ToSet(cmd'[k].tree) : StillStopped(id)' => id \in ToSet(cmd'[k].left)
          PROVE  Waking'
      BY <2>2, <2>3 DEF Waking
    <2>4. cmd[k].tree \in Seq(GenuineIds) /\ cmd[k].left \in Seq(GenuineIds)
      BY DEF Held, Holds
    <2>5. CASE VerifyTree(k)
      <3>1. UNCHANGED proc BY <2>5 DEF VerifyTree
      <3>2. (\E words : Ends(k, words)) \/ SetsLeft(k, "signal", Reverse(cmd[k].tree))
        BY <2>5 DEF VerifyTree, SetsLeft, ResumeOrder
      <3>3. \/ cmd'[k].pc # "signal"
            \/ cmd'[k].left = Reverse(cmd[k].tree) /\ cmd'[k].tree = cmd[k].tree
        BY <3>2, Ended, WithLeft
      <3>4. \A id \in ToSet(cmd[k].tree) : id \in ToSet(Reverse(cmd[k].tree))
        BY <2>4, ListsKeep
      <3> QED BY <2>3, <3>3, <3>4
    <2>6. CASE SignalNext(k) /\ cmd'[k].pc = "signal" /\ k \notin crossed'
      <3>1. PICK id \in GenuineIds : id = Head(cmd[k].left)
        BY <2>4, <2>6, HeadTailProperties DEF SignalNext
      <3>2. ~Ends(k, "may be frozen") BY <2>6, Ended
      <3>3. /\ cmd[k].pc = "signal" /\ proc' = Continued(id.pid)
            /\ Drops(k, Tail(cmd[k].left)) /\ k \notin crossed
        BY <1>a, <2>6, <3>1, <3>2 DEF SignalNext, Drops, Wakes
      <3>4. cmd'[k].left = Tail(cmd[k].left) /\ cmd'[k].tree = cmd[k].tree
        BY <3>3, WithLeft
      <3>5. id.pid \in Pids BY DEF GenuineIds, Genuine
      <3>6. /\ \A p \in Pids : proc'[p] = proc[p] \/ proc'[p].state # "stop"
            /\ proc'[id.pid].state # "stop"
        <4>1. CASE proc[id.pid].state = "stop"
          <5>1. proc' = [proc EXCEPT ![id.pid].state = "run"]
            BY <3>3, <4>1 DEF Continued, process_is_stopped
          <5>2. proc = [p \in Pids |-> proc[p]]
                /\ \A p \in Pids : proc[p] = [start_ticks |-> proc[p].start_ticks,
                                              state |-> proc[p].state, ours |-> proc[p].ours]
            BY DEF Table
          <5>3. /\ proc'[id.pid].state = "run"
                /\ \A p \in Pids \ {id.pid} : proc'[p] = proc[p]
            BY <3>5, <5>1, <5>2
          <5> QED BY <5>3
        <4>2. CASE proc[id.pid].state # "stop"
          BY <3>3, <4>2 DEF Continued, process_is_stopped
        <4> QED BY <4>1, <4>2
      <3>7. ASSUME NEW one \in ToSet(cmd[k].tree), StillStopped(one)'
            PROVE  one \in ToSet(Tail(cmd[k].left))
        <4>1. one \in GenuineIds BY <2>4, ListsKeep
        <4>2. StillStopped(one) BY <1>0, <3>6, <3>7, <4>1, StoppedBefore
        <4>3. one \in ToSet(cmd[k].left) BY <3>3, <4>2 DEF Waking
        <4>4. one # id BY <3>6, <3>7 DEF StillStopped, process_is_stopped
        <4> QED BY <2>4, <3>1, <4>3, <4>4, ListsKeep
      <3> QED BY <2>3, <3>4, <3>7
    <2>7. CASE ~VerifyTree(k) /\ ~SignalNext(k)
      <3>1. CASE DumpSucceeds(k)
        <4>1. \E image : SetsImage(k, "dumped", image) BY <3>1 DEF DumpSucceeds, SetsImage
        <4> QED BY <2>3, <4>1, WithImage
      <3>2. CASE ~DumpSucceeds(k)
        <4>1. \/ \E words : Ends(k, words)
              \/ \E to \in {"recover", "collect", "verify"} : Goes(k, to)
              \/ \E to \in {"copy", "verify"} : \E tree : SetsTree(k, to, tree)
          BY <1>2, <2>7, <3>2 DEF Busy, Step, DumpFails, CheckRoot, CollectTree, Publish,
             PublishFails, Recover, Resumed, Interrupted, SetsTree
        <4>2. cmd'[k].pc # "signal" BY <4>1, Ended, Gone, WithTree
        <4> QED BY <2>3, <4>2
      <3> QED BY <3>1, <3>2
    <2>8. CASE cmd'[k].pc # "signal" \/ k \in crossed' BY <2>3, <2>8
    <2> QED BY <2>5, <2>6, <2>7, <2>8
  <1>3. CASE Around /\ UNCHANGED <<cmd, bundle, dest>>
    <2>1. ASSUME NEW k \in Commands, NEW id \in ToSet(cmd[k].tree), StillStopped(id)'
          PROVE  StillStopped(id)
      <3>1. id \in GenuineIds
        <4>1. cmd[k].tree \in Seq(GenuineIds) BY DEF Held, Holds
        <4> QED BY <4>1, ListsKeep
      <3> QED BY <1>0, <1>3, <2>1, <3>1, AroundStopsNone, StoppedBefore
    <2> QED BY <1>3, <1>a, <2>1 DEF Waking
  <1>4. CASE UNCHANGED <<proc, cmd>>
    BY <1>4, <1>a DEF Waking, StillStopped, Exists, process_identity, process_is_stopped
  <1> QED BY <1>1, <1>2, <1>3, <1>4, Kinds DEF vars

(* A command that says it has resumed the source has left none of the       *)
(* processes it recorded stopped (resume_verified_tree), unless another     *)
(* command froze them again while it did.                                   *)
THEOREM ResumedIsResumed == Spec => SaysResumed
  <1> DEFINE Claim == \A k \in Commands \ crossed :
                cmd'[k].said = "resumed" /\ cmd[k].said # "resumed" =>
                    \A id \in ToSet(cmd[k].tree) : ~(Exists(id) /\ process_is_stopped(id.pid))
  <1>1. Init => Waking
    <2> SUFFICES ASSUME Init PROVE Waking OBVIOUS
    <2>1. \A k \in Commands : cmd[k].pc = "waiting" BY DEF Init, Waiting
    <2> QED BY <2>1 DEF Waking
  <1>2. CaptureInv /\ Waking /\ [Next]_vars => Waking' BY WakingStep DEF CaptureInv
  <1>3. CaptureInv /\ Waking /\ [Next]_vars => Claim
    <2> SUFFICES ASSUME CaptureInv, Waking, [Next]_vars, NEW k \in Commands \ crossed,
                        cmd'[k].said = "resumed", cmd[k].said # "resumed"
                 PROVE  \A id \in ToSet(cmd[k].tree) : ~StillStopped(id)
      BY DEF StillStopped
    <2>1. PICK j \in Commands : Starts(j) \/ Busy(j) BY Kinds DEF vars
    <2>2. Entries BY DEF CaptureInv
    <2>3. j = k /\ ~Starts(k) BY <2>1, <2>2, Started, Followed DEF Follows
    <2>4. CASE \E to : Goes(k, to) BY <2>2, <2>4, Gone
    <2>5. CASE \E to, image : SetsImage(k, to, image) BY <2>2, <2>5, WithImage
    <2>6. CASE \E to, tree : SetsTree(k, to, tree) BY <2>2, <2>6, WithTree
    <2>7. CASE \E left : Drops(k, left) \/ \E to : SetsLeft(k, to, left)
      <3>1. PICK left : Drops(k, left) \/ \E to : SetsLeft(k, to, left) BY <2>7
      <3>2. ASSUME Drops(k, left) PROVE cmd'[k].said = cmd[k].said
        BY <2>2, <3>2, WithLeft
      <3>3. ASSUME NEW to, SetsLeft(k, to, left) PROVE cmd'[k].said = cmd[k].said
        BY <2>2, <3>3, WithLeft
      <3> QED BY <3>1, <3>2, <3>3
    <2>8. CASE \E words \in Words \ {"resumed"} : Ends(k, words) BY <2>2, <2>8, Ended
    <2>9. CASE Resumed(k)
      <3>1. cmd[k].pc = "signal" /\ ToSet(cmd[k].left) = {} BY <2>9 DEF Resumed, ToSet
      <3> QED BY <3>1 DEF CaptureInv, Waking
    <2>10. CASE DumpSucceeds(k)
      <3>1. \E image : SetsImage(k, "dumped", image) BY <2>10 DEF DumpSucceeds, SetsImage
      <3> QED BY <2>5, <3>1
    <2>11. CASE CollectTree(k) \/ Recover(k)
      <3>1. \/ \E to : Goes(k, to)
            \/ \E words \in Words \ {"resumed"} : Ends(k, words)
            \/ \E to, tree : SetsTree(k, to, tree)
        BY <2>11 DEF CollectTree, Recover, SetsTree, Words
      <3> QED BY <2>4, <2>6, <2>8, <3>1
    <2>12. CASE VerifyTree(k) \/ SignalNext(k)
      <3>1. \/ \E words \in Words \ {"resumed"} : Ends(k, words)
            \/ \E left : Drops(k, left) \/ SetsLeft(k, "signal", left)
        BY <2>12 DEF VerifyTree, SignalNext, SetsLeft, Drops, Words
      <3> QED BY <2>7, <2>8, <3>1
    <2>13. CASE DumpFails(k) \/ CheckRoot(k) \/ Publish(k) \/ PublishFails(k) \/ Interrupted(k)
      <3>1. (\E to : Goes(k, to)) \/ \E words \in Words \ {"resumed"} : Ends(k, words)
        BY <2>13 DEF DumpFails, CheckRoot, Publish, PublishFails, Interrupted, Words
      <3> QED BY <2>4, <2>8, <3>1
    <2> QED BY <2>1, <2>3, <2>9, <2>10, <2>11, <2>12, <2>13 DEF Busy, Step
  <1>4. CaptureInv /\ Waking /\ [Next]_vars => Waking' /\ [Claim]_vars BY <1>2, <1>3
  <1> QED BY <1>1, <1>4, CaptureAlways, PTL DEF Spec, SaysResumed
=============================================================================
