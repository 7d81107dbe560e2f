--------------------------- MODULE TransferProofs ---------------------------
(* What is proved of Transfer for every plan, any sizes, any number of      *)
(* sessions that share the files of the offer, and every bound, of every    *)
(* object that no session replaced between another's hash and rename:       *)
(*   - a step puts the object's true bytes into the store, or takes a wrong *)
(*     object out, or leaves it alone (Kept): what lies under the path at   *)
(*     the rename is what was hashed, or nothing (the last part of Course); *)
(*   - an acknowledged offer is in the store.  A session that has answered  *)
(*     a plan finds no wrong object in the store (Clean), so commit_file    *)
(*     cannot take one for the object it moves; what a session has moved    *)
(*     stays; and the ack is written down by a session that has moved all   *)
(*     it requires (Course).                                                *)
EXTENDS Transfer, TLAPS

Tables ==
  /\ cas = [o \in Objects |-> cas[o]]
  /\ pc = [s \in Sessions |-> pc[s]]
  /\ wanted = [s \in Sessions |-> wanted[s]]
  /\ completed = [s \in Sessions |-> completed[s]]
  /\ hashed = [s \in Sessions |-> hashed[s]]
  /\ staged = [o \in Objects |-> staged[o]]

Clean == \A o \in Objects \ swapped : cas[o] \in {NoFile, True(o)}

Course ==
  /\ \A s \in Sessions : pc[s] \notin {"closed", "planned"} => Clean
  /\ \A s \in Sessions : pc[s] = "saving" =>
        /\ wanted[s] = Required /\ completed[s] \subseteq Required
        /\ \A o \in completed[s] \ swapped : cas[o] = True(o)
  /\ \A s \in Sessions : hashed[s] # {} =>
        /\ pc[s] = "saving" /\ hashed[s] \subseteq Required
        /\ \A o \in hashed[s] \ swapped : staged[o] \in {NoFile, True(o)}
  /\ \A s \in Sessions : pc[s] = "replying" => acked
  /\ settled => acked
  /\ acked => \A o \in Required \ swapped : cas[o] = True(o)

\* What a step does to the store, and to the staged files that are hashed.
Kept ==
  /\ swapped \subseteq swapped'
  /\ \A o \in Objects \ swapped' : \/ cas'[o] = True(o)
                                   \/ cas'[o] = cas[o]
                                   \/ cas'[o] = NoFile /\ cas[o] # True(o)
Staid ==
  \A r \in Sessions : \A o \in hashed[r] \ swapped' :
    staged'[o] \in {staged[o], NoFile, True(o)}

-----------------------------------------------------------------------------
(* A file with an object's true bytes is moved to the store as it is, or    *)
(* the store keeps the file it has; an object swapped is nobody's concern.  *)
LEMMA SaveKept ==
  ASSUME Tables, NEW s \in Sessions, NEW o \in Objects,
         o \in swapped \/ staged[o] = True(o), UNCHANGED swapped,
         cas' = [cas EXCEPT ![o] = Moved(staged[o], cas[o])]
  PROVE  /\ Kept /\ cas' = [q \in Objects |-> cas'[q]]
         /\ Clean => o \in swapped \/ cas'[o] = True(o)
  <1> DEFINE new == Moved(staged[o], cas[o])
  <1>1. o \notin swapped => new \in {True(o), cas[o]} BY DEF Moved
  <1>2. o \notin swapped /\ Clean => new = True(o) BY DEF Moved, Clean
  <1>3. cas = [q \in Objects |-> cas[q]] BY DEF Tables
  <1>4. cas' = [q \in Objects |-> IF q = o THEN new ELSE cas[q]] BY <1>3
  <1> HIDE DEF new
  <1>5. cas'[o] = new /\ \A q \in Objects \ {o} : cas'[q] = cas[q] BY <1>4
  <1>6. cas' = [q \in Objects |-> cas'[q]] BY <1>4
  <1> QED BY <1>1, <1>2, <1>5, <1>6 DEF Kept

(* A session that ends or goes on leaves tables.                            *)
LEMMA EndedTables ==
  ASSUME Tables, NEW s \in Sessions, Ended(s), cas' = [o \in Objects |-> cas'[o]],
         staged' = [o \in Objects |-> staged'[o]]
  PROVE  Tables'
  BY DEF Tables, Ended

(* What a session has in the store stays there.                             *)
LEMMA KeptClean ==
  ASSUME Kept
  PROVE  /\ Clean => Clean'
         /\ \A o \in Objects \ swapped' : cas[o] = True(o) => cas'[o] = True(o)
  BY DEF Kept, Clean, True

(* A step of one session carries Course over if what it leaves it is right: *)
(* the others rest on true objects of the store, and keep them.             *)
LEMMA SessionCourse ==
  ASSUME Course, Kept, Staid, NEW s \in Sessions,
         \A r \in Sessions \ {s} : /\ pc'[r] = pc[r] /\ wanted'[r] = wanted[r]
                                   /\ completed'[r] = completed[r]
                                   /\ hashed'[r] = hashed[r],
         pc'[s] \notin {"closed", "planned"} => Clean',
         pc'[s] = "saving" =>
           /\ wanted'[s] = Required /\ completed'[s] \subseteq Required
           /\ \A o \in completed'[s] \ swapped' : cas'[o] = True(o),
         hashed'[s] # {} =>
           /\ pc'[s] = "saving" /\ hashed'[s] \subseteq Required
           /\ \A o \in hashed'[s] \ swapped' : staged'[o] \in {NoFile, True(o)},
         pc'[s] = "replying" => acked',
         settled' => acked', acked => acked',
         acked' => \A o \in Required \ swapped' : cas'[o] = True(o)
  PROVE  Course'
  <1>1. Required \subseteq Objects /\ Required' = Required BY DEF Required, Skips
  <1>2. \A o \in Objects : True(o)' = True(o) BY DEF True
  <1>3. \A r \in Sessions : pc'[r] \notin {"closed", "planned"} => Clean'
    <2> TAKE r \in Sessions
    <2>1. CASE r = s BY <2>1
    <2>2. CASE r # s
      <3>1. pc'[r] = pc[r] BY <2>2
      <3> QED BY <3>1, KeptClean DEF Course
    <2> QED BY <2>1, <2>2
  <1>4. \A r \in Sessions : pc'[r] = "saving" =>
           /\ wanted'[r] = Required /\ completed'[r] \subseteq Required
           /\ \A o \in completed'[r] \ swapped' : cas'[o] = True(o)
    <2> TAKE r \in Sessions
    <2>1. CASE r = s BY <2>1
    <2>2. CASE r # s
      <3>1. pc'[r] = pc[r] /\ wanted'[r] = wanted[r] /\ completed'[r] = completed[r]
        BY <2>2
      <3>2. swapped \subseteq swapped' BY DEF Kept
      <3> QED BY <3>1, <3>2, <1>1, KeptClean DEF Course
    <2> QED BY <2>1, <2>2
  <1>5. \A r \in Sessions : hashed'[r] # {} =>
           /\ pc'[r] = "saving" /\ hashed'[r] \subseteq Required
           /\ \A o \in hashed'[r] \ swapped' : staged'[o] \in {NoFile, True(o)}
    <2> TAKE r \in Sessions
    <2>1. CASE r = s BY <2>1
    <2>2. CASE r # s
      <3>1. pc'[r] = pc[r] /\ hashed'[r] = hashed[r] BY <2>2
      <3>2. swapped \subseteq swapped' BY DEF Kept
      <3> QED BY <3>1, <3>2 DEF Course, Staid
    <2> QED BY <2>1, <2>2
  <1>6. \A r \in Sessions : pc'[r] = "replying" => acked' BY DEF Course
  <1> QED BY <1>1, <1>2, <1>3, <1>4, <1>5, <1>6 DEF Course

(* What was written down stays true.                                        *)
LEMMA AckedKept ==
  ASSUME Course, Kept, UNCHANGED acked
  PROVE  acked' => \A o \in Required \ swapped' : cas'[o] = True(o)
  <1>1. Required \subseteq Objects /\ swapped \subseteq swapped' BY DEF Required, Kept
  <1> QED BY <1>1, KeptClean DEF Course

(* A session that ends, whatever ended it.                                  *)
LEMMA EndedCourse ==
  ASSUME Tables, Course, Kept, Staid, NEW s \in Sessions, Ended(s),
         UNCHANGED acked, settled' => settled \/ pc[s] = "replying"
  PROVE  Course'
  <1>1. pc'[s] = "closed" /\ hashed'[s] = {} /\ \A r \in Sessions \ {s} :
          pc'[r] = pc[r] /\ wanted'[r] = wanted[r] /\ completed'[r] = completed[r]
          /\ hashed'[r] = hashed[r]
    BY DEF Tables, Ended
  <1>2. settled' => acked' BY DEF Course
  <1> QED BY <1>1, <1>2, AckedKept, SessionCourse

(* A session that fails: the store is as it was.                            *)
LEMMA FailedStep ==
  ASSUME Tables, Course, NEW s \in Sessions, Failed(s)
  PROVE  Tables' /\ Kept /\ Course'
  <1>1. /\ cas' = cas /\ Ended(s) /\ staged' = NoFiles
        /\ UNCHANGED <<acked, settled, swapped>>
    BY DEF Failed, history
  <1>2. Kept BY <1>1 DEF Kept
  <1>3. Staid
    <2> SUFFICES ASSUME NEW r \in Sessions, NEW o \in hashed[r] \ swapped'
                 PROVE  staged'[o] = NoFile
      BY DEF Staid
    <2>1. o \in Objects BY DEF Course, Required
    <2> QED BY <1>1, <2>1 DEF NoFiles
  <1>4. Tables' BY <1>1, EndedTables DEF Tables, NoFiles
  <1> QED BY <1>1, <1>2, <1>3, <1>4, EndedCourse

(* A session that goes on to a later phase, the store as it was.            *)
LEMMA OnwardStep ==
  ASSUME Tables, Course, Staid, NEW s \in Sessions, NEW q, NEW w, NEW c,
         pc' = [pc EXCEPT ![s] = q],
         wanted' = [wanted EXCEPT ![s] = w], completed' = [completed EXCEPT ![s] = c],
         UNCHANGED <<cas, acked, settled, hashed>>,
         swapped \subseteq swapped', staged' = [o \in Objects |-> staged'[o]],
         pc[s] # "saving",
         pc[s] \in {"closed", "planned"} => q = "planned",
         q = "saving" => w = Required /\ c = {}, q # "replying"
  PROVE  Tables' /\ Kept /\ Course'
  <1>1. Kept BY DEF Kept
  <1>2. Tables' BY DEF Tables
  <1>3. pc'[s] = q /\ wanted'[s] = w /\ completed'[s] = c BY DEF Tables
  <1>4. \A r \in Sessions \ {s} :
          pc'[r] = pc[r] /\ wanted'[r] = wanted[r] /\ completed'[r] = completed[r]
          /\ hashed'[r] = hashed[r]
    BY DEF Tables
  <1>5. q \notin {"closed", "planned"} => Clean' BY KeptClean, <1>1 DEF Course
  <1>6. hashed'[s] = {} BY DEF Course
  <1>7. settled' => acked' BY DEF Course
  <1> QED BY <1>1, <1>2, <1>3, <1>4, <1>5, <1>6, <1>7, AckedKept, SessionCourse

(* A session that goes on and does not touch the staged files either.       *)
LEMMA QuietStep ==
  ASSUME Tables, Course, NEW s \in Sessions, NEW q, NEW w, NEW c,
         pc' = [pc EXCEPT ![s] = q],
         wanted' = [wanted EXCEPT ![s] = w], completed' = [completed EXCEPT ![s] = c],
         UNCHANGED <<cas, staged, swapped, acked, settled, hashed>>,
         pc[s] # "saving",
         pc[s] \in {"closed", "planned"} => q = "planned",
         q = "saving" => w = Required /\ c = {}, q # "replying"
  PROVE  Tables' /\ Kept /\ Course'
  <1>1. Staid BY DEF Staid
  <1>2. staged' = [o \in Objects |-> staged'[o]] BY DEF Tables
  <1> QED BY <1>1, <1>2, OnwardStep

-----------------------------------------------------------------------------
(* The store after a plan is answered holds no wrong object: the receiver   *)
(* hashes all it has (compute_have), and drops what does not match.         *)
LEMMA PlanStep ==
  ASSUME Tables, Course, NEW s \in Sessions, Plan(s)
  PROVE  Tables' /\ Kept /\ Course'
  <1>1. cas' = [o \in Objects |-> IF HasHere(o) THEN cas[o] ELSE NoFile] BY DEF Plan
  <1>2. pc[s] = "planned" /\ UNCHANGED <<acked, settled, staged, swapped>>
    BY DEF Plan, history
  <1>3. /\ cas' = [o \in Objects |-> cas'[o]]
        /\ staged' = [o \in Objects |-> staged'[o]]
    BY <1>1, <1>2 DEF Tables
  <1>4. Kept BY <1>1, <1>2 DEF Kept, HasHere
  <1>5. Clean' BY <1>1 DEF Clean, HasHere, True
  <1>6. Staid BY <1>2 DEF Staid
  <1>7. CASE Ended(s) BY <1>2, <1>3, <1>4, <1>6, <1>7, EndedTables, EndedCourse
  <1>8. CASE ~Ended(s)
    <2>1. PICK missing : /\ wanted' = [wanted EXCEPT ![s] = missing]
                         /\ pc' = [pc EXCEPT ![s] = "linking"]
                         /\ UNCHANGED <<completed, hashed>>
      BY <1>8 DEF Plan
    <2>2. Tables' BY <1>3, <2>1 DEF Tables
    <2>3. pc'[s] = "linking" /\ hashed'[s] = {} BY <1>2, <2>1 DEF Tables, Course
    <2>4. \A r \in Sessions \ {s} :
            pc'[r] = pc[r] /\ wanted'[r] = wanted[r] /\ completed'[r] = completed[r]
            /\ hashed'[r] = hashed[r]
      BY <2>1 DEF Tables
    <2>5. settled' => acked' BY <1>2 DEF Course
    <2> QED BY <1>2, <1>4, <1>5, <1>6, <2>2, <2>3, <2>4, <2>5, AckedKept, SessionCourse
  <1> QED BY <1>7, <1>8

(* The steps that leave the store alone.                                    *)
LEMMA DialStep ==
  ASSUME Tables, Course, NEW s \in Sessions, Dial(s)
  PROVE  Tables' /\ Kept /\ Course'
  <1>1. /\ pc[s] = "closed" /\ pc' = [pc EXCEPT ![s] = "planned"]
        /\ UNCHANGED <<cas, staged, swapped, wanted, completed, hashed, acked, settled>>
    BY DEF Dial, local, Open
  <1> DEFINE w == wanted[s] c == completed[s]
  <1>2. /\ wanted' = [wanted EXCEPT ![s] = w]
        /\ completed' = [completed EXCEPT ![s] = c]
    BY <1>1 DEF Tables
  <1> HIDE DEF w, c
  <1> QED BY <1>1, <1>2, QuietStep

(* Linking fills the staging store from the store: with true bytes.         *)
LEMMA LinkStep ==
  ASSUME Tables, Course, NEW s \in Sessions, Link(s)
  PROVE  Tables' /\ Kept /\ Course'
  <1>1. CASE Failed(s) BY <1>1, FailedStep
  <1>2. CASE ~Failed(s)
    <2> DEFINE linked == Objects \ (wanted[s] \cup Skips)
               w == wanted[s]  c == completed[s]
    <2>1. /\ pc[s] = "linking" /\ pc' = [pc EXCEPT ![s] = "reading"]
          /\ \A o \in linked : cas[o] # NoFile
          /\ staged' = [o \in Objects |-> IF o \in linked THEN cas[o] ELSE staged[o]]
          /\ UNCHANGED <<cas, wanted, completed, hashed, swapped, acked, settled>>
      BY <1>2 DEF Link, history
    <2>2. Clean BY <2>1 DEF Course
    <2>3. Staid
      <3> SUFFICES ASSUME NEW r \in Sessions, NEW o \in hashed[r] \ swapped'
                   PROVE  staged'[o] \in {staged[o], NoFile, True(o)}
        BY DEF Staid
      <3>1. o \in Objects \ swapped BY <2>1 DEF Course, Required
      <3> QED BY <2>1, <2>2, <3>1 DEF Clean
    <2>4. staged' = [o \in Objects |-> staged'[o]] BY <2>1
    <2>5. /\ wanted' = [wanted EXCEPT ![s] = w]
          /\ completed' = [completed EXCEPT ![s] = c]
      BY <2>1 DEF Tables
    <2> HIDE DEF w, c, linked
    <2> QED BY <2>1, <2>3, <2>4, <2>5, OnwardStep
  <1> QED BY <1>1, <1>2

(* Reading compares an offset.                                              *)
LEMMA ReadStep ==
  ASSUME Tables, Course, NEW s \in Sessions, Read(s)
  PROVE  Tables' /\ Kept /\ Course'
  <1>1. CASE Failed(s) BY <1>1, FailedStep
  <1>2. CASE ~Failed(s)
    <2>1. /\ pc[s] = "reading" /\ pc' = [pc EXCEPT ![s] = "writing"]
          /\ UNCHANGED <<cas, staged, swapped, wanted, completed, hashed, acked, settled>>
      BY <1>2 DEF Read, local, history
    <2> DEFINE w == wanted[s] c == completed[s]
    <2>2. /\ wanted' = [wanted EXCEPT ![s] = w]
          /\ completed' = [completed EXCEPT ![s] = c]
      BY <2>1 DEF Tables
    <2> HIDE DEF w, c
    <2> QED BY <2>1, <2>2, QuietStep
  <1> QED BY <1>1, <1>2

(* Writing is to the partial file, which may be dropped.                    *)
LEMMA WriteStep ==
  ASSUME Tables, Course, NEW s \in Sessions, Write(s)
  PROVE  Tables' /\ Kept /\ Course'
  <1>1. CASE Failed(s) BY <1>1, FailedStep
  <1>2. CASE ~Failed(s)
    <2>1. PICK q \in {"moving", "reading"} :
             /\ pc[s] = "writing" /\ pc' = [pc EXCEPT ![s] = q]
             /\ UNCHANGED <<cas, staged, swapped, wanted, completed, hashed, acked, settled>>
      BY <1>2 DEF Write, history
    <2> DEFINE w == wanted[s] c == completed[s]
    <2>2. /\ wanted' = [wanted EXCEPT ![s] = w]
          /\ completed' = [completed EXCEPT ![s] = c]
      BY <2>1 DEF Tables
    <2> HIDE DEF w, c
    <2> QED BY <2>1, <2>2, QuietStep
  <1> QED BY <1>1, <1>2

(* Moving is between the two directories of the offer.  A wrong file that   *)
(* takes the place of a hashed one is what "swapped" records.               *)
LEMMA MoveStep ==
  ASSUME Tables, Course, NEW s \in Sessions, Move(s)
  PROVE  Tables' /\ Kept /\ Course'
  <1>1. CASE Failed(s) BY <1>1, FailedStep
  <1>2. CASE ~Failed(s)
    <2> DEFINE o == Head(coming[s]).object
               done == completed[s] \cup {o}
               moved == Moved(partial[o], staged[o])
    <2>1. /\ pc[s] = "moving" /\ pc' = [pc EXCEPT ![s] = "reading"]
          /\ completed' = [completed EXCEPT ![s] = done]
          /\ UNCHANGED <<cas, wanted, hashed, acked, settled>>
      BY <1>2 DEF Move
    <2>2. staged' = [staged EXCEPT ![o] = moved] BY <1>2 DEF Move
    <2>3. swapped' = swapped \cup {q \in {o} : /\ staged'[q] \notin {staged[q], True(q)}
                                              /\ \E r \in Sessions : q \in hashed[r]}
      BY <1>2 DEF Move
    <2> HIDE DEF o, moved
    <2>4. staged' = [q \in Objects |-> IF q = o THEN moved ELSE staged[q]]
      BY <2>2 DEF Tables
    <2>5. Staid
      <3> SUFFICES ASSUME NEW r \in Sessions, NEW q \in hashed[r] \ swapped'
                   PROVE  staged'[q] \in {staged[q], NoFile, True(q)}
        BY DEF Staid
      <3>1. q \in Objects BY DEF Course, Required
      <3>2. CASE q = o BY <2>3, <3>2
      <3>3. CASE q # o BY <2>4, <3>1, <3>3
      <3> QED BY <3>2, <3>3
    <2>6. wanted' = [wanted EXCEPT ![s] = wanted[s]] BY <2>1 DEF Tables
    <2>7. swapped \subseteq swapped' BY <2>3
    <2>8. staged' = [q \in Objects |-> staged'[q]] BY <2>4
    <2> HIDE DEF done
    <2> QED BY <2>1, <2>5, <2>6, <2>7, <2>8, OnwardStep
  <1> QED BY <1>1, <1>2

(* After the check nothing has been moved to the store yet.                 *)
LEMMA CheckStep ==
  ASSUME Tables, Course, NEW s \in Sessions, Check(s)
  PROVE  Tables' /\ Kept /\ Course'
  <1>1. CASE Failed(s) BY <1>1, FailedStep
  <1>2. CASE ~Failed(s)
    <2>1. /\ pc[s] = "reading" /\ pc' = [pc EXCEPT ![s] = "saving"]
          /\ wanted' = [wanted EXCEPT ![s] = Required]
          /\ completed' = [completed EXCEPT ![s] = {}]
          /\ UNCHANGED <<cas, staged, swapped, hashed, acked, settled>>
      BY <1>2 DEF Check, history
    <2> QED BY <2>1, QuietStep
  <1> QED BY <1>1, <1>2

(* A session whose sender has gone.                                         *)
LEMMA HangupStep ==
  ASSUME Tables, Course, NEW s \in Sessions, Hangup(s)
  PROVE  Tables' /\ Kept /\ Course'
  <1>1. CASE Failed(s) BY <1>1, FailedStep
  <1>2. CASE ~Failed(s)
    <2>1. Ended(s) /\ UNCHANGED <<cas, staged, swapped, acked, settled>>
      BY <1>2 DEF Hangup, history
    <2>2. Kept /\ Staid BY <2>1 DEF Kept, Staid
    <2>3. Tables' BY <2>1, EndedTables DEF Tables
    <2> QED BY <2>1, <2>2, <2>3, EndedCourse
  <1> QED BY <1>1, <1>2

(* An object that has just been hashed has its true bytes under its path.   *)
LEMMA HashStep ==
  ASSUME Tables, Course, NEW s \in Sessions, Hash(s)
  PROVE  Tables' /\ Kept /\ Course'
  <1>1. CASE Failed(s) BY <1>1, FailedStep
  <1>2. CASE ~Failed(s)
    <2>1. PICK o \in wanted[s] \ completed[s] :
             /\ Verified(o) /\ hashed' = [hashed EXCEPT ![s] = {o}]
             /\ UNCHANGED <<cas, staged, pc, wanted, completed, acked, settled, swapped>>
      BY <1>2 DEF Hash, history
    <2>2. pc[s] = "saving" /\ wanted[s] = Required /\ Clean
      BY DEF Hash, Course
    <2>3. Kept /\ Staid BY <2>1 DEF Kept, Staid
    <2>4. Tables' BY <2>1 DEF Tables
    <2>5. hashed'[s] = {o} /\ \A r \in Sessions \ {s} : hashed'[r] = hashed[r]
      BY <2>1 DEF Tables
    <2>6. Clean' BY <2>2, <2>3, KeptClean
    <2>7. \A q \in completed'[s] \ swapped' : cas'[q] = True(q)
      BY <2>1, <2>2 DEF Course
    <2>8. staged'[o] = True(o) BY <2>1 DEF Verified
    <2>9. completed'[s] \subseteq Required BY <2>1, <2>2 DEF Course
    <2>10. settled' => acked' BY <2>1 DEF Course
    <2> QED BY <2>1, <2>2, <2>3, <2>4, <2>5, <2>6, <2>7, <2>8, <2>9, <2>10, AckedKept,
               SessionCourse
  <1> QED BY <1>1, <1>2

(* The last object moved, the session has all it requires in the store.     *)
LEMMA SaveStep ==
  ASSUME Tables, Course, NEW s \in Sessions, Save(s)
  PROVE  Tables' /\ Kept /\ Course'
  <1>1. CASE Failed(s) BY <1>1, FailedStep
  <1>2. CASE ~Failed(s)
    <2>1. PICK o \in hashed[s] :
             /\ staged[o] # NoFile /\ staged' = [staged EXCEPT ![o] = NoFile]
             /\ cas' = [cas EXCEPT ![o] = Moved(staged[o], cas[o])]
             /\ completed' = [completed EXCEPT ![s] = completed[s] \cup {o}]
             /\ hashed' = [hashed EXCEPT ![s] = {}]
             /\ UNCHANGED <<pc, wanted, acked, settled, swapped>>
      BY <1>2 DEF Save, history
    <2>2. /\ pc[s] = "saving" /\ wanted[s] = Required /\ Clean
          /\ completed[s] \subseteq Required /\ o \in Required
          /\ \A q \in completed[s] \ swapped : cas[q] = True(q)
          /\ o \in swapped \/ staged[o] = True(o)
      BY <2>1 DEF Course
    <2>3. Required \subseteq Objects BY DEF Required
    <2>4. /\ Kept /\ cas' = [q \in Objects |-> cas'[q]]
          /\ o \in swapped \/ cas'[o] = True(o)
      BY <2>1, <2>2, <2>3, SaveKept
    <2>5. Staid
      <3> SUFFICES ASSUME NEW r \in Sessions, NEW q \in hashed[r] \ swapped'
                   PROVE  staged'[q] \in {staged[q], NoFile}
        BY DEF Staid
      <3>1. q \in Objects BY DEF Course, Required
      <3> QED BY <2>1, <3>1 DEF Tables
    <2>6. Tables' BY <2>1, <2>4 DEF Tables
    <2>7. completed'[s] = completed[s] \cup {o} /\ hashed'[s] = {}
      BY <2>1 DEF Tables
    <2>8. \A q \in completed'[s] \ swapped' : cas'[q] = True(q)
      BY <2>1, <2>2, <2>3, <2>4, <2>7, KeptClean
    <2>9. \A r \in Sessions \ {s} :
            pc'[r] = pc[r] /\ wanted'[r] = wanted[r] /\ completed'[r] = completed[r]
            /\ hashed'[r] = hashed[r]
      BY <2>1 DEF Tables
    <2>10. Clean' BY <2>2, <2>4, KeptClean
    <2>11. settled' => acked' BY <2>1 DEF Course
    <2> QED BY <2>1, <2>2, <2>4, <2>5, <2>6, <2>7, <2>8, <2>9, <2>10, <2>11, AckedKept,
               SessionCourse
  <1> QED BY <1>1, <1>2

(* The ack is written down by a session that has moved all of them.         *)
LEMMA SettleStep ==
  ASSUME Tables, Course, NEW s \in Sessions, Settle(s)
  PROVE  Tables' /\ Kept /\ Course'
  <1>1. /\ pc[s] = "saving" /\ completed[s] = wanted[s] /\ hashed[s] = {} /\ acked' = TRUE
        /\ pc' = [pc EXCEPT ![s] = "replying"]
        /\ UNCHANGED <<cas, staged, swapped, wanted, completed, hashed, settled>>
    BY DEF Settle, local, history
  <1>2. Clean /\ \A o \in Required \ swapped : cas[o] = True(o) BY <1>1 DEF Course
  <1>3. Kept /\ Staid BY <1>1 DEF Kept, Staid
  <1>4. Tables' BY <1>1 DEF Tables
  <1>5. pc'[s] = "replying" /\ hashed'[s] = {} BY <1>1 DEF Tables
  <1>6. \A r \in Sessions \ {s} :
          pc'[r] = pc[r] /\ wanted'[r] = wanted[r] /\ completed'[r] = completed[r]
          /\ hashed'[r] = hashed[r]
    BY <1>1 DEF Tables
  <1>7. Clean' BY <1>2, <1>3, KeptClean
  <1>8. \A o \in Required \ swapped' : cas'[o] = True(o) BY <1>1, <1>2
  <1> QED BY <1>1, <1>3, <1>4, <1>5, <1>6, <1>7, <1>8, SessionCourse

(* The session that replies has written the ack down.                       *)
LEMMA ReplyStep ==
  ASSUME Tables, Course, NEW s \in Sessions, Reply(s)
  PROVE  Tables' /\ Kept /\ Course'
  <1>1. /\ Ended(s) /\ UNCHANGED <<cas, acked, swapped>> /\ pc[s] = "replying"
        /\ staged' = NoFiles /\ (settled' => settled \/ pc[s] = "replying")
    BY DEF Reply, history
  <1>2. Kept BY <1>1 DEF Kept
  <1>3. Staid
    <2> SUFFICES ASSUME NEW r \in Sessions, NEW o \in hashed[r] \ swapped'
                 PROVE  staged'[o] = NoFile
      BY DEF Staid
    <2>1. o \in Objects BY DEF Course, Required
    <2> QED BY <1>1, <2>1 DEF NoFiles
  <1>4. Tables' BY <1>1, EndedTables DEF Tables, NoFiles
  <1> QED BY <1>1, <1>2, <1>3, <1>4, EndedCourse

(* A crash closes every session and leaves what is stored and written down. *)
LEMMA CrashStep ==
  ASSUME Tables, Course, Crash
  PROVE  Tables' /\ Kept /\ Course'
  <1>1. /\ pc' = [s \in Sessions |-> "closed"] /\ wanted' = [s \in Sessions |-> {}]
        /\ completed' = [s \in Sessions |-> {}] /\ hashed' = [s \in Sessions |-> {}]
        /\ staged' = NoFiles
        /\ UNCHANGED <<cas, acked, settled, swapped>>
    BY DEF Crash, history
  <1>2. Kept BY <1>1 DEF Kept
  <1>3. Tables' BY <1>1 DEF Tables, NoFiles
  <1>4. \A s \in Sessions : pc'[s] = "closed" /\ hashed'[s] = {} BY <1>1
  <1>5. acked' => \A o \in Required \ swapped' : cas'[o] = True(o)
    BY <1>1, <1>2, AckedKept
  <1> QED BY <1>1, <1>2, <1>3, <1>4, <1>5 DEF Course, True

(* The sender giving up, and steps of nobody.                               *)
LEMMA SilentStep ==
  ASSUME Tables, Course,
         UNCHANGED <<cas, staged, swapped, pc, wanted, completed, hashed, acked, settled>>
  PROVE  Tables' /\ Kept /\ Course'
  BY DEF Tables, Course, Kept, Clean, True, Required, Skips

-----------------------------------------------------------------------------
(* The initial state.                                                       *)
LEMMA InitTables == Init => Tables /\ Course
  BY DEF Init, Tables, Course, NoFiles

(* Every step, by the actions.                                              *)
LEMMA NextStep == Tables /\ Course /\ [Next]_vars => Tables' /\ Kept /\ Course'
  <1> SUFFICES ASSUME Tables, Course, [Next]_vars PROVE Tables' /\ Kept /\ Course'
    OBVIOUS
  <1>1. ASSUME NEW s \in Sessions, Dial(s) PROVE Tables' /\ Kept /\ Course'
    BY <1>1, DialStep
  <1>2. ASSUME NEW s \in Sessions, Plan(s) PROVE Tables' /\ Kept /\ Course'
    BY <1>2, PlanStep
  <1>3. ASSUME NEW s \in Sessions, Link(s) \/ Read(s) \/ Write(s) \/ Move(s)
        PROVE  Tables' /\ Kept /\ Course'
    BY <1>3, LinkStep, ReadStep, WriteStep, MoveStep
  <1>4. ASSUME NEW s \in Sessions, Check(s) \/ Hash(s) \/ Save(s) \/ Settle(s)
        PROVE  Tables' /\ Kept /\ Course'
    BY <1>4, CheckStep, HashStep, SaveStep, SettleStep
  <1>5. ASSUME NEW s \in Sessions, Reply(s) \/ Hangup(s)
        PROVE  Tables' /\ Kept /\ Course'
    BY <1>5, ReplyStep, HangupStep
  <1>6. CASE GiveUp BY <1>6, SilentStep DEF GiveUp, local, history
  <1>7. CASE AckTimeout BY <1>7, SilentStep DEF AckTimeout, local, history
  <1>8. CASE Crash BY <1>8, CrashStep
  <1>9. CASE UNCHANGED vars BY <1>9, SilentStep DEF vars
  <1> QED BY <1>1, <1>2, <1>3, <1>4, <1>5, <1>6, <1>7, <1>8, <1>9 DEF Next

(* An offer whose ack was written down, or read by its sender, is in the    *)
(* receiver's store: every required object, verified (handle_plan's order:  *)
(* move, finalize_received_offer, send the ack), but one that another       *)
(* session replaced after commit_file had hashed it.                        *)
THEOREM AckedStored == Spec => []AckedIsStored
  <1>1. Init => Tables /\ Course BY InitTables
  <1>2. Tables /\ Course /\ [Next]_vars => (Tables /\ Course)' BY NextStep
  <1>3. Tables /\ Course => AckedIsStored BY DEF Course, AckedIsStored
  <1> QED BY <1>1, <1>2, <1>3, PTL DEF Spec

(* Only an object's true bytes enter the store under its digest, whatever   *)
(* several sessions did to the partial and staged files they share, with    *)
(* the same exception (commit_file hashes once more and then renames by     *)
(* path; commit_verified_file trusts a length).                             *)
THEOREM TrueBytesEnter == Spec => OnlyTrueBytesEnter
  <1> DEFINE Step == \A o \in Objects \ swapped' :
                       cas'[o] # cas[o] => cas'[o] \in {NoFile, True(o)}
  <1>1. Init => Tables /\ Course BY InitTables
  <1>2. Tables /\ Course /\ [Next]_vars => (Tables /\ Course)' /\ Step
    BY NextStep DEF Kept
  <1>3. Tables /\ Course /\ [Next]_vars => (Tables /\ Course)' /\ [Step]_vars BY <1>2
  <1> QED BY <1>1, <1>3, PTL DEF Spec, OnlyTrueBytesEnter
=============================================================================
