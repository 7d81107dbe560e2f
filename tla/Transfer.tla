------------------------------ MODULE Transfer ------------------------------
(***************************************************************************)
(* How the objects of one offer reach the receiver's store.                *)
(*                                                                         *)
(* The sender dials, offers, and streams what the receiver lacks, chunk by *)
(* chunk.  The receiver appends every chunk to a partial file, moves each  *)
(* finished object to a staging store, and, when the whole closure is      *)
(* there, moves it to the real store and acknowledges.  Partial files and  *)
(* staging belong to the offer, not to the session: the sender gives a     *)
(* session up after five seconds without an ack and dials again, while the *)
(* receiver may still be working on the first one's chunks.                *)
(*                                                                         *)
(* A file is the sequence of its chunks: chunk i of an object's true bytes *)
(* is i, a chunk the sender's disk returned wrong is 0.  Hashing a file is *)
(* comparing it with the true sequence.                                    *)
(***************************************************************************)
EXTENDS Integers, Sequences, FiniteSets, SequencesExt, Functions

CONSTANTS
  Order,       \* the digests of the plan, in its order
  Size,        \* Size[o]: its length in chunks
  Native,      \* those the manifest names as native
  Portable,    \* those its tree or thumbnail names
  SkipNative,  \* the receiver cannot use them, and both sides know the feature
  GuestSender, \* the sender is a guest
  Small,       \* objects of at most this size go in one stream
  Sessions,    \* sessions the receiver serves at a time
  MaxLosses,   \* bound: links lost, and acks the sender stopped waiting for
  MaxRot,      \* bound: wrong chunks the sender's disk returns
  MaxCrashes,  \* bound: crashes of the receiver
  NoSession, NoFile

Objects == ToSet(Order)

ASSUME TransferAssumption ==
  /\ IsInjective(Order)
  /\ Size \in [Objects -> Nat]
  /\ Native \cup Portable = Objects
  /\ SkipNative \in BOOLEAN /\ GuestSender \in BOOLEAN
  /\ Small \in Nat
  /\ MaxLosses \in Nat /\ MaxRot \in Nat /\ MaxCrashes \in Nat
  /\ NoSession \notin Sessions

VARIABLES
  cas,        \* the receiver's store
  partial,    \* net/partials/<offer>/<digest>
  staged,     \* net/partials/<offer>/staged
  pc,         \* pc[s]: where the receiver's session s is
  coming,     \* coming[s]: the chunks sent to it and not yet read
  wanted,     \* wanted[s]: the objects it has told the sender to stream
  view,       \* view[s]: what its hashers have seen
  completed,  \* completed[s]: the objects it has verified and staged
  hashed,     \* hashed[s]: the object commit_file has hashed and not yet renamed
  live,       \* the session the sender is in
  settled,    \* the sender has read the ack
  acked,      \* the receiver has written the ack down
  losses, rots, crashes,
  overlapped, \* history: two sessions were open at once
  swapped     \* history: objects whose staged file another session replaced by
              \* a wrong one after commit_file had hashed it

vars == <<cas, partial, staged, pc, coming, wanted, view, completed, live,
          hashed, settled, acked, losses, rots, crashes, overlapped, swapped>>
local == <<coming, wanted, view, completed, hashed>>
history == <<overlapped, swapped>>
faults == <<losses, rots, crashes>>

Garbled(o) == [i \in 1 .. Size[o] |-> 0]
True(o)   == [i \in 1 .. Size[o] |-> i]
Files     == [Objects -> {NoFile} \cup Seq(Nat)]
NoFiles   == [o \in Objects |-> NoFile]
Length(f) == IF f = NoFile THEN 0 ELSE Len(f)
Bytes(f)  == IF f = NoFile THEN <<>> ELSE f

\* effective_skip_native, and the objects a complete offer leaves behind.
Skips    == IF SkipNative /\ ~GuestSender THEN Native ELSE {}
Required == Objects \ (Skips \ Portable)

Open(s)   == pc[s] # "closed"
Chunks    == [object : Objects, offset : Nat, data : Seq(Nat)]

\* One type invariant: files are files or absent, sessions know their phase.
TypeOK ==
  /\ cas \in Files /\ partial \in Files /\ staged \in Files
  /\ pc \in [Sessions -> {"closed", "planned", "linking", "reading", "writing",
                          "moving", "saving", "replying"}]
  /\ coming \in [Sessions -> Seq(Chunks)]
  /\ wanted \in [Sessions -> SUBSET Objects]
  /\ view \in [Sessions -> [Objects -> Seq(Nat)]]
  /\ completed \in [Sessions -> SUBSET Objects]
  /\ hashed \in [Sessions -> SUBSET Objects] /\ swapped \subseteq Objects
  /\ live \in Sessions \cup {NoSession}
  /\ settled \in BOOLEAN /\ acked \in BOOLEAN /\ overlapped \in BOOLEAN
  /\ losses \in 0 .. MaxLosses /\ rots \in 0 .. MaxRot /\ crashes \in 0 .. MaxCrashes

Init ==
  /\ \E there, rotten \in SUBSET Objects :
       cas = [o \in Objects |-> IF o \notin there THEN NoFile
                               ELSE IF o \in rotten THEN Garbled(o) ELSE True(o)]
  /\ partial = NoFiles /\ staged = NoFiles
  /\ pc = [s \in Sessions |-> "closed"]
  /\ coming = [s \in Sessions |-> <<>>]
  /\ wanted = [s \in Sessions |-> {}]
  /\ view = [s \in Sessions |-> [o \in Objects |-> <<>>]]
  /\ completed = [s \in Sessions |-> {}] /\ hashed = [s \in Sessions |-> {}]
  /\ live = NoSession
  /\ settled = FALSE /\ acked = FALSE /\ overlapped = FALSE /\ swapped = {}
  /\ losses = 0 /\ rots = 0 /\ crashes = 0

----------------------------------------------------------------------------
(* The sender.                                                             *)

\* send_offer, after the handshake: offer and plan arrive together.
Dial(s) ==
  /\ ~settled /\ live = NoSession /\ ~Open(s)
  /\ live' = s
  /\ pc' = [pc EXCEPT ![s] = "planned"]
  /\ overlapped' = (overlapped \/ \E r \in Sessions : Open(r))
  /\ UNCHANGED <<cas, partial, staged, local, settled, acked, faults, swapped>>

\* stream_objects: the streams it opens for one object from an offset on.  A
\* whole small object is one stream, a large one goes chunk by chunk, and
\* nothing is left to send at the very end of a large one.
WholeStream(o) == <<[object |-> o, offset |-> 0, data |-> True(o)]>>
ChunkStreams(o, from) ==
  [i \in 1 .. Size[o] - from |->
     [object |-> o, offset |-> from + i - 1, data |-> <<from + i>>]]
StreamsOf(o, from) ==
  IF from = 0 /\ Size[o] <= Small THEN WholeStream(o) ELSE ChunkStreams(o, from)

\* A chunk the sender's disk got wrong: the sender notices after the object's
\* last chunk, and gives up there.
Rotten(streams, k) ==
  [i \in 1 .. Cardinality({j \in DOMAIN streams :
                             j <= k \/ streams[j].object = streams[k].object}) |->
     IF i = k THEN [streams[i] EXCEPT !.data = <<0>>] ELSE streams[i]]

\* The sender loses the link, or stops waiting while the receiver is at work.
GiveUp ==
  /\ live # NoSession
  /\ losses < MaxLosses /\ losses' = losses + 1
  /\ live' = NoSession
  /\ UNCHANGED <<cas, partial, staged, pc, local, settled, acked, rots, crashes,
                 history>>

\* await_ack times out when the receiver waits for streams nobody will open.
Stuck(s) == pc[s] = "reading" /\ coming[s] = <<>> /\ completed[s] # wanted[s]
AckTimeout ==
  /\ live # NoSession /\ Stuck(live)
  /\ live' = NoSession
  /\ UNCHANGED <<cas, partial, staged, pc, local, settled, acked, faults, history>>

----------------------------------------------------------------------------
(* The receiver: handle_plan.                                              *)

\* A session that ends drops its DirectoryCleanup, whoever else uses the
\* staging directory; the sender sees the connection close.
Ended(s) ==
  /\ pc' = [pc EXCEPT ![s] = "closed"]
  /\ coming' = [coming EXCEPT ![s] = <<>>]
  /\ wanted' = [wanted EXCEPT ![s] = {}]
  /\ completed' = [completed EXCEPT ![s] = {}] /\ hashed' = [hashed EXCEPT ![s] = {}]
  /\ view' = [view EXCEPT ![s] = [o \in Objects |-> <<>>]]
  /\ live' = IF live = s THEN NoSession ELSE live

Failed(s) ==
  /\ Ended(s)
  /\ staged' = NoFiles
  /\ UNCHANGED <<cas, settled, acked, faults, history>>

\* compute_have, answered at once: what is in the store need not come, what is
\* partly here comes from where the file ends.  BlobStore::has verifies.
Exists(o)  == cas[o] # NoFile
HasHere(o) == cas[o] = True(o)
Have == IF GuestSender THEN {} ELSE {o \in Objects : HasHere(o)} \cup Skips
ResumeAt(o) == IF GuestSender THEN 0 ELSE Length(partial[o])

Plan(s) ==
  /\ pc[s] = "planned" /\ live = s
  /\ cas' = [o \in Objects |-> IF HasHere(o) THEN cas[o] ELSE NoFile]
  /\ LET missing == Objects \ Have
         streams == FlattenSeq([i \in DOMAIN Order |->
                      IF Order[i] \in missing
                      THEN StreamsOf(Order[i], ResumeAt(Order[i])) ELSE <<>>])
     IN IF \E o \in missing : ResumeAt(o) > Size[o]
        THEN Ended(s) /\ UNCHANGED rots              \* invalid resume offset
        ELSE /\ wanted' = [wanted EXCEPT ![s] = missing]
             /\ pc' = [pc EXCEPT ![s] = "linking"]
             /\ \/ coming' = [coming EXCEPT ![s] = streams] /\ UNCHANGED rots
                \/ /\ rots < MaxRot /\ rots' = rots + 1
                   /\ \E k \in DOMAIN streams :
                        /\ Size[streams[k].object] > Small
                        /\ coming' = [coming EXCEPT ![s] = Rotten(streams, k)]
             /\ UNCHANGED <<view, completed, hashed, live>>
  /\ UNCHANGED <<partial, staged, settled, acked, losses, crashes, history>>

\* The objects already here are linked into the staging store, which fails if
\* another session has done so; the hashers start from the partial files.
Link(s) ==
  /\ pc[s] = "linking"
  /\ LET linked == Objects \ (wanted[s] \cup Skips) IN
     IF \E o \in linked : staged[o] # NoFile \/ cas[o] = NoFile
     THEN Failed(s)
     ELSE /\ staged' = [o \in Objects |-> IF o \in linked THEN cas[o] ELSE staged[o]]
          /\ view' = [view EXCEPT ![s] = [o \in Objects |-> Bytes(partial[o])]]
          /\ pc' = [pc EXCEPT ![s] = "reading"]
          /\ UNCHANGED <<cas, coming, wanted, completed, hashed, live, settled, acked,
                         faults, history>>
  /\ UNCHANGED partial

\* accept_uni_bounded and the checks up to the append: the chunk must start
\* where the file ends.
Read(s) ==
  /\ pc[s] = "reading" /\ coming[s] # <<>>
  /\ LET chunk == Head(coming[s]) IN
     IF chunk.offset # Length(partial[chunk.object])
     THEN Failed(s)
     ELSE /\ pc' = [pc EXCEPT ![s] = "writing"]
          /\ UNCHANGED <<cas, staged, local, live, settled, acked, faults, history>>
  /\ UNCHANGED partial

\* The connection is gone before the rest arrives.
Hangup(s) ==
  /\ pc[s] \in {"planned", "reading"} /\ live # s
  /\ IF pc[s] = "planned"
     THEN Ended(s) /\ UNCHANGED <<cas, staged, settled, acked, faults, history>>
     ELSE Failed(s)
  /\ UNCHANGED partial

\* append_partial, and the hash of what this session has seen of the object:
\* the file it read when it began and the chunks it wrote itself.
Write(s) ==
  /\ pc[s] = "writing"
  /\ LET chunk == Head(coming[s])
         o     == chunk.object
         file  == Bytes(partial[o]) \o chunk.data
         seen  == view[s][o] \o chunk.data
         last  == chunk.offset + Len(chunk.data) = Size[o]
     IN IF Len(file) > Size[o]
        THEN partial' = [partial EXCEPT ![o] = file] /\ Failed(s)
        ELSE IF last /\ seen # True(o)
        THEN partial' = [partial EXCEPT ![o] = NoFile] /\ Failed(s)
        ELSE /\ partial' = [partial EXCEPT ![o] = file]
             /\ view' = [view EXCEPT ![s][o] = seen]
             /\ pc' = [pc EXCEPT ![s] = IF last THEN "moving" ELSE "reading"]
             /\ coming' = IF last THEN coming
                          ELSE [coming EXCEPT ![s] = Tail(@)]
             /\ UNCHANGED <<cas, staged, wanted, completed, hashed, live, settled,
                            acked, faults, history>>

\* commit_verified_file, from the partial files to the staging store and from
\* there to the store: a file of the same length is taken for the same object.
Moved(file, dest) ==
  IF dest # NoFile /\ Len(dest) = Len(file) THEN dest ELSE file

Move(s) ==
  /\ pc[s] = "moving"
  /\ LET o == Head(coming[s]).object IN
     IF partial[o] = NoFile
     THEN Failed(s) /\ UNCHANGED partial
     ELSE /\ staged' = [staged EXCEPT ![o] = Moved(partial[o], staged[o])]
          /\ swapped' = swapped \cup
               {q \in {o} : /\ staged'[q] \notin {staged[q], True(q)}
                           /\ \E r \in Sessions : q \in hashed[r]}
          /\ partial' = [partial EXCEPT ![o] = NoFile]
          /\ completed' = [completed EXCEPT ![s] = @ \cup {o}]
          /\ coming' = [coming EXCEPT ![s] = Tail(@)]
          /\ pc' = [pc EXCEPT ![s] = "reading"]
          /\ UNCHANGED <<cas, wanted, view, hashed, live, settled, acked, faults,
                         overlapped>>

\* Nothing is missing: the closure is computed from the staging store and must
\* be the plan, every object of it verified.  From here on "completed" are the
\* objects moved to the store.
Present(o)  == staged[o] # NoFile
Verified(o) == staged[o] = True(o)

Check(s) ==
  /\ pc[s] = "reading" /\ completed[s] = wanted[s]
  /\ IF \E o \in Required : ~Verified(o)
     THEN Failed(s)
     ELSE /\ pc' = [pc EXCEPT ![s] = "saving"]
          /\ wanted' = [wanted EXCEPT ![s] = Required]
          /\ completed' = [completed EXCEPT ![s] = {}]
          /\ UNCHANGED <<cas, staged, coming, view, hashed, live, settled, acked,
                         faults, history>>
  /\ UNCHANGED partial

\* commit_file, which hashes an object once more on its way into the store ...
Hash(s) ==
  /\ pc[s] = "saving" /\ hashed[s] = {}
  /\ \E o \in wanted[s] \ completed[s] :
       IF ~Verified(o)
       THEN Failed(s)
       ELSE /\ hashed' = [hashed EXCEPT ![s] = {o}]
            /\ UNCHANGED <<cas, staged, pc, coming, wanted, view, completed, live,
                           settled, acked, faults, history>>
  /\ UNCHANGED partial

\* ... and then goes by its path: it renames what lies there by now.
Save(s) ==
  /\ pc[s] = "saving"
  /\ \E o \in hashed[s] :
       IF staged[o] = NoFile
       THEN Failed(s)
       ELSE /\ staged' = [staged EXCEPT ![o] = NoFile]
            /\ cas' = [cas EXCEPT ![o] = Moved(staged[o], cas[o])]
            /\ completed' = [completed EXCEPT ![s] = @ \cup {o}]
            /\ hashed' = [hashed EXCEPT ![s] = {}]
            /\ UNCHANGED <<pc, coming, wanted, view, live, settled, acked, faults,
                           history>>
  /\ UNCHANGED partial

\* finalize_received_offer: the manifest is committed and the ack written down.
Settle(s) ==
  /\ pc[s] = "saving" /\ hashed[s] = {} /\ completed[s] = wanted[s]
  /\ acked' = TRUE
  /\ pc' = [pc EXCEPT ![s] = "replying"]
  /\ UNCHANGED <<cas, partial, staged, local, live, settled, faults, history>>

\* The ack goes out, then the offer's directory is removed.  A sender that has
\* gone gets its ack from the pending files, on another day.
Reply(s) ==
  /\ pc[s] = "replying"
  /\ settled' = (settled \/ live = s)
  /\ partial' = IF live = s THEN NoFiles ELSE partial
  /\ Ended(s) /\ staged' = NoFiles
  /\ UNCHANGED <<cas, acked, faults, history>>

\* The daemon comes back and sweeps net/partials before it accepts a session.
Crash ==
  /\ crashes < MaxCrashes /\ crashes' = crashes + 1
  /\ \E s \in Sessions : Open(s)
  /\ pc' = [s \in Sessions |-> "closed"]
  /\ coming' = [s \in Sessions |-> <<>>]
  /\ wanted' = [s \in Sessions |-> {}]
  /\ completed' = [s \in Sessions |-> {}] /\ hashed' = [s \in Sessions |-> {}]
  /\ view' = [s \in Sessions |-> [o \in Objects |-> <<>>]]
  /\ live' = NoSession
  /\ partial' = NoFiles /\ staged' = NoFiles
  /\ UNCHANGED <<cas, settled, acked, losses, rots, history>>

----------------------------------------------------------------------------
Serve(s) ==
  \/ Plan(s) \/ Link(s) \/ Read(s) \/ Write(s) \/ Move(s)
  \/ Check(s) \/ Hash(s) \/ Save(s) \/ Settle(s) \/ Reply(s) \/ Hangup(s)

Next ==
  \/ \E s \in Sessions : Dial(s)
  \/ \E s \in Sessions : Plan(s)
  \/ \E s \in Sessions : Link(s)
  \/ \E s \in Sessions : Read(s)
  \/ \E s \in Sessions : Write(s)
  \/ \E s \in Sessions : Move(s)
  \/ \E s \in Sessions : Check(s)
  \/ \E s \in Sessions : Hash(s)
  \/ \E s \in Sessions : Save(s)
  \/ \E s \in Sessions : Settle(s)
  \/ \E s \in Sessions : Reply(s)
  \/ \E s \in Sessions : Hangup(s)
  \/ GiveUp
  \/ AckTimeout
  \/ Crash

\* Tasks run, a wait for an ack ends after five seconds, and the outbox worker
\* dials until it has the ack.  Nothing makes a link fail.
Fairness ==
  /\ \A s \in Sessions : WF_vars(Serve(s))
  /\ WF_vars(\E s \in Sessions : Dial(s))
  /\ WF_vars(AckTimeout)

Spec == Init /\ [][Next]_vars /\ Fairness

----------------------------------------------------------------------------
(* What it promises.                                                       *)

\* Nothing but an object's true bytes enters the store under its digest, whatever
\* two sessions did to the files of the offer, with one exception: commit_file
\* hashed the object and another session then put a wrong file in its place.
OnlyTrueBytesEnter ==
  [][\A o \in Objects \ swapped' :
       cas'[o] # cas[o] => cas'[o] \in {NoFile, True(o)}]_vars

\* An acknowledged offer is in the store, whole and verified: a sender that has
\* the ack may delete its copy (handle_plan, before the ack is signed).  The
\* exception is the same: an object replaced between its hash and its rename.
AckedIsStored ==
  acked \/ settled => \A o \in Required \ swapped : cas[o] = True(o)

\* While the receiver serves one session of the offer at a time, lost links,
\* wrong chunks and restarts only delay the delivery: every retry finds files
\* it can go on from.
Delivered == <>(settled \/ overlapped)
=============================================================================
