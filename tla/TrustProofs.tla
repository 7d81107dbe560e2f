----------------------------- MODULE TrustProofs -----------------------------
(* What is proved of Trust for every set of peers, tokens, tickets,         *)
(* sessions and messages, and every bound:                                  *)
(*   - no save of net/trust.json takes back what the file records of        *)
(*     removals, uses, cancellations and revocations.  This needs only that *)
(*     every copy numbers its pairings (Copies), because a save merges;     *)
(*   - a control message is acted on once.  A session that is to act on one *)
(*     has its nonce in the file, or holds the lock of nonces and is about  *)
(*     to save it (Hearing); nobody else can pass the check in between;     *)
(*   - a ticket admits one peer and a token binds one guest, and a removed  *)
(*     peer is not paired again by a ticket from before its removal.  There *)
(*     is a choice of a peer for every ticket and token that accounts for   *)
(*     the file, for every copy a session holds and for every copy an       *)
(*     operation is going to save (Admission); only the holder of the lock  *)
(*     of pairings, or of bindings, has a copy that is ahead of the file;   *)
(*   - no guest of a revoked token is in the file.                          *)
EXTENDS Trust, TLAPS

Numbered(f) == "version" \in DOMAIN f /\ f.version \in [Peers -> Nat]

Queue(q) ==
    \/ q = <<>>
    \/ \E f : Numbered(f) /\ q = <<f>>
    \/ \E f, g : Numbered(f) /\ Numbered(g) /\ q = <<f, g>>

Copies ==
    /\ Numbered(disk)
    /\ mem = [s \in Sessions |-> mem[s]]
    /\ \A s \in Sessions : mem[s] = Closed \/ Numbered(mem[s])
    /\ doing = [h \in Handles |-> doing[h]]
    /\ \A h \in Handles :
          /\ doing[h] = [locks |-> doing[h].locks, copies |-> doing[h].copies]
          /\ Queue(doing[h].copies)

Hearing ==
    /\ heard \in [Sessions -> Controls \cup {NoControl}]
    /\ acted = [c \in Controls |-> acted[c]]
    /\ \A s \in Sessions : heard[s] # NoControl =>
          /\ acted[heard[s]] = 0
          /\ \/ doing[s] = Idle /\ heard[s] \in disk.nonces
             \/ /\ "nonce-op" \in doing[s].locks
                /\ \E f : doing[s].copies = <<f>> /\ heard[s] \in f.nonces
    /\ \A s, t \in Sessions : heard[s] = heard[t] /\ heard[s] # NoControl => s = t
    /\ \A c \in Controls : acted[c] = 0 \/ (acted[c] = 1 /\ c \in disk.nonces)

-----------------------------------------------------------------------------
(* merge_disk_state and what save does after it: the sets only grow, and a  *)
(* pairing's version never goes back.                                       *)
LEMMA MergeGrows ==
    ASSUME NEW m, NEW d, Numbered(m), Numbered(d)
    PROVE  /\ Numbered(Merge(m, d))
           /\ \A p \in Peers : d.version[p] <= Merge(m, d).version[p]
  <1> DEFINE newer(p) == /\ m.version[p] >= d.version[p]
                         /\ m.peers[p] # Absent \/ m.version[p] > 0
  <1>1. Merge(m, d).version = [p \in Peers |-> IF newer(p) THEN m.version[p] ELSE d.version[p]]
    BY DEF Merge
  <1>2. "version" \in DOMAIN Merge(m, d) BY DEF Merge
  <1>3. \A p \in Peers : m.version[p] \in Nat /\ d.version[p] \in Nat BY DEF Numbered
  <1>4. \A p \in Peers : /\ Merge(m, d).version[p] \in Nat
                         /\ d.version[p] <= Merge(m, d).version[p]
    BY <1>1, <1>3
  <1>5. Merge(m, d).version \in [Peers -> Nat] BY <1>1, <1>4
  <1> QED BY <1>2, <1>4, <1>5 DEF Numbered

(* The sets of a merged file are the unions of the sets of both.            *)
LEMMA MergedSets ==
    ASSUME NEW m, NEW d
    PROVE  /\ Merge(m, d).used = d.used \cup m.used
           /\ Merge(m, d).cancelled = d.cancelled \cup m.cancelled
           /\ Merge(m, d).revoked = d.revoked \cup m.revoked
           /\ Merge(m, d).nonces = d.nonces \cup m.nonces
           /\ {"version", "used", "cancelled", "revoked", "nonces", "revocations",
               "certs", "peers"} \subseteq DOMAIN Merge(m, d)
  BY DEF Merge

(* Neither prune_expired nor remove_revoked_guests touches these fields.    *)
LEMMA PruneKeeps ==
    ASSUME NEW f, {"version", "used", "cancelled", "revoked", "nonces", "revocations",
                   "certs", "peers"} \subseteq DOMAIN f
    PROVE  LET g == WithoutRevoked(Pruned(f))
           IN /\ g.version = f.version /\ "version" \in DOMAIN g
              /\ g.used = f.used /\ g.cancelled = f.cancelled
              /\ g.revoked = f.revoked /\ g.nonces = f.nonces
  BY DEF WithoutRevoked, Pruned

(* A save adds to the sets of the file what the handle holds, no less.      *)
LEMMA SaveGrows ==
    ASSUME NEW m, NEW d
    PROVE  /\ Saved(m, d).used = d.used \cup m.used
           /\ Saved(m, d).cancelled = d.cancelled \cup m.cancelled
           /\ Saved(m, d).revoked = d.revoked \cup m.revoked
           /\ Saved(m, d).nonces = d.nonces \cup m.nonces
           /\ Saved(m, d).version = Merge(m, d).version
           /\ "version" \in DOMAIN Saved(m, d)
  BY MergedSets, PruneKeeps DEF Saved

(* A save leaves the versions numbers and takes none of them back.          *)
LEMMA SaveNumbers ==
    ASSUME NEW m, NEW d, Numbered(m), Numbered(d)
    PROVE  /\ Numbered(Saved(m, d))
           /\ \A p \in Peers : d.version[p] <= Saved(m, d).version[p]
  BY MergeGrows, SaveGrows DEF Numbered

-----------------------------------------------------------------------------
(* The operations begin with copies that number their pairings.             *)
LEMMA BeginKeepsCopies ==
    ASSUME Copies, NEW h \in Handles, NEW l, NEW q, Queue(q), UNCHANGED disk,
           doing' = [doing EXCEPT ![h] = [locks |-> l, copies |-> q]],
           mem' = mem \/ mem' = [mem EXCEPT ![h] = disk]
    PROVE  Copies'
  <1>1. /\ Numbered(disk) /\ mem = [s \in Sessions |-> mem[s]]
        /\ doing = [j \in Handles |-> doing[j]]
        /\ \A s \in Sessions : mem[s] = Closed \/ Numbered(mem[s])
        /\ \A j \in Handles :
              /\ doing[j] = [locks |-> doing[j].locks, copies |-> doing[j].copies]
              /\ Queue(doing[j].copies)
    BY DEF Copies
  <1>2. /\ doing' = [j \in Handles |-> doing'[j]]
        /\ \A j \in Handles : doing'[j] = IF j = h THEN [locks |-> l, copies |-> q] ELSE doing[j]
    BY <1>1
  <1>3. \A j \in Handles :
              /\ doing'[j] = [locks |-> doing'[j].locks, copies |-> doing'[j].copies]
              /\ Queue(doing'[j].copies)
    BY <1>1, <1>2
  <1>4. /\ mem' = [s \in Sessions |-> mem'[s]]
        /\ \A s \in Sessions : mem'[s] = mem[s] \/ mem'[s] = disk
    BY <1>1
  <1>5. \A s \in Sessions : mem'[s] = Closed \/ Numbered(mem'[s]) BY <1>1, <1>4
  <1>6. Numbered(disk') BY <1>1
  <1> QED BY <1>2, <1>3, <1>4, <1>5, <1>6 DEF Copies, Queue, Numbered

(* An operation that starts with a list of saves keeps the copies numbered. *)
LEMMA StartsCopies ==
    ASSUME Copies, NEW h \in Handles, NEW l, NEW q, Queue(q), Starts(h, l, q)
    PROVE  Copies'
  BY BeginKeepsCopies DEF Starts

(* Only pairings change a version, each by one.                             *)
LEMMA PairedNumbers ==
    ASSUME NEW f, Numbered(f), NEW p, NEW t
    PROVE  Numbered(Paired(f, p, t))
  <1> DEFINE v == [f.version EXCEPT ![p] = @ + 1]
  <1>1. f.version \in [Peers -> Nat] BY DEF Numbered
  <1>2. v \in [Peers -> Nat]
    <2>1. CASE p \in Peers
      <3>1. f.version[p] + 1 \in Nat BY <1>1, <2>1
      <3> QED BY <1>1, <3>1
    <2>2. CASE p \notin Peers BY <1>1, <2>2
    <2> QED BY <2>1, <2>2
  <1>3. Paired(f, p, t) = [f EXCEPT !.version = v, !.pairedBy[p] = t, !.peers[p] = Full]
    BY DEF Paired
  <1> HIDE DEF v
  <1>4. Paired(f, p, t).version = v /\ "version" \in DOMAIN Paired(f, p, t)
    BY <1>3 DEF Numbered
  <1> QED BY <1>2, <1>4 DEF Numbered

(* Spending a ticket changes no version.                                    *)
LEMMA SpentNumbers ==
    ASSUME NEW f, Numbered(f), NEW t
    PROVE  Numbered(Spent(f, t))
  BY DEF Spent, Numbered

(* Changing what a handle has left to save keeps the shape of its record.   *)
LEMMA OtherCopies ==
    ASSUME NEW d, NEW q, d = [locks |-> d.locks, copies |-> d.copies]
    PROVE  LET e == [d EXCEPT !.copies = q]
           IN e = [locks |-> e.locks, copies |-> e.copies] /\ e.copies = q
  OBVIOUS

(* Every action leaves every copy numbered.                                 *)
LEMMA CopiesStep == Copies /\ [Next]_vars => Copies'
  <1> SUFFICES ASSUME Copies, [Next]_vars PROVE Copies' OBVIOUS
  <1>a. Numbered(disk) BY DEF Copies
  <1>b. Sessions \subseteq Handles /\ Command \in Handles BY DEF Handles
  <1>c. CASE UNCHANGED <<disk, mem, doing>> BY <1>c DEF Copies, Queue, Numbered
  <1>d. ASSUME UNCHANGED <<disk, doing>>, NEW s \in Sessions,
               mem' = [mem EXCEPT ![s] = disk] \/ mem' = [mem EXCEPT ![s] = Closed]
        PROVE  Copies'
    <2>1. mem = [t \in Sessions |-> mem[t]] /\ \A t \in Sessions : mem[t] = Closed \/ Numbered(mem[t])
      BY DEF Copies
    <2>2. /\ mem' = [t \in Sessions |-> mem'[t]]
          /\ \A t \in Sessions : mem'[t] \in {mem[t], disk, Closed}
      BY <1>d, <2>1
    <2>3. \A t \in Sessions : mem'[t] = Closed \/ Numbered(mem'[t]) BY <1>a, <2>1, <2>2
    <2> QED BY <1>d, <2>2, <2>3 DEF Copies, Queue, Numbered
  <1>1. ASSUME NEW t \in Tickets, RegisterTicket(t) PROVE Copies'
    <2> DEFINE f == [disk EXCEPT !.pending = @ \cup {t}]
    <2>1. Numbered(f) BY <1>a DEF Numbered
    <2>2. Starts(Command, {"pair-op"}, <<f>>) BY <1>1 DEF RegisterTicket, Begin
    <2> HIDE DEF f
    <2> QED BY <1>b, <2>1, <2>2, StartsCopies DEF Queue
  <1>2. ASSUME NEW s \in Sessions, NEW t \in Tickets, AcceptPair(s, t) PROVE Copies'
    <2> DEFINE p == remote[s]
               f == Spent(disk, t)
               g == [f EXCEPT !.awaiting[t] = p]
    <2>1. /\ UNCHANGED disk /\ mem' = [mem EXCEPT ![s] = disk]
          /\ \/ doing' = [doing EXCEPT ![s] = [locks |-> {"pair-op"}, copies |-> <<Paired(f, p, t)>>]]
             \/ doing' = [doing EXCEPT ![s] = [locks |-> {"pair-op"}, copies |-> <<g>>]]
      BY <1>2 DEF AcceptPair
    <2>2. Numbered(f) BY <1>a, SpentNumbers
    <2>3. Numbered(g) BY <2>2 DEF Numbered
    <2>4. Numbered(Paired(f, p, t)) BY <2>2, PairedNumbers
    <2> HIDE DEF f, g, p
    <2> QED BY <1>b, <2>1, <2>3, <2>4, BeginKeepsCopies DEF Queue
  <1>3. ASSUME NEW s \in Sessions, NEW t \in Tickets, ConfirmPair(s, t) PROVE Copies'
    <2> DEFINE p == remote[s]
               f == Paired(disk, p, t)
               g == [f EXCEPT !.awaiting[t] = NoPeer]
    <2>1. Starts(s, {"pair-op"}, <<g>>) BY <1>3 DEF ConfirmPair, Begin
    <2>2. Numbered(f) BY <1>a, PairedNumbers
    <2> HIDE DEF f, p
    <2>3. Numbered(g) BY <2>2 DEF Numbered
    <2> HIDE DEF g
    <2> QED BY <1>b, <2>1, <2>3, StartsCopies DEF Queue
  <1>4. ASSUME NEW i \in Invites, CompletePair(i) PROVE Copies'
    <2>1. Starts(Command, {"pair-op"}, <<Joined(disk, i)>>) BY <1>4 DEF CompletePair, Begin
    <2>2. Numbered(Joined(disk, i)) BY <1>a, PairedNumbers DEF Joined
    <2> QED BY <1>b, <2>1, <2>2, StartsCopies DEF Queue
  <1>5. ASSUME NEW p \in Peers, RemovePeer(p) PROVE Copies'
    <2>1. PICK f : /\ Starts(Command, {"pair-op", "bind-op"}, <<f>>)
                   /\ \E a, b, c, d, e, w : f = [disk EXCEPT
                        !.peers[p] = a, !.version[p] = @ + 1, !.pairedBy[p] = b,
                        !.cancelled = c, !.revoked = d, !.used = e, !.awaiting = w]
      BY <1>5 DEF RemovePeer, Begin
    <2>2. Numbered(f) BY <1>a, <2>1 DEF Numbered
    <2> QED BY <1>b, <2>1, <2>2, StartsCopies DEF Queue
  <1>6. ASSUME NEW s \in Sessions, NEW k \in Tokens, BindEnrollment(s, k) PROVE Copies'
    <2> DEFINE f == [disk EXCEPT !.bound[k] = remote[s], !.peers[remote[s]] = k]
               g == [f EXCEPT !.certs[remote[s]] = k]
    <2>1. Starts(s, {"bind-op"}, <<f, g>>) BY <1>6 DEF BindEnrollment, Begin
    <2>2. Numbered(f) BY <1>a DEF Numbered
    <2> HIDE DEF f
    <2>3. Numbered(g) BY <2>2 DEF Numbered
    <2> HIDE DEF g
    <2> QED BY <1>b, <2>1, <2>2, <2>3, StartsCopies DEF Queue
  <1>7. ASSUME NEW s \in Sessions, NEW k \in Tokens, InstallCertificate(s, k) PROVE Copies'
    <2> DEFINE f == [disk EXCEPT !.peers[Bearer[k]] = k, !.certs[Bearer[k]] = k]
    <2>1. Starts(s, {"bind-op"}, <<f>>) BY <1>7 DEF InstallCertificate, Delegated, Begin
    <2>2. Numbered(f) BY <1>a DEF Numbered
    <2> HIDE DEF f
    <2> QED BY <1>b, <2>1, <2>2, StartsCopies DEF Queue
  <1>8. ASSUME NEW k \in Tokens, RevokeToken(k) PROVE Copies'
    <2>1. PICK f : /\ Starts(Command, {"bind-op"}, <<f>>)
                   /\ \E a, b, c, d : f = [disk EXCEPT !.revoked = a, !.revocations = b,
                                          !.peers = c, !.bound[k] = NoPeer, !.certs = d]
      BY <1>8 DEF RevokeToken, Begin
    <2>2. Numbered(f) BY <1>a, <2>1 DEF Numbered
    <2> QED BY <1>b, <2>1, <2>2, StartsCopies DEF Queue
  <1>9. ASSUME NEW s \in Sessions, NEW rs, ApplyRevocations(s, rs) PROVE Copies'
    <2>1. PICK f : /\ Starts(s, {"bind-op"}, <<f>>)
                   /\ \E a, b, c, d : f = [disk EXCEPT !.revocations = a, !.revoked = b,
                                          !.peers = c, !.certs = d]
      BY <1>9 DEF ApplyRevocations, Begin
    <2>2. Numbered(f) BY <1>a, <2>1 DEF Numbered
    <2> QED BY <1>b, <2>1, <2>2, StartsCopies DEF Queue
  <1>10. ASSUME NEW p \in Peers, Join(p) PROVE Copies'
    <2> DEFINE f == [disk EXCEPT !.peers[p] = Full]
               g == [f EXCEPT !.guest = TRUE]
    <2>1. Starts(Command, {}, <<f, g>>) BY <1>10 DEF Join, Begin
    <2>2. Numbered(f) BY <1>a DEF Numbered
    <2> HIDE DEF f
    <2>3. Numbered(g) BY <2>2 DEF Numbered
    <2> HIDE DEF g
    <2> QED BY <1>b, <2>1, <2>2, <2>3, StartsCopies DEF Queue
  <1>11. ASSUME NEW s \in Sessions, NEW c \in Controls, ReceiveControl(s, c) PROVE Copies'
    <2>1. Starts(s, {"nonce-op"}, <<Nonced(disk, c)>>) BY <1>11 DEF ReceiveControl
    <2>2. Numbered(Nonced(disk, c)) BY <1>a DEF Nonced, Numbered
    <2> QED BY <1>b, <2>1, <2>2, StartsCopies DEF Queue
  <1>12. CASE SaveDialed
    <2>1. Starts(Command, {}, <<disk>>) BY <1>12 DEF SaveDialed, Begin
    <2> QED BY <1>a, <1>b, <2>1, StartsCopies DEF Queue
  <1>13. ASSUME NEW h \in Handles, Save(h) PROVE Copies'
    <2> DEFINE todo == doing[h].copies
    <2>1. /\ todo # <<>> /\ disk' = Saved(Head(todo), disk)
          /\ mem' = mem \/ mem' = [mem EXCEPT ![h] = Head(todo)]
          /\ \/ doing' = [doing EXCEPT ![h] = Idle]
             \/ Len(todo) # 1 /\ doing' = [doing EXCEPT ![h] = [@ EXCEPT !.copies = Tail(todo)]]
      BY <1>13 DEF Save
    <2>2. Queue(todo) BY DEF Copies
    <2> HIDE DEF todo
    <2>3. Numbered(Head(todo)) /\ (Len(todo) # 1 => Queue(Tail(todo)))
      <3>1. CASE \E f : Numbered(f) /\ todo = <<f>>
        <4>1. PICK f : Numbered(f) /\ todo = <<f>> BY <3>1
        <4>2. Head(todo) = f /\ Len(todo) = 1 BY <4>1
        <4> QED BY <4>1, <4>2
      <3>2. CASE \E f, g : Numbered(f) /\ Numbered(g) /\ todo = <<f, g>>
        <4>1. PICK f, g : Numbered(f) /\ Numbered(g) /\ todo = <<f, g>> BY <3>2
        <4>2. Head(todo) = f /\ Tail(todo) = <<g>> BY <4>1
        <4> QED BY <4>1, <4>2 DEF Queue
      <3> QED BY <2>1, <2>2, <3>1, <3>2 DEF Queue
    <2>4. Numbered(disk') BY <1>a, <2>1, <2>3, SaveNumbers
    <2>5. /\ mem = [s \in Sessions |-> mem[s]] /\ doing = [j \in Handles |-> doing[j]]
          /\ \A s \in Sessions : mem[s] = Closed \/ Numbered(mem[s])
          /\ \A j \in Handles :
                /\ doing[j] = [locks |-> doing[j].locks, copies |-> doing[j].copies]
                /\ Queue(doing[j].copies)
      BY DEF Copies
    <2>6. /\ mem' = [s \in Sessions |-> mem'[s]]
          /\ \A s \in Sessions : mem'[s] = mem[s] \/ mem'[s] = Head(todo)
      BY <2>1, <2>5
    <2>7. \A s \in Sessions : mem'[s] = Closed \/ Numbered(mem'[s]) BY <2>3, <2>5, <2>6
    <2>8. PICK new : /\ doing' = [doing EXCEPT ![h] = new]
                     /\ new = [locks |-> new.locks, copies |-> new.copies] /\ Queue(new.copies)
      <3>1. CASE doing' = [doing EXCEPT ![h] = Idle]
        <4>1. Idle = [locks |-> Idle.locks, copies |-> Idle.copies] /\ Queue(Idle.copies)
          BY DEF Idle, Queue
        <4> QED BY <3>1, <4>1
      <3>2. CASE Len(todo) # 1 /\ doing' = [doing EXCEPT ![h] = [@ EXCEPT !.copies = Tail(todo)]]
        <4> DEFINE new == [doing[h] EXCEPT !.copies = Tail(todo)]
        <4>1. doing' = [doing EXCEPT ![h] = new] BY <2>5, <3>2
        <4>2. doing[h] = [locks |-> doing[h].locks, copies |-> doing[h].copies] BY <2>5
        <4>3. new = [locks |-> new.locks, copies |-> new.copies] /\ new.copies = Tail(todo)
          BY <4>2, OtherCopies
        <4>4. Queue(Tail(todo)) BY <2>3, <3>2
        <4> HIDE DEF new
        <4> QED BY <4>1, <4>3, <4>4
      <3> QED BY <2>1, <3>1, <3>2
    <2>9. /\ doing' = [j \in Handles |-> doing'[j]]
          /\ \A j \in Handles : doing'[j] = IF j = h THEN new ELSE doing[j]
      BY <2>5, <2>8
    <2>10. \A j \in Handles :
                /\ doing'[j] = [locks |-> doing'[j].locks, copies |-> doing'[j].copies]
                /\ Queue(doing'[j].copies)
      BY <2>5, <2>8, <2>9
    <2> QED BY <2>4, <2>6, <2>7, <2>9, <2>10 DEF Copies, Queue, Numbered
  <1>14. ASSUME NEW s \in Sessions, SaveHints(s) PROVE Copies'
    <2>1. /\ mem[s] # Closed /\ mem' = [mem EXCEPT ![s] = Closed] /\ UNCHANGED doing
          /\ disk' = disk \/ disk' = Saved(mem[s], disk)
      BY <1>14 DEF SaveHints, Ready
    <2>2. Numbered(mem[s]) BY <2>1 DEF Copies
    <2>3. Numbered(disk') BY <1>a, <2>1, <2>2, SaveNumbers
    <2>4. mem = [t \in Sessions |-> mem[t]] /\ \A t \in Sessions : mem[t] = Closed \/ Numbered(mem[t])
      BY DEF Copies
    <2>5. /\ mem' = [t \in Sessions |-> mem'[t]]
          /\ \A t \in Sessions : mem'[t] = Closed \/ Numbered(mem'[t])
      BY <2>1, <2>4
    <2> QED BY <2>1, <2>3, <2>5 DEF Copies, Queue, Numbered
  <1>15. ASSUME NEW s \in Sessions,
                Frame(s) \/ PairRefused(s) \/ (\E t \in Tickets : PairRequest(s, t))
                \/ (\E p \in Peers : Open(s, p))
         PROVE  Copies'
    <2>1. UNCHANGED <<disk, doing>>
          /\ (mem' = [mem EXCEPT ![s] = disk] \/ mem' = [mem EXCEPT ![s] = Closed])
      BY <1>15 DEF Frame, PairRefused, PairRequest, Open
    <2> QED BY <1>d, <2>1
  <1>16. ASSUME \/ \E p \in Peers : Approve(p)
                \/ \E k \in Tokens : IssuerRevokes(k)
                \/ \E s \in Sessions : HandleControl(s)
                \/ \E c \in Controls : Late(c)
                \/ \E k \in Lapsable : Lapse(k)
                \/ UNCHANGED vars
         PROVE  Copies'
    <2>1. UNCHANGED <<disk, mem, doing>>
      BY <1>16 DEF Approve, IssuerRevokes, HandleControl, Late, Lapse, vars
    <2> QED BY <1>c, <2>1
  <1>17. CASE Crash
    <2>1. /\ UNCHANGED disk /\ mem' = [s \in Sessions |-> Closed]
          /\ doing' = [h \in Handles |-> Idle]
      BY <1>17 DEF Crash
    <2>2. Idle = [locks |-> Idle.locks, copies |-> Idle.copies] /\ Idle.copies = <<>>
      BY DEF Idle
    <2> QED BY <2>1, <2>2 DEF Copies, Queue, Numbered
  <1> QED BY <1>1, <1>2, <1>3, <1>4, <1>5, <1>6, <1>7, <1>8, <1>9, <1>10, <1>11, <1>12,
             <1>13, <1>14, <1>15, <1>16, <1>17 DEF Next

(* The file and every copy of it number the pairings, always.               *)
LEMMA CopiesAlways == Spec => []Copies
  <1>1. Init => Copies
    <2> SUFFICES ASSUME Init PROVE Copies OBVIOUS
    <2>1. Numbered(disk) BY DEF Init, EmptyFile, Numbered
    <2>2. Idle = [locks |-> Idle.locks, copies |-> Idle.copies] /\ Idle.copies = <<>>
      BY DEF Idle
    <2> QED BY <2>1, <2>2 DEF Init, Copies, Queue
  <1> QED BY <1>1, CopiesStep, PTL DEF Spec

(* No save of net/trust.json takes back a removal's version, a used or a    *)
(* cancelled ticket or a revoked token (merge_disk_state), whatever copies  *)
(* sessions and commands have held and for how long.                        *)
THEOREM RecordsKept == Spec => RecordsStay
  <1> DEFINE Kept == /\ \A p \in Peers : disk.version[p] <= disk'.version[p]
                     /\ disk.used \subseteq disk'.used
                     /\ disk.cancelled \subseteq disk'.cancelled
                     /\ disk.revoked \subseteq disk'.revoked
  <1>1. Copies /\ [Next]_vars => [Kept]_disk
    <2> SUFFICES ASSUME Copies, [Next]_vars, disk' # disk PROVE Kept OBVIOUS
    <2>1. PICK m : Numbered(m) /\ disk' = Saved(m, disk)
      <3>1. ASSUME NEW h \in Handles, Save(h)
            PROVE  \E m : Numbered(m) /\ disk' = Saved(m, disk)
        <4>1. doing[h].copies # <<>> /\ disk' = Saved(Head(doing[h].copies), disk)
          BY <3>1 DEF Save
        <4>2. Queue(doing[h].copies) BY DEF Copies
        <4>3. Numbered(Head(doing[h].copies)) BY <4>1, <4>2 DEF Queue
        <4> QED BY <4>1, <4>3
      <3>2. ASSUME NEW s \in Sessions, SaveHints(s)
            PROVE  \E m : Numbered(m) /\ disk' = Saved(m, disk)
        <4>1. mem[s] # Closed /\ disk' = Saved(mem[s], disk)
          BY <3>2 DEF SaveHints, Ready
        <4> QED BY <4>1 DEF Copies
      <3>3. (\E h \in Handles : Save(h)) \/ (\E s \in Sessions : SaveHints(s))
        BY DEF Next, RegisterTicket, PairRequest, Approve, AcceptPair, PairRefused, ConfirmPair,
           CompletePair, RemovePeer, BindEnrollment, InstallCertificate, RevokeToken, IssuerRevokes,
           ApplyRevocations, Join, ReceiveControl, HandleControl, Late, Open, Frame, SaveDialed,
           Lapse, Crash, Begin, Starts, vars
      <3> QED BY <3>1, <3>2, <3>3
    <2>2. Numbered(disk) BY DEF Copies
    <2> QED BY <2>1, <2>2, SaveNumbers, SaveGrows
  <1>2. [][Kept]_disk => RecordsStay BY DEF RecordsStay
  <1> QED BY <1>1, <1>2, CopiesAlways, PTL DEF Spec

-----------------------------------------------------------------------------
(* Steps that leave what is heard alone: the nonces of the file only grow,  *)
(* and a session that is to act on a message is left to it.                 *)
LEMMA HearingStays ==
    ASSUME Hearing, UNCHANGED <<heard, acted>>, disk.nonces \subseteq disk'.nonces,
           \A s \in Sessions : heard[s] # NoControl => doing'[s] = doing[s]
    PROVE  Hearing'
  BY DEF Hearing, Idle

(* An operation begins on a handle that is to act on nothing.               *)
LEMMA BeginHearing ==
    ASSUME Hearing, Copies, NEW h \in Handles, NEW l, NEW q, Begin(h, l, q), UNCHANGED acted
    PROVE  Hearing'
  <1>1. /\ Ready(h) /\ UNCHANGED <<disk, heard>>
        /\ doing' = [doing EXCEPT ![h] = [locks |-> l, copies |-> q]]
    BY DEF Begin, Starts
  <1>2. doing = [j \in Handles |-> doing[j]] /\ Sessions \subseteq Handles BY DEF Copies, Handles
  <1>3. \A s \in Sessions : heard[s] # NoControl => s # h BY <1>1 DEF Ready
  <1>4. \A s \in Sessions : heard[s] # NoControl => doing'[s] = doing[s] BY <1>1, <1>2, <1>3
  <1> QED BY <1>1, <1>4, HearingStays

(* Every action keeps the nonce of what is heard in the file or on its way  *)
(* there, and no message is heard by two.                                   *)
LEMMA HearingStep == Copies /\ Hearing /\ [Next]_vars => Hearing'
  <1> SUFFICES ASSUME Copies, Hearing, [Next]_vars PROVE Hearing' OBVIOUS
  <1>a. /\ doing = [j \in Handles |-> doing[j]] /\ Sessions \subseteq Handles
        /\ Command \in Handles
    BY DEF Copies, Handles
  <1>b. /\ heard \in [Sessions -> Controls \cup {NoControl}] /\ NoControl \notin Controls
        /\ acted = [c \in Controls |-> acted[c]]
    BY TrustAssumption DEF Hearing
  <1>c. CASE UNCHANGED <<heard, acted, doing>> /\ disk.nonces \subseteq disk'.nonces
    BY <1>c, HearingStays
  <1>1. ASSUME NEW h \in Handles, NEW l, NEW q, Begin(h, l, q), UNCHANGED acted
        PROVE  Hearing'
    BY <1>1, BeginHearing
  <1>2. ASSUME NEW s \in Sessions, NEW c \in Controls, ReceiveControl(s, c) PROVE Hearing'
    <2>1. /\ c \notin disk.nonces /\ doing[s] = Idle /\ heard[s] = NoControl
          /\ Free({"nonce-op"}) /\ UNCHANGED <<disk, acted>>
          /\ doing' = [doing EXCEPT ![s] = [locks |-> {"nonce-op"}, copies |-> <<Nonced(disk, c)>>]]
          /\ heard' = [heard EXCEPT ![s] = c]
      BY <1>2 DEF ReceiveControl, Acceptable, Starts, Ready
    <2>2. c \in Nonced(disk, c).nonces
      <3>1. Nonced(disk, c) = [disk EXCEPT !.nonces = (@ \ late) \cup {c}] BY DEF Nonced
      <3> QED BY <3>1
    <2>3. \A t \in Sessions : heard[t] # c
      <3> SUFFICES ASSUME NEW t \in Sessions, heard[t] = c PROVE FALSE OBVIOUS
      <3>1. heard[t] # NoControl BY <1>b
      <3>2. "nonce-op" \notin doing[t].locks BY <1>a, <2>1 DEF Free
      <3> QED BY <2>1, <3>1, <3>2 DEF Hearing
    <2>4. acted[c] = 0 BY <2>1 DEF Hearing
    <2>5. doing'[s] = [locks |-> {"nonce-op"}, copies |-> <<Nonced(disk, c)>>] BY <1>a, <2>1
    <2>6. \A t \in Sessions : t # s => heard'[t] = heard[t] /\ doing'[t] = doing[t]
      BY <1>a, <1>b, <2>1
    <2>7. heard'[s] = c /\ heard' \in [Sessions -> Controls \cup {NoControl}] BY <1>b, <2>1
    <2>8. \A t \in Sessions : heard'[t] # NoControl =>
             /\ acted'[heard'[t]] = 0
             /\ \/ doing'[t] = Idle /\ heard'[t] \in disk'.nonces
                \/ /\ "nonce-op" \in doing'[t].locks
                   /\ \E f : doing'[t].copies = <<f>> /\ heard'[t] \in f.nonces
      <3> SUFFICES ASSUME NEW t \in Sessions, heard'[t] # NoControl
                   PROVE  /\ acted'[heard'[t]] = 0
                          /\ \/ doing'[t] = Idle /\ heard'[t] \in disk'.nonces
                             \/ /\ "nonce-op" \in doing'[t].locks
                                /\ \E f : doing'[t].copies = <<f>> /\ heard'[t] \in f.nonces
        OBVIOUS
      <3>1. CASE t = s BY <2>1, <2>2, <2>4, <2>5, <2>7, <3>1
      <3>2. CASE t # s BY <2>1, <2>6, <3>2 DEF Hearing
      <3> QED BY <3>1, <3>2
    <2>9. \A t, u \in Sessions : heard'[t] = heard'[u] /\ heard'[t] # NoControl => t = u
      BY <2>3, <2>6, <2>7 DEF Hearing
    <2> QED BY <1>b, <2>1, <2>7, <2>8, <2>9 DEF Hearing, Idle
  <1>3. ASSUME NEW s \in Sessions, HandleControl(s) PROVE Hearing'
    <2> DEFINE c == heard[s]
    <2>1. /\ c # NoControl /\ doing[s] = Idle /\ UNCHANGED <<disk, doing>>
          /\ acted' = [acted EXCEPT ![c] = @ + 1] /\ heard' = [heard EXCEPT ![s] = NoControl]
      BY <1>3 DEF HandleControl
    <2>2. c \in Controls /\ acted[c] = 0 BY <1>b, <2>1 DEF Hearing
    <2>3. c \in disk.nonces
      <3>1. "nonce-op" \notin doing[s].locks BY <2>1 DEF Idle
      <3> QED BY <2>1, <3>1 DEF Hearing
    <2>4. \A t \in Sessions : t # s => heard'[t] = heard[t] /\ heard[t] # c
      BY <1>b, <2>1 DEF Hearing
    <2>5. heard'[s] = NoControl /\ heard' \in [Sessions -> Controls \cup {NoControl}]
      BY <1>b, <2>1
    <2>6. /\ acted' = [d \in Controls |-> acted'[d]]
          /\ \A d \in Controls : acted'[d] = IF d = c THEN 1 ELSE acted[d]
      BY <1>b, <2>1, <2>2
    <2> HIDE DEF c
    <2>7. \A t \in Sessions : heard'[t] # NoControl =>
             t # s /\ heard'[t] = heard[t] /\ acted'[heard'[t]] = acted[heard[t]]
      BY <1>b, <2>4, <2>5, <2>6
    <2>8. \A t \in Sessions : heard'[t] # NoControl =>
             /\ acted'[heard'[t]] = 0
             /\ \/ doing'[t] = Idle /\ heard'[t] \in disk'.nonces
                \/ /\ "nonce-op" \in doing'[t].locks
                   /\ \E f : doing'[t].copies = <<f>> /\ heard'[t] \in f.nonces
      <3> SUFFICES ASSUME NEW t \in Sessions, heard'[t] # NoControl
                   PROVE  /\ acted'[heard'[t]] = 0
                          /\ \/ doing'[t] = Idle /\ heard'[t] \in disk'.nonces
                             \/ /\ "nonce-op" \in doing'[t].locks
                                /\ \E f : doing'[t].copies = <<f>> /\ heard'[t] \in f.nonces
        OBVIOUS
      <3>1. heard'[t] = heard[t] /\ acted'[heard'[t]] = acted[heard[t]] BY <2>7
      <3>2. UNCHANGED <<disk, doing>> BY <2>1
      <3> QED BY <3>1, <3>2 DEF Hearing
    <2>9. \A t, u \in Sessions : heard'[t] = heard'[u] /\ heard'[t] # NoControl => t = u
      BY <2>4, <2>5, <2>7 DEF Hearing
    <2>10. \A d \in Controls : acted'[d] = 0 \/ (acted'[d] = 1 /\ d \in disk'.nonces)
      BY <2>1, <2>3, <2>6 DEF Hearing
    <2> QED BY <2>5, <2>6, <2>8, <2>9, <2>10 DEF Hearing, Idle
  <1>4. ASSUME NEW h \in Handles, Save(h) PROVE Hearing'
    <2> DEFINE todo == doing[h].copies
    <2>1. /\ todo # <<>> /\ disk' = Saved(Head(todo), disk) /\ UNCHANGED <<heard, acted>>
          /\ doing' = [doing EXCEPT ![h] =
                 IF Len(todo) = 1 THEN Idle ELSE [@ EXCEPT !.copies = Tail(todo)]]
      BY <1>4 DEF Save, counts, control
    <2>2. disk'.nonces = disk.nonces \cup Head(todo).nonces BY <2>1, SaveGrows
    <2>3. CASE h \notin Sessions \/ heard[h] = NoControl
      <3>1. \A s \in Sessions : heard[s] # NoControl => doing'[s] = doing[s]
        BY <1>a, <2>1, <2>3
      <3> QED BY <2>1, <2>2, <3>1, HearingStays
    <2>4. CASE h \in Sessions /\ heard[h] # NoControl
      <3>1. PICK f : todo = <<f>> /\ heard[h] \in f.nonces
        <4>1. todo # <<>> BY <2>1
        <4>2. doing[h] # Idle BY <4>1 DEF Idle
        <4> QED BY <2>4, <4>2 DEF Hearing
      <3>2. Head(todo) = f /\ Len(todo) = 1 BY <3>1
      <3>3. doing' = [doing EXCEPT ![h] = Idle] /\ heard[h] \in disk'.nonces
            /\ disk.nonces \subseteq disk'.nonces
        BY <2>1, <2>2, <3>1, <3>2
      <3>4. doing'[h] = Idle /\ \A s \in Sessions : s # h => doing'[s] = doing[s]
        BY <1>a, <3>3
      <3>5. \A s \in Sessions : heard[s] # NoControl =>
             /\ acted[heard[s]] = 0
             /\ \/ doing'[s] = Idle /\ heard[s] \in disk'.nonces
                \/ /\ "nonce-op" \in doing'[s].locks
                   /\ \E g : doing'[s].copies = <<g>> /\ heard[s] \in g.nonces
        BY <3>3, <3>4 DEF Hearing
      <3>6. /\ \A s, t \in Sessions : heard[s] = heard[t] /\ heard[s] # NoControl => s = t
            /\ \A c \in Controls : acted[c] = 0 \/ (acted[c] = 1 /\ c \in disk'.nonces)
        BY <3>3 DEF Hearing
      <3> QED BY <1>b, <2>1, <3>5, <3>6 DEF Hearing, Idle
    <2> QED BY <2>3, <2>4
  <1>5. ASSUME NEW s \in Sessions, NEW t \in Tickets, AcceptPair(s, t) PROVE Hearing'
    <2>1. /\ heard[s] = NoControl /\ UNCHANGED <<disk, heard, acted>>
          /\ \E new : doing' = [doing EXCEPT ![s] = new]
      BY <1>5 DEF AcceptPair, counts, control
    <2>2. \A u \in Sessions : heard[u] # NoControl => doing'[u] = doing[u] BY <1>a, <2>1
    <2> QED BY <2>1, <2>2, HearingStays
  <1>6. ASSUME NEW s \in Sessions, SaveHints(s) PROVE Hearing'
    <2>1. /\ disk' = disk \/ disk' = Saved(mem[s], disk)
          /\ UNCHANGED <<heard, acted, doing>>
      BY <1>6 DEF SaveHints, counts, control
    <2>2. disk.nonces \subseteq disk'.nonces BY <2>1, SaveGrows
    <2> QED BY <1>c, <2>1, <2>2
  <1>7. CASE Crash
    <2>1. UNCHANGED <<disk, acted>> /\ heard' = [s \in Sessions |-> NoControl] BY <1>7 DEF Crash
    <2> QED BY <1>b, <2>1 DEF Hearing, Idle
  <1>8. ASSUME \/ \E s \in Sessions, t \in Tickets : PairRequest(s, t)
               \/ \E p \in Peers : Approve(p)
               \/ \E s \in Sessions : PairRefused(s)
               \/ \E k \in Tokens : IssuerRevokes(k)
               \/ \E c \in Controls : Late(c)
               \/ \E s \in Sessions, p \in Peers : Open(s, p)
               \/ \E s \in Sessions : Frame(s)
               \/ \E k \in Lapsable : Lapse(k)
               \/ UNCHANGED vars
        PROVE  Hearing'
    <2>1. UNCHANGED <<heard, acted, doing, disk>>
      BY <1>8 DEF PairRequest, Approve, PairRefused, IssuerRevokes, Late, Open, Frame, Lapse, vars,
         counts, control
    <2> QED BY <1>c, <2>1
  <1>9. ASSUME \/ \E t \in Tickets : RegisterTicket(t)
               \/ \E s \in Sessions, t \in Tickets : ConfirmPair(s, t)
               \/ \E i \in Invites : CompletePair(i)
               \/ \E p \in Peers : RemovePeer(p)
               \/ \E s \in Sessions, k \in Tokens : BindEnrollment(s, k)
               \/ \E s \in Sessions, k \in Tokens : InstallCertificate(s, k)
               \/ \E k \in Tokens : RevokeToken(k)
               \/ \E s \in Sessions, rs \in SUBSET published : ApplyRevocations(s, rs)
               \/ \E p \in Peers \ Guests : Join(p)
               \/ SaveDialed
        PROVE  Hearing'
    <2>h. PICK h \in Handles : \E l, q : Begin(h, l, q)
      BY <1>9, <1>a DEF RegisterTicket, ConfirmPair, CompletePair, RemovePeer, BindEnrollment,
         InstallCertificate, RevokeToken, ApplyRevocations, Join, SaveDialed
    <2>1. PICK l, q : Begin(h, l, q) BY <2>h
    <2>2. UNCHANGED acted BY <2>1 DEF Begin, Starts
    <2> QED BY <1>1, <2>1, <2>2
  <1> QED BY <1>2, <1>3, <1>4, <1>5, <1>6, <1>7, <1>8, <1>9 DEF Next

(* A control message is acted on at most once (verify_and_record and        *)
(* consume_control_nonce), however often it is sent, however many sessions  *)
(* bring it and whatever the others save around it.                         *)
THEOREM ControlOnce == Spec => []ActedOnce
  <1>1. Init => Hearing BY TrustAssumption DEF Init, Hearing
  <1>2. Hearing => ActedOnce
    <2> SUFFICES ASSUME Hearing, NEW c \in Controls PROVE acted[c] <= 1 BY DEF ActedOnce
    <2>1. acted[c] = 0 \/ acted[c] = 1 BY DEF Hearing
    <2> QED BY <2>1
  <1>3. Spec => []Hearing BY <1>1, HearingStep, CopiesAlways, PTL DEF Spec
  <1> QED BY <1>2, <1>3, PTL

-----------------------------------------------------------------------------
(* Pairing and enrolment.  A file is Formed when its fields are maps over   *)
(* peers, tickets and tokens.                                               *)
Fields == {"peers", "version", "pairedBy", "pending", "awaiting", "used", "cancelled",
           "bound", "certs", "revoked", "revocations", "nonces", "guest"}

Formed(f) ==
    /\ Fields \subseteq DOMAIN f
    /\ f.version \in [Peers -> Nat]
    /\ f.peers = [p \in Peers |-> f.peers[p]] /\ f.certs = [p \in Peers |-> f.certs[p]]
    /\ f.pairedBy = [p \in Peers |-> f.pairedBy[p]]
    /\ f.awaiting = [t \in Tickets |-> f.awaiting[t]]
    /\ f.bound = [k \in Tokens |-> f.bound[k]]
    /\ f.revoked \subseteq Tokens

(* The fields of a merged file, one by one.                                 *)
LEMMA MergedFields ==
    ASSUME NEW m, NEW d, Formed(m), Formed(d)
    PROVE  LET f == Merge(m, d) IN
           /\ Formed(f)
           /\ f.pending = (d.pending \cup m.pending) \ (d.used \cup m.used)
           /\ \A p \in Peers :
                 /\ d.version[p] <= f.version[p] /\ m.version[p] <= f.version[p]
                 /\ f.peers[p] \in {m.peers[p], d.peers[p]}
                 /\ f.certs[p] \in {m.certs[p], d.certs[p]}
                 /\ \/ m.version[p] >= d.version[p] /\ f.pairedBy[p] = m.pairedBy[p]
                    \/ ~(m.version[p] > d.version[p]) /\ f.pairedBy[p] = d.pairedBy[p]
           /\ \A t \in Tickets :
                 LET w == IF m.awaiting[t] # NoPeer THEN m.awaiting[t] ELSE d.awaiting[t]
                 IN /\ f.awaiting[t] \in {NoPeer, w}
                    /\ f.awaiting[t] = NoPeer => \/ t \in d.cancelled \cup m.cancelled
                                                 \/ w = NoPeer \/ f.pairedBy[w] = t
           /\ \A k \in Tokens : f.bound[k] = IF d.bound[k] # NoPeer THEN d.bound[k] ELSE m.bound[k]
  <1> DEFINE f == Merge(m, d)
             newer(p) == /\ m.version[p] >= d.version[p]
                         /\ m.peers[p] # Absent \/ m.version[p] > 0
             waiting(t) == IF m.awaiting[t] # NoPeer THEN m.awaiting[t] ELSE d.awaiting[t]
  <1>1. \A p \in Peers : m.version[p] \in Nat /\ d.version[p] \in Nat BY DEF Formed
  <1>2. /\ Fields \subseteq DOMAIN f
        /\ f.revoked = d.revoked \cup m.revoked
        /\ f.pending = (d.pending \cup m.pending) \ (d.used \cup m.used)
    BY DEF Merge, Fields
  <1>3. f.peers = [p \in Peers |-> IF newer(p) THEN m.peers[p] ELSE d.peers[p]] BY DEF Merge
  <1>4. f.version = [p \in Peers |-> IF newer(p) THEN m.version[p] ELSE d.version[p]] BY DEF Merge
  <1>5. f.pairedBy = [p \in Peers |->
                        IF newer(p) /\ (m.version[p] > 0 \/ m.pairedBy[p] # NoTicket)
                        THEN m.pairedBy[p] ELSE d.pairedBy[p]]
    BY DEF Merge
  <1>6. f.certs = [p \in Peers |-> IF m.certs[p] # NoToken THEN m.certs[p] ELSE d.certs[p]]
    <2>1. f.certs = [p \in DOMAIN d.certs |-> IF m.certs[p] # NoToken THEN m.certs[p] ELSE d.certs[p]]
      BY DEF Merge
    <2>2. DOMAIN d.certs = Peers BY DEF Formed
    <2> QED BY <2>1, <2>2
  <1>7. f.bound = [k \in Tokens |-> IF d.bound[k] # NoPeer THEN d.bound[k] ELSE m.bound[k]]
    <2>1. f.bound = [k \in DOMAIN m.bound |-> IF d.bound[k] # NoPeer THEN d.bound[k] ELSE m.bound[k]]
      BY DEF Merge
    <2>2. DOMAIN m.bound = Tokens BY DEF Formed
    <2> QED BY <2>1, <2>2
  <1>8. /\ f.awaiting = [t \in Tickets |-> f.awaiting[t]]
        /\ \A t \in Tickets : f.awaiting[t] =
             IF \/ t \in d.cancelled \cup m.cancelled
                \/ waiting(t) # NoPeer /\ f.pairedBy[waiting(t)] = t
             THEN NoPeer ELSE waiting(t)
    <2> DEFINE over == [t \in DOMAIN d.awaiting |->
                          IF m.awaiting[t] # NoPeer THEN m.awaiting[t] ELSE d.awaiting[t]]
    <2>1. f.awaiting = [t \in Tickets |->
             IF \/ t \in d.cancelled \cup m.cancelled
                \/ over[t] # NoPeer /\ f.pairedBy[over[t]] = t
             THEN NoPeer ELSE over[t]]
      BY DEF Merge
    <2>2. DOMAIN d.awaiting = Tickets BY DEF Formed
    <2>3. \A t \in Tickets : over[t] = waiting(t) BY <2>2
    <2> HIDE DEF over, f
    <2> QED BY <2>1, <2>3
  <1> HIDE DEF f
  <1>9. \A p \in Peers :
                 /\ f.version[p] \in Nat
                 /\ d.version[p] <= f.version[p] /\ m.version[p] <= f.version[p]
    BY <1>1, <1>4
  <1>10. \A p \in Peers :
                 /\ f.peers[p] \in {m.peers[p], d.peers[p]}
                 /\ f.certs[p] \in {m.certs[p], d.certs[p]}
    BY <1>3, <1>6
  <1>11. \A p \in Peers :
            \/ m.version[p] >= d.version[p] /\ f.pairedBy[p] = m.pairedBy[p]
            \/ ~(m.version[p] > d.version[p]) /\ f.pairedBy[p] = d.pairedBy[p]
    BY <1>1, <1>5
  <1>12. \A t \in Tickets :
            /\ f.awaiting[t] \in {NoPeer, waiting(t)}
            /\ f.awaiting[t] = NoPeer => \/ t \in d.cancelled \cup m.cancelled
                                         \/ waiting(t) = NoPeer \/ f.pairedBy[waiting(t)] = t
    BY <1>8
  <1>13. Formed(f)
    <2>1. f.version \in [Peers -> Nat] BY <1>4, <1>9
    <2>2. f.revoked \subseteq Tokens BY <1>2 DEF Formed
    <2>3. /\ f.peers = [p \in Peers |-> f.peers[p]] /\ f.certs = [p \in Peers |-> f.certs[p]]
          /\ f.pairedBy = [p \in Peers |-> f.pairedBy[p]]
          /\ f.bound = [k \in Tokens |-> f.bound[k]]
      BY <1>3, <1>5, <1>6, <1>7
    <2> QED BY <1>2, <1>8, <2>1, <2>2, <2>3 DEF Formed
  <1>14. \A k \in Tokens : f.bound[k] = IF d.bound[k] # NoPeer THEN d.bound[k] ELSE m.bound[k]
    BY <1>7
  <1> QED BY <1>2, <1>9, <1>10, <1>11, <1>12, <1>13, <1>14 DEF f

(* prune_expired and remove_revoked_guests touch guests and certificates    *)
(* only, and leave none that is revoked.                                    *)
LEMMA PrunedFields ==
    ASSUME NEW f, Formed(f)
    PROVE  LET g == WithoutRevoked(Pruned(f)) IN
           /\ Formed(g)
           /\ g.version = f.version /\ g.pairedBy = f.pairedBy /\ g.awaiting = f.awaiting
           /\ g.pending = f.pending /\ g.used = f.used /\ g.cancelled = f.cancelled
           /\ g.bound = f.bound /\ g.revoked = f.revoked
           /\ \A p \in Peers : /\ g.peers[p] \in {Absent, f.peers[p]} /\ g.certs[p] \in {NoToken, f.certs[p]}
                               /\ g.peers[p] \notin g.revoked /\ g.certs[p] \notin g.revoked
  <1> DEFINE e == Pruned(f)
             g == WithoutRevoked(e)
  <1>1. /\ Fields \subseteq DOMAIN e
        /\ e.version = f.version /\ e.pairedBy = f.pairedBy /\ e.awaiting = f.awaiting
        /\ e.pending = f.pending /\ e.used = f.used /\ e.cancelled = f.cancelled
        /\ e.bound = f.bound /\ e.revoked = f.revoked /\ e.peers = f.peers
        /\ e.certs = [p \in Peers |-> IF f.certs[p] \in lapsed THEN NoToken ELSE f.certs[p]]
    BY DEF Pruned, Formed, Fields
  <1> HIDE DEF e
  <1>2. /\ Fields \subseteq DOMAIN g
        /\ g.version = e.version /\ g.pairedBy = e.pairedBy /\ g.awaiting = e.awaiting
        /\ g.pending = e.pending /\ g.used = e.used /\ g.cancelled = e.cancelled
        /\ g.bound = e.bound /\ g.revoked = e.revoked
        /\ g.peers = [p \in Peers |-> IF Denied(e, e.peers[p], p) THEN Absent ELSE e.peers[p]]
        /\ g.certs = [p \in Peers |-> IF Denied(e, e.certs[p], p) THEN NoToken ELSE e.certs[p]]
    BY <1>1 DEF WithoutRevoked, Fields
  <1>3. \A k, p : ~Denied(e, k, p) => k \notin e.revoked BY DEF Denied
  <1> HIDE DEF g
  <1>4. e.revoked \subseteq Tokens /\ Absent \notin Tokens /\ NoToken \notin Tokens
    BY <1>1, TrustAssumption DEF Formed
  <1>5. \A p \in Peers : /\ g.peers[p] \in {Absent, f.peers[p]} /\ g.peers[p] \notin g.revoked
    BY <1>1, <1>2, <1>3, <1>4
  <1>6. \A p \in Peers : /\ g.certs[p] \in {NoToken, f.certs[p]} /\ g.certs[p] \notin g.revoked
    BY <1>1, <1>2, <1>3, <1>4
  <1>7. Formed(g) BY <1>1, <1>2, <1>4 DEF Formed
  <1> QED BY <1>1, <1>2, <1>5, <1>6, <1>7 DEF g, e

(* File n is what a save of copy m leaves of file d.                        *)
Blend(n, m, d) ==
    /\ Formed(n)
    /\ n.used = d.used \cup m.used /\ n.cancelled = d.cancelled \cup m.cancelled
    /\ n.pending = (d.pending \cup m.pending) \ (d.used \cup m.used)
    /\ \A p \in Peers :
          /\ n.peers[p] \notin n.revoked /\ n.certs[p] \notin n.revoked
          /\ d.version[p] <= n.version[p] /\ m.version[p] <= n.version[p]
          /\ n.peers[p] \in {Absent, m.peers[p], d.peers[p]}
          /\ \/ m.version[p] >= d.version[p] /\ n.pairedBy[p] = m.pairedBy[p]
             \/ ~(m.version[p] > d.version[p]) /\ n.pairedBy[p] = d.pairedBy[p]
    /\ \A t \in Tickets :
          LET w == IF m.awaiting[t] # NoPeer THEN m.awaiting[t] ELSE d.awaiting[t]
          IN /\ n.awaiting[t] \in {NoPeer, w}
             /\ n.awaiting[t] = NoPeer => \/ t \in d.cancelled \cup m.cancelled
                                          \/ w = NoPeer \/ n.pairedBy[w] = t
    /\ \A k \in Tokens : n.bound[k] = IF d.bound[k] # NoPeer THEN d.bound[k] ELSE m.bound[k]

(* What a save writes is such a file.                                       *)
LEMMA SavedFields ==
    ASSUME NEW m, NEW d, Formed(m), Formed(d)
    PROVE  Blend(Saved(m, d), m, d)
  <1> DEFINE e == Merge(m, d)
             f == Saved(m, d)
  <1>1. f = WithoutRevoked(Pruned(e)) BY DEF Saved
  <1>2. Formed(e) BY MergedFields
  <1>a. /\ e.pending = (d.pending \cup m.pending) \ (d.used \cup m.used)
        /\ \A p \in Peers : /\ d.version[p] <= e.version[p] /\ m.version[p] <= e.version[p]
                            /\ e.peers[p] \in {m.peers[p], d.peers[p]}
    BY MergedFields
  <1>b. \A p \in Peers :
                 \/ m.version[p] >= d.version[p] /\ e.pairedBy[p] = m.pairedBy[p]
                 \/ ~(m.version[p] > d.version[p]) /\ e.pairedBy[p] = d.pairedBy[p]
    BY MergedFields
  <1>c. \A t \in Tickets :
                 LET w == IF m.awaiting[t] # NoPeer THEN m.awaiting[t] ELSE d.awaiting[t]
                 IN /\ e.awaiting[t] \in {NoPeer, w}
                    /\ e.awaiting[t] = NoPeer => \/ t \in d.cancelled \cup m.cancelled
                                                 \/ w = NoPeer \/ e.pairedBy[w] = t
    BY MergedFields
  <1>d. \A k \in Tokens : e.bound[k] = IF d.bound[k] # NoPeer THEN d.bound[k] ELSE m.bound[k]
    BY MergedFields
  <1>3. f.used = d.used \cup m.used /\ f.cancelled = d.cancelled \cup m.cancelled
    BY SaveGrows
  <1> HIDE DEF e, f
  <1>4. /\ Formed(f) /\ f.version = e.version /\ f.pairedBy = e.pairedBy
        /\ f.awaiting = e.awaiting /\ f.pending = e.pending /\ f.bound = e.bound
        /\ \A p \in Peers : /\ f.peers[p] \in {Absent, e.peers[p]}
                            /\ f.peers[p] \notin f.revoked /\ f.certs[p] \notin f.revoked
    BY <1>1, <1>2, PrunedFields
  <1>5. \A p \in Peers : /\ d.version[p] <= f.version[p] /\ m.version[p] <= f.version[p]
                         /\ f.peers[p] \in {Absent, m.peers[p], d.peers[p]}
    BY <1>a, <1>4
  <1> QED BY <1>3, <1>4, <1>5, <1>a, <1>b, <1>c, <1>d DEF f, Blend

(* Copy f is no newer than file d: what pairs or waits in it is used up in  *)
(* d by the peer who[t], and no confirmation still owed (ow) or ticket from *)
(* before a removal (st) could pair anybody by saving f.                    *)
Follows(f, d, st, ow, who) ==
    /\ \A p \in Peers :
          /\ f.version[p] <= d.version[p]
          /\ f.pairedBy[p] \in Tickets => f.pairedBy[p] \in d.used /\ who[f.pairedBy[p]] = p
          /\ f.pairedBy[p] \in st[p] => f.version[p] < d.version[p]
          /\ <<f.pairedBy[p], p>> \notin ow
    /\ \A t \in Tickets :
          /\ t \in f.pending => t \in d.pending \cup d.used
          /\ f.awaiting[t] # NoPeer => t \in d.used /\ who[t] = f.awaiting[t]
          /\ <<t, f.awaiting[t]>> \in ow => t \in d.cancelled \/ d.awaiting[t] = f.awaiting[t]

(* Saving f over d takes p's pairing out, and with it every ticket that     *)
(* could bring p back.                                                      *)
TakesOut(f, d, p, ow) ==
    /\ f.pairedBy[p] = NoTicket
    /\ \A t \in Tickets :
          /\ t \in d.pending \cup f.pending => t \in f.used
          /\ f.awaiting[t] # p
          /\ d.awaiting[t] = p /\ <<t, p>> \in ow => t \in f.cancelled \cup d.cancelled

(* Copy f may be saved over d: it may use tickets that d does not yet, each *)
(* for the peer who[t], or take peers out.                                  *)
Leads(f, d, st, ow, who) ==
    /\ \A p \in Peers :
          /\ f.pairedBy[p] \in Tickets => f.pairedBy[p] \in f.used \cup d.used /\ who[f.pairedBy[p]] = p
          /\ f.pairedBy[p] \in st[p] => f.version[p] < d.version[p]
          /\ <<f.pairedBy[p], p>> \notin ow
          /\ f.peers[p] = Absent /\ f.version[p] > d.version[p] => TakesOut(f, d, p, ow)
    /\ \A t \in Tickets :
          /\ f.awaiting[t] # NoPeer => t \in f.used \cup d.used /\ who[t] = f.awaiting[t]
          /\ \A p \in Peers : t \in st[p] =>
                /\ t \in f.pending => t \in f.used \cup d.used
                /\ f.awaiting[t] = p /\ <<t, p>> \in ow => t \in f.cancelled \cup d.cancelled

(* The tickets on record: what was minted before a removal is neither       *)
(* pending nor confirmed, and every ticket admitted only who[t].            *)
Ledger(d, st, ow, mi, th, who) ==
    /\ mi \subseteq Tickets /\ ow \subseteq Tickets \X Peers /\ (AutoConfirm => ow = {})
    /\ th \subseteq (Tickets \cup Tokens) \X Peers
    /\ \A p \in Peers : st[p] \subseteq mi
    /\ \A p \in Peers, t \in Tickets :
          /\ t \in st[p] => /\ t \notin d.pending
                            /\ d.awaiting[t] = p /\ <<t, p>> \in ow => t \in d.cancelled
          /\ <<t, p>> \in th => t \in d.used /\ who[t] = p

(* Copy f binds tokens only as file d does, and to the guest tok[k].        *)
Behind(f, d, tok) ==
    /\ \A p \in Peers : f.peers[p] \in Tokens =>
          /\ tok[f.peers[p]] = p
          /\ Issuer[f.peers[p]] = Self => d.bound[f.peers[p]] = p
    /\ \A k \in Tokens : f.bound[k] # NoPeer => tok[k] = f.bound[k] /\ d.bound[k] = f.bound[k]

(* Copy f may bind tokens of this device that d does not bind yet.          *)
Binds(f, d, tok) ==
    /\ \A p \in Peers : f.peers[p] \in Tokens =>
          /\ tok[f.peers[p]] = p
          /\ Issuer[f.peers[p]] = Self => p \in {f.bound[f.peers[p]], d.bound[f.peers[p]]}
    /\ \A k \in Tokens : f.bound[k] # NoPeer => tok[k] = f.bound[k]

(* The tokens on record: another issuer's is for its bearer, and every      *)
(* token bound only tok[k].                                                 *)
Register(d, th, tok) ==
    /\ \A k \in Tokens : Issuer[k] # Self => tok[k] = Bearer[k]
    /\ \A p \in Peers, k \in Tokens : <<k, p>> \in th =>
          tok[k] = p /\ (Issuer[k] = Self => d.bound[k] = p)

\* What a save of copy m over file d makes of the tickets p may not come back by.
Marks(s2, st, m, d, mi) ==
    \A p \in Peers : s2[p] = IF m.peers[p] = Absent /\ m.version[p] > d.version[p]
                             THEN mi ELSE st[p]

(* Whatever follows the file may be saved over it.                          *)
LEMMA FollowersLead ==
    ASSUME NEW f, NEW d, NEW st, NEW ow, NEW mi, NEW th, NEW who, Formed(f), Formed(d),
           Follows(f, d, st, ow, who), Ledger(d, st, ow, mi, th, who)
    PROVE  Leads(f, d, st, ow, who)
  <1>1. \A p \in Peers : f.version[p] \in Nat /\ d.version[p] \in Nat BY DEF Formed
  <1>2. ASSUME NEW p \in Peers
        PROVE  /\ f.pairedBy[p] \in Tickets => f.pairedBy[p] \in f.used \cup d.used /\ who[f.pairedBy[p]] = p
               /\ f.pairedBy[p] \in st[p] => f.version[p] < d.version[p]
               /\ <<f.pairedBy[p], p>> \notin ow
               /\ f.peers[p] = Absent /\ f.version[p] > d.version[p] => TakesOut(f, d, p, ow)
    BY <1>1 DEF Follows
  <1>3. ASSUME NEW t \in Tickets
        PROVE  /\ f.awaiting[t] # NoPeer => t \in f.used \cup d.used /\ who[t] = f.awaiting[t]
               /\ \A p \in Peers : t \in st[p] =>
                     /\ t \in f.pending => t \in f.used \cup d.used
                     /\ f.awaiting[t] = p /\ <<t, p>> \in ow => t \in f.cancelled \cup d.cancelled
    BY DEF Follows, Ledger
  <1> QED BY <1>2, <1>3 DEF Leads

(* A save of a copy that leads leaves the ledger in order, and every file   *)
(* that followed the old one, the copy and the new file itself follow the   *)
(* new one.                                                                 *)
LEMMA SaveTickets ==
    ASSUME NEW m, NEW d, NEW n, NEW st, NEW s2, NEW ow, NEW mi, NEW th, NEW h2, NEW who,
           Formed(m), Formed(d), Blend(n, m, d),
           Follows(d, d, st, ow, who), Leads(m, d, st, ow, who), Ledger(d, st, ow, mi, th, who),
           Marks(s2, st, m, d, mi),
           h2 = th \cup Admitted(n)
    PROVE  /\ Ledger(n, s2, ow, mi, h2, who)
           /\ Follows(n, n, s2, ow, who)
           /\ Follows(m, n, s2, ow, who)
           /\ \A f : Formed(f) /\ Follows(f, d, st, ow, who) => Follows(f, n, s2, ow, who)
  <1> DEFINE out(p) == m.peers[p] = Absent /\ m.version[p] > d.version[p]
             w(t)   == IF m.awaiting[t] # NoPeer THEN m.awaiting[t] ELSE d.awaiting[t]
  <1>0. \A p \in Peers : s2[p] = IF out(p) THEN mi ELSE st[p] BY DEF Marks
  <1>1. \A p \in Peers : /\ m.version[p] \in Nat /\ d.version[p] \in Nat /\ n.version[p] \in Nat
                         /\ d.version[p] <= n.version[p] /\ m.version[p] <= n.version[p]
    BY DEF Blend, Formed
  <1>2. /\ mi \subseteq Tickets /\ ow \subseteq Tickets \X Peers
        /\ NoTicket \notin Tickets /\ NoPeer \notin Peers
    BY TrustAssumption DEF Ledger, AllTickets
  <1>3. /\ n.used = d.used \cup m.used /\ n.cancelled = d.cancelled \cup m.cancelled
        /\ n.pending = (d.pending \cup m.pending) \ (d.used \cup m.used)
    BY DEF Blend
  <1>4. \A p \in Peers : \/ m.version[p] >= d.version[p] /\ n.pairedBy[p] = m.pairedBy[p]
                         \/ ~(m.version[p] > d.version[p]) /\ n.pairedBy[p] = d.pairedBy[p]
    BY DEF Blend
  <1>5. \A p \in Peers : <<m.pairedBy[p], p>> \notin ow /\ <<d.pairedBy[p], p>> \notin ow
    BY DEF Leads, Follows
  <1>6. \A p \in Peers : <<n.pairedBy[p], p>> \notin ow BY <1>4, <1>5
  <1>7. \A t \in Tickets : w(t) # NoPeer => t \in n.used /\ who[t] = w(t)
    BY <1>3 DEF Leads, Follows
  <1>8. ASSUME NEW t \in Tickets, w(t) \in Peers, <<t, w(t)>> \in ow
        PROVE  t \in n.cancelled \/ n.awaiting[t] = w(t)
    <2>1. n.awaiting[t] = NoPeer => t \in n.cancelled \/ w(t) = NoPeer \/ n.pairedBy[w(t)] = t
      BY <1>3 DEF Blend
    <2>2. n.pairedBy[w(t)] # t BY <1>6, <1>8
    <2>3. w(t) # NoPeer BY <1>2, <1>8
    <2>4. n.awaiting[t] \in {NoPeer, w(t)} BY DEF Blend
    <2> HIDE DEF w
    <2> QED BY <2>1, <2>2, <2>3, <2>4
  <1>9. \A t \in Tickets : n.awaiting[t] \in {NoPeer, m.awaiting[t], d.awaiting[t]}
    BY DEF Blend
  <1>10. ASSUME NEW t \in Tickets, NEW p \in Peers, <<t, p>> \in ow,
                m.awaiting[t] = p \/ d.awaiting[t] = p
         PROVE  t \in n.cancelled \/ n.awaiting[t] = p
    <2>1. d.awaiting[t] # NoPeer => who[t] = d.awaiting[t] BY DEF Follows
    <2>2. m.awaiting[t] # NoPeer => who[t] = m.awaiting[t] BY DEF Leads
    <2>3. w(t) = p BY <1>2, <1>10, <2>1, <2>2
    <2> QED BY <1>8, <1>10, <2>3
  <1>11. ASSUME NEW p \in Peers, out(p)
         PROVE  /\ m.pairedBy[p] = NoTicket /\ n.pairedBy[p] = NoTicket
                /\ \A t \in Tickets : /\ t \notin n.pending /\ m.awaiting[t] # p
                                      /\ d.awaiting[t] = p /\ <<t, p>> \in ow => t \in n.cancelled
    <2>1. TakesOut(m, d, p, ow) BY <1>11 DEF Leads
    <2>2. n.pairedBy[p] = m.pairedBy[p] BY <1>4, <1>11
    <2>3. \A t \in Tickets : t \notin n.pending BY <1>3, <2>1 DEF TakesOut
    <2> QED BY <1>3, <2>1, <2>2, <2>3 DEF TakesOut
  <1>12. ASSUME NEW f, Formed(f), Follows(f, d, st, ow, who) PROVE Follows(f, n, s2, ow, who)
    <2>1. ASSUME NEW p \in Peers
          PROVE  /\ f.version[p] <= n.version[p]
                 /\ f.pairedBy[p] \in Tickets => f.pairedBy[p] \in n.used /\ who[f.pairedBy[p]] = p
                 /\ f.pairedBy[p] \in s2[p] => f.version[p] < n.version[p]
                 /\ <<f.pairedBy[p], p>> \notin ow
      <3>1. /\ f.version[p] \in Nat /\ f.version[p] <= d.version[p]
            /\ f.pairedBy[p] \in st[p] => f.version[p] < d.version[p]
            /\ f.pairedBy[p] \in Tickets => f.pairedBy[p] \in d.used /\ who[f.pairedBy[p]] = p
            /\ <<f.pairedBy[p], p>> \notin ow
        BY <1>12 DEF Follows, Formed
      <3>2. f.pairedBy[p] \in s2[p] => f.version[p] < n.version[p]
        <4>1. CASE out(p) BY <1>0, <1>1, <3>1, <4>1
        <4>2. CASE ~out(p) BY <1>0, <1>1, <3>1, <4>2
        <4> QED BY <4>1, <4>2
      <3> QED BY <1>1, <1>3, <3>1, <3>2
    <2>2. ASSUME NEW t \in Tickets
          PROVE  /\ t \in f.pending => t \in n.pending \cup n.used
                 /\ f.awaiting[t] # NoPeer => t \in n.used /\ who[t] = f.awaiting[t]
                 /\ <<t, f.awaiting[t]>> \in ow => t \in n.cancelled \/ n.awaiting[t] = f.awaiting[t]
      <3>1. t \in f.pending => t \in n.pending \cup n.used BY <1>3, <1>12 DEF Follows
      <3>2. f.awaiting[t] # NoPeer => t \in n.used /\ who[t] = f.awaiting[t]
        BY <1>3, <1>12 DEF Follows
      <3>3. <<t, f.awaiting[t]>> \in ow => t \in d.cancelled \/ d.awaiting[t] = f.awaiting[t]
        BY <1>12 DEF Follows
      <3>4. <<t, f.awaiting[t]>> \in ow => f.awaiting[t] \in Peers BY <1>2
      <3> QED BY <1>3, <1>10, <3>1, <3>2, <3>3, <3>4
    <2> QED BY <2>1, <2>2 DEF Follows
  <1>13. Follows(m, n, s2, ow, who)
    <2>1. ASSUME NEW p \in Peers
          PROVE  /\ m.version[p] <= n.version[p]
                 /\ m.pairedBy[p] \in Tickets => m.pairedBy[p] \in n.used /\ who[m.pairedBy[p]] = p
                 /\ m.pairedBy[p] \in s2[p] => m.version[p] < n.version[p]
                 /\ <<m.pairedBy[p], p>> \notin ow
      <3>1. /\ m.pairedBy[p] \in st[p] => m.version[p] < d.version[p]
            /\ m.pairedBy[p] \in Tickets => m.pairedBy[p] \in m.used \cup d.used /\ who[m.pairedBy[p]] = p
        BY DEF Leads
      <3>2. m.pairedBy[p] \in s2[p] => m.version[p] < n.version[p]
        <4>1. CASE out(p) BY <1>0, <1>2, <1>11, <4>1
        <4>2. CASE ~out(p) BY <1>0, <1>1, <3>1, <4>2
        <4> QED BY <4>1, <4>2
      <3> QED BY <1>1, <1>3, <1>5, <3>1, <3>2
    <2>2. ASSUME NEW t \in Tickets
          PROVE  /\ t \in m.pending => t \in n.pending \cup n.used
                 /\ m.awaiting[t] # NoPeer => t \in n.used /\ who[t] = m.awaiting[t]
                 /\ <<t, m.awaiting[t]>> \in ow => t \in n.cancelled \/ n.awaiting[t] = m.awaiting[t]
      <3>1. m.awaiting[t] # NoPeer => t \in n.used /\ who[t] = m.awaiting[t]
        BY <1>3 DEF Leads
      <3>2. <<t, m.awaiting[t]>> \in ow => m.awaiting[t] \in Peers BY <1>2
      <3> QED BY <1>3, <1>10, <3>1, <3>2
    <2> QED BY <2>1, <2>2 DEF Follows
  <1>14. Follows(n, n, s2, ow, who)
    <2>1. ASSUME NEW p \in Peers
          PROVE  /\ n.pairedBy[p] \in Tickets => n.pairedBy[p] \in n.used /\ who[n.pairedBy[p]] = p
                 /\ n.pairedBy[p] \notin s2[p]
      <3>1. /\ m.pairedBy[p] \in Tickets => m.pairedBy[p] \in m.used \cup d.used /\ who[m.pairedBy[p]] = p
            /\ d.pairedBy[p] \in Tickets => d.pairedBy[p] \in d.used /\ who[d.pairedBy[p]] = p
        BY DEF Leads, Follows
      <3>2. d.pairedBy[p] \notin st[p]
        <4>1. d.version[p] \in Nat BY <1>1
        <4>2. ~(d.version[p] < d.version[p]) BY <4>1
        <4>3. d.pairedBy[p] \in st[p] => d.version[p] < d.version[p] BY DEF Follows
        <4> QED BY <4>2, <4>3
      <3>3. n.pairedBy[p] \notin s2[p]
        <4>1. CASE out(p) BY <1>0, <1>2, <1>11, <4>1
        <4>2. CASE ~out(p)
          <5>1. m.pairedBy[p] \in st[p] => m.version[p] < d.version[p] BY DEF Leads
          <5> QED BY <1>0, <1>1, <1>4, <3>2, <4>2, <5>1
        <4> QED BY <4>1, <4>2
      <3> QED BY <1>3, <1>4, <3>1, <3>3
    <2>2. \A t \in Tickets : n.awaiting[t] # NoPeer => t \in n.used /\ who[t] = n.awaiting[t]
      <3>1. \A t \in Tickets : n.awaiting[t] \in {NoPeer, w(t)} BY DEF Blend
      <3> HIDE DEF w
      <3> QED BY <1>7, <3>1
    <2> QED BY <1>1, <1>6, <2>1, <2>2 DEF Follows
  <1>15. Ledger(n, s2, ow, mi, h2, who)
    <2>1. \A p \in Peers : s2[p] \subseteq mi BY <1>0 DEF Ledger
    <2>2. ASSUME NEW p \in Peers, NEW t \in Tickets, t \in s2[p]
          PROVE  /\ t \notin n.pending
                 /\ n.awaiting[t] = p /\ <<t, p>> \in ow => t \in n.cancelled
      <3>1. CASE out(p) BY <1>0, <1>2, <1>9, <1>11, <3>1
      <3>2. CASE ~out(p)
        <4>1. t \in st[p] BY <1>0, <2>2, <3>2
        <4>2. /\ t \notin d.pending
              /\ d.awaiting[t] = p /\ <<t, p>> \in ow => t \in d.cancelled
          BY <4>1 DEF Ledger
        <4>3. /\ t \in m.pending => t \in m.used \cup d.used
              /\ m.awaiting[t] = p /\ <<t, p>> \in ow => t \in m.cancelled \cup d.cancelled
          BY <4>1 DEF Leads
        <4> QED BY <1>2, <1>3, <1>9, <4>2, <4>3
      <3> QED BY <3>1, <3>2
    <2>3. ASSUME NEW p \in Peers, NEW t \in Tickets, <<t, p>> \in h2
          PROVE  t \in n.used /\ who[t] = p
      <3>1. CASE <<t, p>> \in th BY <1>3, <3>1 DEF Ledger
      <3>2. CASE <<t, p>> \in Admitted(n)
        <4>1. t \notin Tokens BY TrustAssumption
        <4>2. n.pairedBy[p] = t BY <3>2, <4>1 DEF Admitted
        <4> QED BY <1>14, <4>2 DEF Follows
      <3> QED BY <2>3, <3>1, <3>2
    <2>4. h2 \subseteq (Tickets \cup Tokens) \X Peers
      <3>1. th \subseteq (Tickets \cup Tokens) \X Peers BY DEF Ledger
      <3>2. Admitted(n) \subseteq (Tickets \cup Tokens) \X Peers BY DEF Admitted
      <3> QED BY <3>1, <3>2
    <2>5. AutoConfirm => ow = {} BY DEF Ledger
    <2> QED BY <1>2, <2>1, <2>2, <2>3, <2>4, <2>5 DEF Ledger
  <1> QED BY <1>12, <1>13, <1>14, <1>15

(* A save of a copy that only follows removes nobody, and leaves the copy   *)
(* of a pairing under way as far ahead as it was.                           *)
LEMMA SaveLeads ==
    ASSUME NEW m, NEW d, NEW n, NEW f, NEW st, NEW s2, NEW ow, NEW mi, NEW who,
           Formed(f), Formed(m), Formed(d), Blend(n, m, d), Follows(m, d, st, ow, who),
           Leads(f, d, st, ow, who), ow \subseteq Tickets \X Peers,
           Marks(s2, st, m, d, mi)
    PROVE  Leads(f, n, s2, ow, who)
  <1>1. \A p \in Peers : /\ m.version[p] \in Nat /\ d.version[p] \in Nat /\ n.version[p] \in Nat
                         /\ f.version[p] \in Nat
                         /\ d.version[p] <= n.version[p] /\ m.version[p] <= d.version[p]
    <2>1. Formed(n) /\ \A p \in Peers : d.version[p] <= n.version[p] BY DEF Blend
    <2>2. \A p \in Peers : m.version[p] <= d.version[p] BY DEF Follows
    <2> QED BY <2>1, <2>2 DEF Formed
  <1>2. \A p \in Peers : s2[p] = st[p] BY <1>1 DEF Marks
  <1>3. /\ n.used = d.used \cup m.used /\ n.cancelled = d.cancelled \cup m.cancelled
        /\ n.pending = (d.pending \cup m.pending) \ (d.used \cup m.used)
    BY DEF Blend
  <1>4. \A t \in Tickets : /\ t \in n.pending => t \in d.pending
                           /\ n.awaiting[t] \in {NoPeer, m.awaiting[t], d.awaiting[t]}
    BY <1>3 DEF Follows, Blend
  <1>5. ASSUME NEW p \in Peers
        PROVE  /\ f.pairedBy[p] \in Tickets => f.pairedBy[p] \in f.used \cup n.used /\ who[f.pairedBy[p]] = p
               /\ f.pairedBy[p] \in s2[p] => f.version[p] < n.version[p]
               /\ <<f.pairedBy[p], p>> \notin ow
               /\ f.peers[p] = Absent /\ f.version[p] > n.version[p] => TakesOut(f, n, p, ow)
    <2>1. /\ f.pairedBy[p] \in Tickets => f.pairedBy[p] \in f.used \cup n.used /\ who[f.pairedBy[p]] = p
          /\ <<f.pairedBy[p], p>> \notin ow
      BY <1>3 DEF Leads
    <2>2. f.pairedBy[p] \in st[p] => f.version[p] < d.version[p] BY DEF Leads
    <2>3. ASSUME f.peers[p] = Absent, f.version[p] > n.version[p] PROVE TakesOut(f, n, p, ow)
      <3>1. f.version[p] > d.version[p] BY <1>1, <2>3
      <3>2. TakesOut(f, d, p, ow) BY <2>3, <3>1 DEF Leads
      <3>3. \A t \in Tickets : n.awaiting[t] = p /\ <<t, p>> \in ow => t \in f.cancelled \cup n.cancelled
        <4> SUFFICES ASSUME NEW t \in Tickets, n.awaiting[t] = p, <<t, p>> \in ow
                     PROVE  t \in f.cancelled \cup n.cancelled
          OBVIOUS
        <4>1. p # NoPeer BY TrustAssumption
        <4>2. CASE d.awaiting[t] = p BY <1>3, <3>2, <4>2 DEF TakesOut
        <4>3. CASE m.awaiting[t] = p
          <5>1. t \in d.cancelled \/ d.awaiting[t] = p BY <4>3 DEF Follows
          <5> QED BY <1>3, <4>2, <5>1
        <4> QED BY <1>4, <4>1, <4>2, <4>3
      <3> QED BY <1>4, <3>2, <3>3 DEF TakesOut
    <2> QED BY <1>1, <1>2, <2>1, <2>2, <2>3
  <1>6. ASSUME NEW t \in Tickets
        PROVE  /\ f.awaiting[t] # NoPeer => t \in f.used \cup n.used /\ who[t] = f.awaiting[t]
               /\ \A p \in Peers : t \in s2[p] =>
                     /\ t \in f.pending => t \in f.used \cup n.used
                     /\ f.awaiting[t] = p /\ <<t, p>> \in ow => t \in f.cancelled \cup n.cancelled
    BY <1>2, <1>3 DEF Leads
  <1> QED BY <1>5, <1>6 DEF Leads

(* The same for tokens: once a token is bound in the file it stays so.      *)
LEMMA SaveTokens ==
    ASSUME NEW m, NEW d, NEW n, NEW th, NEW h2, NEW tok,
           Blend(n, m, d), Behind(d, d, tok), Binds(m, d, tok), Register(d, th, tok),
           h2 = th \cup Admitted(n)
    PROVE  /\ Register(n, h2, tok) /\ Behind(n, n, tok) /\ Behind(m, n, tok)
           /\ \A f : Behind(f, d, tok) => Behind(f, n, tok)
           /\ \A f : Binds(f, d, tok) => Binds(f, n, tok)
  <1>1. \A k \in Tokens : n.bound[k] = IF d.bound[k] # NoPeer THEN d.bound[k] ELSE m.bound[k]
    BY DEF Blend
  <1>2. /\ \A k \in Tokens : d.bound[k] # NoPeer => n.bound[k] = d.bound[k] /\ tok[k] = d.bound[k]
        /\ \A k \in Tokens : m.bound[k] # NoPeer => n.bound[k] = m.bound[k] /\ tok[k] = m.bound[k]
    BY <1>1 DEF Behind, Binds
  <1>3. NoPeer \notin Peers /\ Absent \notin Tokens BY TrustAssumption
  <1>4. ASSUME NEW f, Behind(f, d, tok) PROVE Behind(f, n, tok)
    <2>1. ASSUME NEW p \in Peers, f.peers[p] \in Tokens
          PROVE  tok[f.peers[p]] = p /\ (Issuer[f.peers[p]] = Self => n.bound[f.peers[p]] = p)
      BY <1>2, <1>3, <1>4, <2>1 DEF Behind
    <2>2. ASSUME NEW k \in Tokens, f.bound[k] # NoPeer
          PROVE  tok[k] = f.bound[k] /\ n.bound[k] = f.bound[k]
      BY <1>2, <1>4, <2>2 DEF Behind
    <2> QED BY <2>1, <2>2 DEF Behind
  <1>5. ASSUME NEW f, Binds(f, d, tok) PROVE Binds(f, n, tok)
    <2>1. ASSUME NEW p \in Peers, f.peers[p] \in Tokens
          PROVE  /\ tok[f.peers[p]] = p
                 /\ Issuer[f.peers[p]] = Self => p \in {f.bound[f.peers[p]], n.bound[f.peers[p]]}
      BY <1>2, <1>3, <1>5, <2>1 DEF Binds
    <2> QED BY <1>5, <2>1 DEF Binds
  <1>6. Behind(m, n, tok)
    <2>1. ASSUME NEW p \in Peers, m.peers[p] \in Tokens
          PROVE  tok[m.peers[p]] = p /\ (Issuer[m.peers[p]] = Self => n.bound[m.peers[p]] = p)
      BY <1>2, <1>3, <2>1 DEF Binds
    <2> QED BY <1>2, <2>1 DEF Behind
  <1>7. Behind(n, n, tok)
    <2>1. ASSUME NEW p \in Peers, n.peers[p] \in Tokens
          PROVE  tok[n.peers[p]] = p /\ (Issuer[n.peers[p]] = Self => n.bound[n.peers[p]] = p)
      <3>1. n.peers[p] \in {m.peers[p], d.peers[p]} BY <1>3, <2>1 DEF Blend
      <3>2. Behind(d, n, tok) BY <1>4
      <3>3. CASE n.peers[p] = m.peers[p] BY <1>6, <2>1, <3>3 DEF Behind
      <3>4. CASE n.peers[p] = d.peers[p] BY <2>1, <3>2, <3>4 DEF Behind
      <3> QED BY <3>1, <3>3, <3>4
    <2>2. ASSUME NEW k \in Tokens, n.bound[k] # NoPeer PROVE tok[k] = n.bound[k]
      BY <1>1, <1>2, <2>2
    <2> QED BY <2>1, <2>2 DEF Behind
  <1>8. Register(n, h2, tok)
    <2>1. ASSUME NEW p \in Peers, NEW k \in Tokens, <<k, p>> \in h2
          PROVE  tok[k] = p /\ (Issuer[k] = Self => n.bound[k] = p)
      <3>1. CASE <<k, p>> \in th BY <1>2, <1>3, <3>1 DEF Register
      <3>2. CASE <<k, p>> \in Admitted(n)
        <4>1. k \notin Tickets BY TrustAssumption
        <4>2. n.peers[p] = k BY <3>2, <4>1 DEF Admitted
        <4> QED BY <1>7, <4>2 DEF Behind
      <3> QED BY <2>1, <3>1, <3>2
    <2> QED BY <2>1 DEF Register
  <1> QED BY <1>4, <1>5, <1>6, <1>7, <1>8

-----------------------------------------------------------------------------
(* The file, the copies of sessions and the copies to be saved, with a peer *)
(* who[t] for each ticket and tok[k] for each token.  Only an operation     *)
(* that holds the lock of pairings (or of bindings) may be ahead of it.     *)
Sound(f, d, st, ow, who, tok) ==
    Formed(f) /\ Follows(f, d, st, ow, who) /\ Behind(f, d, tok)

(* The copies an operation is to save.                                      *)
Underway(o, d, st, ow, who, tok) ==
    LET todo == o.copies IN
    /\ \A i \in DOMAIN todo : /\ Formed(todo[i]) /\ Binds(todo[i], d, tok)
                              /\ Leads(todo[i], d, st, ow, who)
    /\ "pair-op" \in o.locks => Len(todo) <= 1
    /\ "pair-op" \notin o.locks => \A i \in DOMAIN todo : Follows(todo[i], d, st, ow, who)
    /\ "bind-op" \notin o.locks => \A i \in DOMAIN todo : Behind(todo[i], d, tok)

(* The choice who and tok accounts for the file and for all copies of it.   *)
AdmittedBy(d, mm, dg, st, ow, mi, th, who, tok) ==
    /\ Sound(d, d, st, ow, who, tok)
    /\ \A s \in Sessions : mm[s] = Closed \/ Sound(mm[s], d, st, ow, who, tok)
    /\ \A h \in Handles : Underway(dg[h], d, st, ow, who, tok)
    /\ Ledger(d, st, ow, mi, th, who)
    /\ Register(d, th, tok)

(* No lock is held twice.                                                   *)
Exclusive ==
    \A h, j \in Handles : h # j => doing[h].locks \cap doing[j].locks = {}

(* A session that holds a copy of the file, or has one to save, has a peer; *)
(* one that waits for an approval is in no operation.                       *)
Connected ==
    /\ remote = [s \in Sessions |-> remote[s]] /\ asking = [s \in Sessions |-> asking[s]]
    /\ \A s \in Sessions :
          /\ mem[s] # Closed \/ doing[s] # Idle => remote[s] \in Peers
          /\ asking[s] # NoTicket => doing[s] = Idle

\* Some choice of peers for tickets and tokens accounts for all that is held.
Witnessed ==
    \E who \in [Tickets -> Peers \cup {NoPeer}], tok \in [Tokens -> Peers \cup {NoPeer}] :
       AdmittedBy(disk, mem, doing, stale, owed, minted, through, who, tok)

Admission == Exclusive /\ Connected /\ published \subseteq Tokens \X Peers /\ Witnessed

(* A copy without tokens of its own binds nobody the file does not bind.    *)
LEMMA BehindBinds ==
    ASSUME NEW f, NEW d, NEW tok, Behind(f, d, tok)
    PROVE  Binds(f, d, tok)
  BY DEF Behind, Binds

(* An operation of one save is under way.                                   *)
LEMMA OneUnderway ==
    ASSUME NEW l, NEW f, NEW d, NEW st, NEW ow, NEW who, NEW tok,
           Formed(f), Binds(f, d, tok), Leads(f, d, st, ow, who),
           "pair-op" \in l \/ Follows(f, d, st, ow, who),
           "bind-op" \in l \/ Behind(f, d, tok)
    PROVE  Underway([locks |-> l, copies |-> <<f>>], d, st, ow, who, tok)
  <1>1. \A i \in DOMAIN <<f>> : <<f>>[i] = f OBVIOUS
  <1>2. Len(<<f>>) <= 1 OBVIOUS
  <1> QED BY <1>1, <1>2 DEF Underway

(* And one of two, which is none of pairings.                               *)
LEMMA TwoUnderway ==
    ASSUME NEW l, NEW f, NEW g, NEW d, NEW st, NEW ow, NEW who, NEW tok, "pair-op" \notin l,
           Formed(f), Binds(f, d, tok), Leads(f, d, st, ow, who), Follows(f, d, st, ow, who),
           Formed(g), Binds(g, d, tok), Leads(g, d, st, ow, who), Follows(g, d, st, ow, who),
           "bind-op" \in l \/ (Behind(f, d, tok) /\ Behind(g, d, tok))
    PROVE  Underway([locks |-> l, copies |-> <<f, g>>], d, st, ow, who, tok)
  <1>1. \A i \in DOMAIN <<f, g>> : <<f, g>>[i] = f \/ <<f, g>>[i] = g OBVIOUS
  <1> QED BY <1>1 DEF Underway

(* A handle begins; the file stays, and so does what the others hold.       *)
LEMMA BeginAdmits ==
    ASSUME NEW d, NEW mm, NEW dg, NEW st, NEW ow, NEW mi, NEW th, NEW who, NEW tok,
           NEW h \in Handles, NEW o, NEW m2, NEW g2,
           AdmittedBy(d, mm, dg, st, ow, mi, th, who, tok),
           mm = [s \in Sessions |-> mm[s]], dg = [j \in Handles |-> dg[j]],
           m2 = mm \/ m2 = [mm EXCEPT ![h] = d], g2 = [dg EXCEPT ![h] = o],
           Underway(o, d, st, ow, who, tok)
    PROVE  AdmittedBy(d, m2, g2, st, ow, mi, th, who, tok)
  <1>1. \A s \in Sessions : m2[s] = mm[s] \/ m2[s] = d OBVIOUS
  <1>2. \A j \in Handles : g2[j] = IF j = h THEN o ELSE dg[j] OBVIOUS
  <1>3. \A s \in Sessions : m2[s] = Closed \/ Sound(m2[s], d, st, ow, who, tok)
    BY <1>1 DEF AdmittedBy
  <1>4. \A j \in Handles : Underway(g2[j], d, st, ow, who, tok) BY <1>2 DEF AdmittedBy
  <1> QED BY <1>3, <1>4 DEF AdmittedBy

(* Sessions read the file again or close; operations that are cut off leave *)
(* nothing to save.                                                         *)
LEMMA RestAdmits ==
    ASSUME NEW d, NEW mm, NEW dg, NEW st, NEW ow, NEW mi, NEW th, NEW who, NEW tok, NEW m2, NEW g2,
           AdmittedBy(d, mm, dg, st, ow, mi, th, who, tok),
           \A s \in Sessions : m2[s] = mm[s] \/ m2[s] = d \/ m2[s] = Closed,
           \A j \in Handles : g2[j] = dg[j] \/ g2[j] = Idle
    PROVE  AdmittedBy(d, m2, g2, st, ow, mi, th, who, tok)
  <1>1. Underway(Idle, d, st, ow, who, tok)
    <2>1. DOMAIN <<>> = {} /\ Len(<<>>) <= 1 OBVIOUS
    <2> QED BY <2>1 DEF Underway, Idle
  <1>2. \A j \in Handles : Underway(g2[j], d, st, ow, who, tok) BY <1>1 DEF AdmittedBy
  <1>3. \A s \in Sessions : m2[s] = Closed \/ Sound(m2[s], d, st, ow, who, tok)
    BY DEF AdmittedBy
  <1> QED BY <1>2, <1>3 DEF AdmittedBy

(* A ticket that is not used, while nobody pairs, admits nobody yet: whom   *)
(* it is going to admit may be chosen now.                                  *)
LEMMA TicketChosen ==
    ASSUME NEW d, NEW mm, NEW dg, NEW st, NEW ow, NEW o2, NEW mi, NEW th,
           NEW who \in [Tickets -> Peers \cup {NoPeer}], NEW tok,
           NEW t \in Tickets, NEW p \in Peers,
           AdmittedBy(d, mm, dg, st, ow, mi, th, who, tok),
           t \notin d.used, \A h \in Handles : "pair-op" \notin dg[h].locks,
           o2 = ow \/ (o2 = ow \cup {<<t, p>>} /\ ~AutoConfirm)
    PROVE  AdmittedBy(d, mm, dg, st, o2, mi, th, [who EXCEPT ![t] = p], tok)
  <1> DEFINE w2 == [who EXCEPT ![t] = p]
  <1>1. \A u \in Tickets : u # t => w2[u] = who[u] OBVIOUS
  <1>2. \A q : \A u : <<u, q>> \in o2 => <<u, q>> \in ow \/ (u = t /\ q = p) OBVIOUS
  <1>3. NoPeer \notin Peers BY TrustAssumption
  <1> HIDE DEF w2
  <1>4. ASSUME NEW f, Follows(f, d, st, ow, who) PROVE Follows(f, d, st, o2, w2)
    <2>1. ASSUME NEW q \in Peers
          PROVE  /\ f.pairedBy[q] \in Tickets => f.pairedBy[q] \in d.used /\ w2[f.pairedBy[q]] = q
                 /\ <<f.pairedBy[q], q>> \notin o2
      <3>1. /\ f.pairedBy[q] \in Tickets => f.pairedBy[q] \in d.used /\ who[f.pairedBy[q]] = q
            /\ <<f.pairedBy[q], q>> \notin ow
        BY <1>4 DEF Follows
      <3>2. f.pairedBy[q] # t BY <3>1
      <3> QED BY <1>1, <1>2, <3>1, <3>2
    <2>2. ASSUME NEW u \in Tickets
          PROVE  /\ f.awaiting[u] # NoPeer => u \in d.used /\ w2[u] = f.awaiting[u]
                 /\ <<u, f.awaiting[u]>> \in o2 => u \in d.cancelled \/ d.awaiting[u] = f.awaiting[u]
      <3>1. /\ f.awaiting[u] # NoPeer => u \in d.used /\ who[u] = f.awaiting[u]
            /\ <<u, f.awaiting[u]>> \in ow => u \in d.cancelled \/ d.awaiting[u] = f.awaiting[u]
        BY <1>4 DEF Follows
      <3>2. CASE u = t BY <1>2, <1>3, <3>1, <3>2
      <3>3. CASE u # t BY <1>1, <1>2, <3>1, <3>3
      <3> QED BY <3>2, <3>3
    <2> QED BY <1>4, <2>1, <2>2 DEF Follows
  <1>5. Follows(d, d, st, ow, who) /\ Formed(d) BY DEF AdmittedBy, Sound
  <1>6. Ledger(d, st, o2, mi, th, w2)
    <2>1. Ledger(d, st, ow, mi, th, who) BY DEF AdmittedBy
    <2>2. o2 \subseteq Tickets \X Peers /\ (AutoConfirm => o2 = {}) BY <2>1 DEF Ledger
    <2>3. ASSUME NEW q \in Peers, NEW u \in Tickets, u \in st[q]
          PROVE  u \notin d.pending /\ (d.awaiting[u] = q /\ <<u, q>> \in o2 => u \in d.cancelled)
      <3>1. u \notin d.pending /\ (d.awaiting[u] = q /\ <<u, q>> \in ow => u \in d.cancelled)
        BY <2>1, <2>3 DEF Ledger
      <3>2. d.awaiting[u] = q => u \in d.used BY <1>3, <1>5 DEF Follows
      <3> QED BY <1>2, <3>1, <3>2
    <2>4. ASSUME NEW q \in Peers, NEW u \in Tickets, <<u, q>> \in th
          PROVE  u \in d.used /\ w2[u] = q
      BY <1>1, <2>1, <2>4 DEF Ledger
    <2> QED BY <2>1, <2>2, <2>3, <2>4 DEF Ledger
  <1>7. \A f : Sound(f, d, st, ow, who, tok) => Sound(f, d, st, o2, w2, tok)
    BY <1>4 DEF Sound
  <1>8. ASSUME NEW h \in Handles PROVE Underway(dg[h], d, st, o2, w2, tok)
    <2> DEFINE q == dg[h].copies
    <2>1. Underway(dg[h], d, st, ow, who, tok) BY DEF AdmittedBy
    <2>2. \A i \in DOMAIN q : Formed(q[i]) /\ Binds(q[i], d, tok) /\ Follows(q[i], d, st, ow, who)
      BY <2>1 DEF Underway
    <2>3. \A i \in DOMAIN q : Follows(q[i], d, st, o2, w2) BY <1>4, <2>2
    <2>4. \A i \in DOMAIN q : Leads(q[i], d, st, o2, w2)
      BY <1>5, <1>6, <2>2, <2>3, FollowersLead
    <2> QED BY <2>1, <2>2, <2>3, <2>4 DEF Underway
  <1> QED BY <1>6, <1>7, <1>8 DEF AdmittedBy, w2

(* Likewise a token of this device that is not bound, while nobody binds.   *)
LEMMA TokenChosen ==
    ASSUME NEW d, NEW mm, NEW dg, NEW st, NEW ow, NEW mi, NEW th, NEW who,
           NEW tok \in [Tokens -> Peers \cup {NoPeer}],
           NEW k \in Tokens, NEW g \in Peers, Issuer[k] = Self,
           AdmittedBy(d, mm, dg, st, ow, mi, th, who, tok),
           d.bound[k] = NoPeer, \A h \in Handles : "bind-op" \notin dg[h].locks
    PROVE  AdmittedBy(d, mm, dg, st, ow, mi, th, who, [tok EXCEPT ![k] = g])
  <1> DEFINE t2 == [tok EXCEPT ![k] = g]
  <1>1. \A u \in Tokens : u # k => t2[u] = tok[u] OBVIOUS
  <1>2. NoPeer \notin Peers BY TrustAssumption
  <1> HIDE DEF t2
  <1>3. ASSUME NEW f, Behind(f, d, tok) PROVE Behind(f, d, t2)
    <2>1. ASSUME NEW p \in Peers, f.peers[p] \in Tokens
          PROVE  t2[f.peers[p]] = p /\ (Issuer[f.peers[p]] = Self => d.bound[f.peers[p]] = p)
      <3>1. tok[f.peers[p]] = p /\ (Issuer[f.peers[p]] = Self => d.bound[f.peers[p]] = p)
        BY <1>3, <2>1 DEF Behind
      <3>2. f.peers[p] # k BY <1>2, <3>1
      <3> QED BY <1>1, <2>1, <3>1, <3>2
    <2>2. ASSUME NEW u \in Tokens, f.bound[u] # NoPeer
          PROVE  t2[u] = f.bound[u] /\ d.bound[u] = f.bound[u]
      BY <1>1, <1>3, <2>2 DEF Behind
    <2> QED BY <2>1, <2>2 DEF Behind
  <1>4. Register(d, th, t2)
    <2>1. Register(d, th, tok) BY DEF AdmittedBy
    <2>2. \A u \in Tokens : Issuer[u] # Self => t2[u] = Bearer[u] BY <1>1, <2>1 DEF Register
    <2>3. ASSUME NEW p \in Peers, NEW u \in Tokens, <<u, p>> \in th
          PROVE  t2[u] = p /\ (Issuer[u] = Self => d.bound[u] = p)
      BY <1>1, <1>2, <2>1, <2>3 DEF Register
    <2> QED BY <2>2, <2>3 DEF Register
  <1>5. ASSUME NEW h \in Handles PROVE Underway(dg[h], d, st, ow, who, t2)
    <2>1. Underway(dg[h], d, st, ow, who, tok) BY DEF AdmittedBy
    <2>2. \A i \in DOMAIN dg[h].copies : Behind(dg[h].copies[i], d, t2)
      BY <1>3, <2>1 DEF Underway
    <2>3. \A i \in DOMAIN dg[h].copies : Binds(dg[h].copies[i], d, t2) BY <2>2, BehindBinds
    <2> QED BY <2>1, <2>2, <2>3 DEF Underway
  <1> QED BY <1>3, <1>4, <1>5 DEF AdmittedBy, Sound, t2

(* A confirmation that has been read is owed no more.                       *)
LEMMA FewerOwed ==
    ASSUME NEW d, NEW mm, NEW dg, NEW st, NEW ow, NEW o2, NEW mi, NEW th, NEW who, NEW tok,
           AdmittedBy(d, mm, dg, st, ow, mi, th, who, tok), o2 \subseteq ow
    PROVE  AdmittedBy(d, mm, dg, st, o2, mi, th, who, tok)
  <1>1. \A f : Follows(f, d, st, ow, who) => Follows(f, d, st, o2, who) BY DEF Follows
  <1>2. \A f : Leads(f, d, st, ow, who) => Leads(f, d, st, o2, who) BY DEF Leads, TakesOut
  <1>3. Ledger(d, st, o2, mi, th, who) BY DEF AdmittedBy, Ledger
  <1>4. \A h \in Handles : Underway(dg[h], d, st, o2, who, tok)
    BY <1>1, <1>2 DEF AdmittedBy, Underway
  <1> QED BY <1>1, <1>3, <1>4 DEF AdmittedBy, Sound

(* More tickets are minted.                                                 *)
LEMMA MoreMinted ==
    ASSUME NEW d, NEW mm, NEW dg, NEW st, NEW ow, NEW mi, NEW m2, NEW th, NEW who, NEW tok,
           AdmittedBy(d, mm, dg, st, ow, mi, th, who, tok), mi \subseteq m2, m2 \subseteq Tickets
    PROVE  AdmittedBy(d, mm, dg, st, ow, m2, th, who, tok)
  BY DEF AdmittedBy, Ledger

-----------------------------------------------------------------------------
(* The copies operations begin with.  Most change no pairing.               *)
SameTickets(f, d) ==
    /\ f.version = d.version /\ f.pairedBy = d.pairedBy
    /\ f.awaiting = d.awaiting /\ f.pending = d.pending

(* Such a copy follows the file.                                            *)
LEMMA SameFollows ==
    ASSUME NEW f, NEW d, NEW st, NEW ow, NEW who, SameTickets(f, d), Follows(d, d, st, ow, who)
    PROVE  Follows(f, d, st, ow, who)
  BY DEF SameTickets, Follows

\* Nor do most bind a token.
SameTokens(f, d) ==
    /\ \A k \in Tokens : f.bound[k] \in {NoPeer, d.bound[k]}
    /\ \A p \in Peers : f.peers[p] \in Tokens => f.peers[p] = d.peers[p]

(* Such a copy binds nobody the file does not.                              *)
LEMMA SameBehind ==
    ASSUME NEW f, NEW d, NEW tok, SameTokens(f, d), Behind(d, d, tok)
    PROVE  Behind(f, d, tok)
  BY DEF SameTokens, Behind

\* A copy in which p is paired anew, by x.
Renewed(f, d, p, x) ==
    /\ \A q \in Peers : /\ f.version[q] = IF q = p THEN d.version[q] + 1 ELSE d.version[q]
                        /\ f.pairedBy[q] = IF q = p THEN x ELSE d.pairedBy[q]
                        /\ q = p => f.peers[q] # Absent
    /\ \A u \in Tickets : /\ f.awaiting[u] \in {NoPeer, d.awaiting[u]}
                          /\ u \in f.pending => u \in d.pending

(* Such a copy may be saved, when x admits p or is an invitation.           *)
LEMMA PairLeads ==
    ASSUME NEW f, NEW d, NEW st, NEW ow, NEW mi, NEW th, NEW who, NEW p \in Peers, NEW x,
           Formed(d), Follows(d, d, st, ow, who), Ledger(d, st, ow, mi, th, who),
           Renewed(f, d, p, x),
           x \in Tickets => x \in f.used \cup d.used /\ who[x] = p,
           x \notin st[p], <<x, p>> \notin ow
    PROVE  Leads(f, d, st, ow, who)
  <1>1. \A q \in Peers : d.version[q] \in Nat BY DEF Formed
  <1>2. ASSUME NEW q \in Peers
        PROVE  /\ f.pairedBy[q] \in Tickets => f.pairedBy[q] \in f.used \cup d.used /\ who[f.pairedBy[q]] = q
               /\ f.pairedBy[q] \notin st[q]
               /\ <<f.pairedBy[q], q>> \notin ow
               /\ ~(f.peers[q] = Absent /\ f.version[q] > d.version[q])
    <2>1. ~(d.version[q] < d.version[q]) BY <1>1
    <2>2. CASE q = p BY <2>2 DEF Renewed
    <2>3. CASE q # p
      <3>1. f.pairedBy[q] = d.pairedBy[q] /\ f.version[q] = d.version[q] BY <2>3 DEF Renewed
      <3>2. /\ d.pairedBy[q] \in Tickets => d.pairedBy[q] \in d.used /\ who[d.pairedBy[q]] = q
            /\ d.pairedBy[q] \in st[q] => d.version[q] < d.version[q]
            /\ <<d.pairedBy[q], q>> \notin ow
        BY DEF Follows
      <3> QED BY <2>1, <3>1, <3>2
    <2> QED BY <2>2, <2>3
  <1>3. ASSUME NEW u \in Tickets
        PROVE  /\ f.awaiting[u] # NoPeer => u \in f.used \cup d.used /\ who[u] = f.awaiting[u]
               /\ \A q \in Peers : u \in st[q] =>
                     /\ u \notin f.pending
                     /\ f.awaiting[u] = q /\ <<u, q>> \in ow => u \in f.cancelled \cup d.cancelled
    <2>1. f.awaiting[u] \in {NoPeer, d.awaiting[u]} /\ (u \in f.pending => u \in d.pending) BY DEF Renewed
    <2>2. d.awaiting[u] # NoPeer => u \in d.used /\ who[u] = d.awaiting[u] BY DEF Follows
    <2>3. \A q \in Peers : u \in st[q] =>
             /\ u \notin d.pending
             /\ d.awaiting[u] = q /\ <<u, q>> \in ow => u \in d.cancelled
      BY DEF Ledger
    <2>4. NoPeer \notin Peers BY TrustAssumption
    <2> QED BY <2>1, <2>2, <2>3, <2>4
  <1> QED BY <1>2, <1>3 DEF Leads

(* A copy that is the file but for tickets p waits by or has lost.          *)
LEMMA WaitLeads ==
    ASSUME NEW f, NEW d, NEW st, NEW ow, NEW mi, NEW th, NEW who,
           Formed(d), Follows(d, d, st, ow, who), Ledger(d, st, ow, mi, th, who),
           f.version = d.version, f.pairedBy = d.pairedBy,
           \A u \in Tickets :
              /\ f.awaiting[u] = d.awaiting[u]
                    \/ (u \in f.used /\ who[u] = f.awaiting[u] /\ \A q \in Peers : u \notin st[q])
              /\ u \in f.pending => u \in d.pending \/ \A q \in Peers : u \notin st[q]
    PROVE  Leads(f, d, st, ow, who)
  <1>1. \A q \in Peers : d.version[q] \in Nat BY DEF Formed
  <1>2. ASSUME NEW q \in Peers
        PROVE  /\ f.pairedBy[q] \in Tickets => f.pairedBy[q] \in f.used \cup d.used /\ who[f.pairedBy[q]] = q
               /\ f.pairedBy[q] \in st[q] => f.version[q] < d.version[q]
               /\ <<f.pairedBy[q], q>> \notin ow
               /\ ~(f.version[q] > d.version[q])
    BY <1>1 DEF Follows
  <1>3. ASSUME NEW u \in Tickets
        PROVE  /\ f.awaiting[u] # NoPeer => u \in f.used \cup d.used /\ who[u] = f.awaiting[u]
               /\ \A q \in Peers : u \in st[q] =>
                     /\ u \notin f.pending
                     /\ f.awaiting[u] = q /\ <<u, q>> \in ow => u \in f.cancelled \cup d.cancelled
    <2>1. d.awaiting[u] # NoPeer => u \in d.used /\ who[u] = d.awaiting[u] BY DEF Follows
    <2>2. \A q \in Peers : u \in st[q] =>
             /\ u \notin d.pending
             /\ d.awaiting[u] = q /\ <<u, q>> \in ow => u \in d.cancelled
      BY DEF Ledger
    <2> QED BY <2>1, <2>2
  <1> QED BY <1>2, <1>3 DEF Leads

(* The fields of a file in which p is paired by x.                          *)
LEMMA PairedFields ==
    ASSUME NEW f, Formed(f), NEW p \in Peers, NEW x
    PROVE  LET g == Paired(f, p, x) IN
           /\ Formed(g)
           /\ \A q \in Peers : /\ g.version[q] = IF q = p THEN f.version[q] + 1 ELSE f.version[q]
                               /\ g.pairedBy[q] = IF q = p THEN x ELSE f.pairedBy[q]
                               /\ g.peers[q] = IF q = p THEN Full ELSE f.peers[q]
           /\ g.awaiting = f.awaiting /\ g.pending = f.pending /\ g.used = f.used
           /\ g.cancelled = f.cancelled /\ g.bound = f.bound
  <1> DEFINE g == Paired(f, p, x)
             v == [f.version EXCEPT ![p] = @ + 1]
             b == [f.pairedBy EXCEPT ![p] = x]
             e == [f.peers EXCEPT ![p] = Full]
  <1>1. /\ Fields \subseteq DOMAIN f /\ f.version \in [Peers -> Nat]
        /\ f.peers = [q \in Peers |-> f.peers[q]] /\ f.pairedBy = [q \in Peers |-> f.pairedBy[q]]
    BY DEF Formed
  <1>2. /\ v \in [Peers -> Nat]
        /\ \A q \in Peers : v[q] = IF q = p THEN f.version[q] + 1 ELSE f.version[q]
    BY <1>1
  <1>3. /\ b = [q \in Peers |-> b[q]] /\ e = [q \in Peers |-> e[q]]
        /\ \A q \in Peers : /\ b[q] = IF q = p THEN x ELSE f.pairedBy[q]
                            /\ e[q] = IF q = p THEN Full ELSE f.peers[q]
    BY <1>1
  <1>4. g = [f EXCEPT !.version = v, !.pairedBy = b, !.peers = e] BY DEF Paired
  <1> HIDE DEF v, b, e
  <1>5. /\ Fields \subseteq DOMAIN g /\ g.version = v /\ g.pairedBy = b /\ g.peers = e
        /\ g.awaiting = f.awaiting /\ g.pending = f.pending /\ g.used = f.used
        /\ g.cancelled = f.cancelled /\ g.bound = f.bound /\ g.certs = f.certs
        /\ g.revoked = f.revoked
    BY <1>1, <1>4 DEF Fields
  <1> HIDE DEF g
  <1>6. Formed(g) BY <1>2, <1>3, <1>5 DEF Formed
  <1> QED BY <1>2, <1>3, <1>5, <1>6 DEF g

(* And of one in which ticket t is spent.                                   *)
LEMMA SpentFields ==
    ASSUME NEW f, Formed(f), NEW t
    PROVE  LET g == Spent(f, t) IN
           /\ Formed(g)
           /\ g.version = f.version /\ g.pairedBy = f.pairedBy /\ g.awaiting = f.awaiting
           /\ g.pending = f.pending \ {t} /\ g.used = f.used \cup {t}
           /\ g.peers = f.peers /\ g.bound = f.bound
  <1>1. Fields \subseteq DOMAIN f BY DEF Formed
  <1>2. LET g == Spent(f, t) IN
           /\ Fields \subseteq DOMAIN g
           /\ g.version = f.version /\ g.pairedBy = f.pairedBy /\ g.awaiting = f.awaiting
           /\ g.pending = f.pending \ {t} /\ g.used = f.used \cup {t}
           /\ g.peers = f.peers /\ g.bound = f.bound /\ g.certs = f.certs /\ g.revoked = f.revoked
    BY <1>1 DEF Spent, Fields
  <1> QED BY <1>2 DEF Formed

-----------------------------------------------------------------------------
(* Removal: the copy takes p out with every ticket it could come back by.   *)
LEMMA RemovalLeads ==
    ASSUME NEW f, NEW d, NEW st, NEW ow, NEW mi, NEW th, NEW who, NEW p \in Peers,
           Formed(d), Follows(d, d, st, ow, who), Ledger(d, st, ow, mi, th, who),
           \A q \in Peers : /\ f.version[q] = IF q = p THEN d.version[q] + 1 ELSE d.version[q]
                            /\ f.pairedBy[q] = IF q = p THEN NoTicket ELSE d.pairedBy[q],
           \A t \in Tickets : f.awaiting[t] = IF d.awaiting[t] = p THEN NoPeer ELSE d.awaiting[t],
           f.pending = d.pending, d.pending \subseteq f.used,
           \A t \in Tickets : d.awaiting[t] = p => t \in f.cancelled
    PROVE  Leads(f, d, st, ow, who)
  <1>1. \A q \in Peers : d.version[q] \in Nat BY DEF Formed
  <1>2. NoTicket \notin Tickets /\ NoPeer \notin Peers BY TrustAssumption DEF AllTickets
  <1>3. ow \subseteq Tickets \X Peers /\ \A q \in Peers : st[q] \subseteq Tickets BY DEF Ledger
  <1>4. ASSUME NEW q \in Peers
        PROVE  /\ f.pairedBy[q] \in Tickets => f.pairedBy[q] \in f.used \cup d.used /\ who[f.pairedBy[q]] = q
               /\ f.pairedBy[q] \in st[q] => f.version[q] < d.version[q]
               /\ <<f.pairedBy[q], q>> \notin ow
               /\ f.version[q] > d.version[q] => TakesOut(f, d, q, ow)
    <2>1. CASE q = p
      <3>1. TakesOut(f, d, p, ow)
        <4>1. f.pairedBy[p] = NoTicket OBVIOUS
        <4>2. \A t \in Tickets : f.awaiting[t] # p BY <1>2
        <4>3. \A t \in Tickets : t \in d.pending \cup f.pending => t \in f.used OBVIOUS
        <4>4. \A t \in Tickets : d.awaiting[t] = p => t \in f.cancelled OBVIOUS
        <4> QED BY <4>1, <4>2, <4>3, <4>4 DEF TakesOut
      <3> QED BY <1>2, <1>3, <2>1, <3>1
    <2>2. CASE q # p
      <3>1. f.pairedBy[q] = d.pairedBy[q] /\ f.version[q] = d.version[q] BY <2>2
      <3>2. /\ d.pairedBy[q] \in Tickets => d.pairedBy[q] \in d.used /\ who[d.pairedBy[q]] = q
            /\ d.pairedBy[q] \in st[q] => d.version[q] < d.version[q]
            /\ <<d.pairedBy[q], q>> \notin ow
        BY DEF Follows
      <3>3. ~(d.version[q] > d.version[q]) BY <1>1
      <3> QED BY <3>1, <3>2, <3>3
    <2> QED BY <2>1, <2>2
  <1>5. ASSUME NEW u \in Tickets
        PROVE  /\ f.awaiting[u] # NoPeer => u \in f.used \cup d.used /\ who[u] = f.awaiting[u]
               /\ \A q \in Peers : u \in st[q] =>
                     /\ u \notin f.pending
                     /\ f.awaiting[u] = q /\ <<u, q>> \in ow => u \in f.cancelled \cup d.cancelled
    <2>1. f.awaiting[u] \in {NoPeer, d.awaiting[u]} OBVIOUS
    <2>2. d.awaiting[u] # NoPeer => u \in d.used /\ who[u] = d.awaiting[u] BY DEF Follows
    <2>3. \A q \in Peers : u \in st[q] =>
             /\ u \notin d.pending
             /\ d.awaiting[u] = q /\ <<u, q>> \in ow => u \in d.cancelled
      BY DEF Ledger
    <2> QED BY <1>2, <2>1, <2>2, <2>3
  <1> QED BY <1>4, <1>5 DEF Leads

\* What remove_peer saves, revoking tokens gone and more, cancelling tickets off.
Removal(d, p, off, gone, more) ==
    [d EXCEPT !.peers[p] = Absent, !.version[p] = @ + 1, !.pairedBy[p] = NoTicket,
              !.cancelled = @ \cup off, !.revoked = @ \cup gone \cup more,
              !.used = @ \cup d.pending,
              !.awaiting = [t \in Tickets |-> IF d.awaiting[t] = p THEN NoPeer ELSE @[t]]]

(* It is such a copy, whatever it revokes and cancels.                      *)
LEMMA RemovalFields ==
    ASSUME NEW d, Formed(d), NEW p \in Peers, NEW off,
           NEW gone, NEW more, gone \subseteq Tokens, more \subseteq Tokens
    PROVE  LET f == Removal(d, p, off, gone, more)
           IN /\ Formed(f)
              /\ \A q \in Peers : /\ f.version[q] = IF q = p THEN d.version[q] + 1 ELSE d.version[q]
                                  /\ f.pairedBy[q] = IF q = p THEN NoTicket ELSE d.pairedBy[q]
                                  /\ f.peers[q] = IF q = p THEN Absent ELSE d.peers[q]
              /\ \A t \in Tickets : f.awaiting[t] = IF d.awaiting[t] = p THEN NoPeer ELSE d.awaiting[t]
              /\ f.pending = d.pending /\ f.used = d.used \cup d.pending
              /\ f.cancelled = d.cancelled \cup off /\ f.bound = d.bound
  <1> DEFINE v == [d.version EXCEPT ![p] = @ + 1]
             b == [d.pairedBy EXCEPT ![p] = NoTicket]
             e == [d.peers EXCEPT ![p] = Absent]
             w == [t \in Tickets |-> IF d.awaiting[t] = p THEN NoPeer ELSE d.awaiting[t]]
             f == [d EXCEPT !.peers = e, !.version = v, !.pairedBy = b,
                 !.cancelled = @ \cup off, !.revoked = @ \cup gone \cup more,
                 !.used = @ \cup d.pending, !.awaiting = w]
  <1>1. /\ Fields \subseteq DOMAIN d /\ d.version \in [Peers -> Nat] /\ d.revoked \subseteq Tokens
        /\ d.peers = [q \in Peers |-> d.peers[q]] /\ d.pairedBy = [q \in Peers |-> d.pairedBy[q]]
    BY DEF Formed
  <1>2. /\ v \in [Peers -> Nat]
        /\ \A q \in Peers : v[q] = IF q = p THEN d.version[q] + 1 ELSE d.version[q]
    BY <1>1
  <1>3. /\ b = [q \in Peers |-> b[q]] /\ e = [q \in Peers |-> e[q]]
        /\ \A q \in Peers : /\ b[q] = IF q = p THEN NoTicket ELSE d.pairedBy[q]
                            /\ e[q] = IF q = p THEN Absent ELSE d.peers[q]
    BY <1>1
  <1>4. /\ w = [t \in Tickets |-> w[t]]
        /\ \A t \in Tickets : w[t] = IF d.awaiting[t] = p THEN NoPeer ELSE d.awaiting[t]
    OBVIOUS
  <1>5. f = Removal(d, p, off, gone, more) BY DEF Removal
  <1> HIDE DEF v, b, e, w
  <1>6. /\ Fields \subseteq DOMAIN f /\ f.version = v /\ f.pairedBy = b /\ f.peers = e
        /\ f.awaiting = w /\ f.pending = d.pending /\ f.used = d.used \cup d.pending
        /\ f.cancelled = d.cancelled \cup off /\ f.bound = d.bound /\ f.certs = d.certs
        /\ f.revoked = d.revoked \cup gone \cup more
    BY <1>1 DEF Fields
  <1> HIDE DEF f
  <1>7. Formed(f) BY <1>1, <1>2, <1>3, <1>4, <1>6 DEF Formed
  <1> QED BY <1>2, <1>3, <1>4, <1>5, <1>6, <1>7

-----------------------------------------------------------------------------
(* An operation begins on handle h.                                         *)
LEMMA StartsAdmits ==
    ASSUME Copies, NEW who, NEW tok, NEW h \in Handles, NEW l, NEW q,
           AdmittedBy(disk, mem, doing, stale, owed', minted', through, who, tok),
           doing' = [doing EXCEPT ![h] = [locks |-> l, copies |-> q]],
           mem' = mem \/ mem' = [mem EXCEPT ![h] = disk],
           UNCHANGED <<disk, stale, through>>,
           Underway([locks |-> l, copies |-> q], disk, stale, owed', who, tok)
    PROVE  AdmittedBy(disk', mem', doing', stale', owed', minted', through', who, tok)
  <1>1. mem = [s \in Sessions |-> mem[s]] /\ doing = [j \in Handles |-> doing[j]] BY DEF Copies
  <1>2. AdmittedBy(disk, mem', doing', stale, owed', minted', through, who, tok)
    BY <1>1, BeginAdmits
  <1> QED BY <1>2

\* Sessions keep their copy, take the one that is saved, or close.
Kept(m2, mm, m) == \A s \in Sessions : m2[s] = mm[s] \/ m2[s] = m \/ m2[s] = Closed

\* What is left of an operation when some of its copies are saved.
Reduced(o2, o) ==
    /\ \A i \in DOMAIN o2.copies : \E j \in DOMAIN o.copies : o2.copies[i] = o.copies[j]
    /\ "pair-op" \in o2.locks => Len(o2.copies) <= 1
    /\ o2.locks = o.locks \/ DOMAIN o2.copies = {}

(* A copy that leads the file is saved, by an operation or at the end of a  *)
(* session, and is the only one that does unless it only follows.           *)
LEMMA SavesAdmit ==
    ASSUME NEW who, NEW tok, NEW m, NEW d, NEW n, NEW mm, NEW m2, NEW dg, NEW g2,
           NEW st, NEW s2, NEW ow, NEW mi, NEW th, NEW h2,
           AdmittedBy(d, mm, dg, st, ow, mi, th, who, tok),
           Formed(m), Leads(m, d, st, ow, who), Binds(m, d, tok), Blend(n, m, d),
           Marks(s2, st, m, d, mi),
           h2 = th \cup Admitted(n),
           Kept(m2, mm, m), \A h \in Handles : Reduced(g2[h], dg[h]),
           Follows(m, d, st, ow, who) \/ \A h \in Handles : "pair-op" \notin g2[h].locks
    PROVE  AdmittedBy(n, m2, g2, s2, ow, mi, h2, who, tok)
  <1>1. /\ Sound(d, d, st, ow, who, tok) /\ Ledger(d, st, ow, mi, th, who) /\ Register(d, th, tok)
        /\ \A s \in Sessions : mm[s] = Closed \/ Sound(mm[s], d, st, ow, who, tok)
        /\ \A h \in Handles : Underway(dg[h], d, st, ow, who, tok)
    BY DEF AdmittedBy
  <1>2. /\ Ledger(n, s2, ow, mi, h2, who)
        /\ Follows(n, n, s2, ow, who) /\ Follows(m, n, s2, ow, who)
        /\ \A f : Formed(f) /\ Follows(f, d, st, ow, who) => Follows(f, n, s2, ow, who)
    <2>1. Formed(d) /\ Follows(d, d, st, ow, who) BY <1>1 DEF Sound
    <2> QED BY <1>1, <2>1, SaveTickets
  <1>3. /\ Register(n, h2, tok) /\ Behind(n, n, tok) /\ Behind(m, n, tok)
        /\ \A f : Behind(f, d, tok) => Behind(f, n, tok)
        /\ \A f : Binds(f, d, tok) => Binds(f, n, tok)
    BY <1>1, SaveTokens DEF Sound
  <1>4. Formed(n) BY DEF Blend
  <1>5. \A s \in Sessions : m2[s] = Closed \/ Sound(m2[s], n, s2, ow, who, tok)
    BY <1>1, <1>2, <1>3 DEF Sound, Kept
  <1>6. ASSUME NEW h \in Handles PROVE Underway(g2[h], n, s2, ow, who, tok)
    <2> DEFINE todo == g2[h].copies
    <2>1. Underway(dg[h], d, st, ow, who, tok) BY <1>1
    <2>2. ASSUME NEW i \in DOMAIN todo
          PROVE  /\ Formed(todo[i]) /\ Binds(todo[i], d, tok) /\ Leads(todo[i], d, st, ow, who)
                 /\ "pair-op" \notin g2[h].locks => Follows(todo[i], d, st, ow, who)
                 /\ "bind-op" \notin g2[h].locks => Behind(todo[i], d, tok)
      <3>1. PICK j \in DOMAIN dg[h].copies : todo[i] = dg[h].copies[j] BY DEF Reduced
      <3>2. g2[h].locks = dg[h].locks BY DEF Reduced
      <3> QED BY <2>1, <3>1, <3>2 DEF Underway
    <2>3. ASSUME NEW i \in DOMAIN todo PROVE Leads(todo[i], n, s2, ow, who)
      <3>1. CASE "pair-op" \notin g2[h].locks
        <4>1. Follows(todo[i], n, s2, ow, who) BY <1>2, <2>2, <3>1
        <4> QED BY <1>2, <1>4, <2>2, <4>1, FollowersLead
      <3>2. CASE Follows(m, d, st, ow, who)
        <4>1. Formed(d) /\ ow \subseteq Tickets \X Peers BY <1>1 DEF Sound, Ledger
        <4>2. Formed(todo[i]) /\ Leads(todo[i], d, st, ow, who) BY <2>2
        <4> HIDE DEF todo
        <4>3. /\ Formed(m) /\ Blend(n, m, d)
              /\ Marks(s2, st, m, d, mi)
          BY <1>1
        <4> QED BY <3>2, <4>1, <4>2, <4>3, SaveLeads
      <3> QED BY <3>1, <3>2
    <2>4. \A i \in DOMAIN todo : /\ Formed(todo[i]) /\ Binds(todo[i], n, tok)
                                 /\ "pair-op" \notin g2[h].locks => Follows(todo[i], n, s2, ow, who)
                                 /\ "bind-op" \notin g2[h].locks => Behind(todo[i], n, tok)
      BY <1>2, <1>3, <2>2
    <2> QED BY <2>3, <2>4 DEF Underway, Reduced
  <1> QED BY <1>2, <1>3, <1>4, <1>5, <1>6 DEF AdmittedBy, Sound

-----------------------------------------------------------------------------
(* The locks exclude each other: an operation begins when its own are free, *)
(* and the others give locks back.                                          *)
LEMMA BeginExclusive ==
    ASSUME Copies, Exclusive, NEW h \in Handles, NEW o, Free(o.locks), doing' = [doing EXCEPT ![h] = o]
    PROVE  Exclusive'
  <1>1. \A j \in Handles : doing'[j] = IF j = h THEN o ELSE doing[j] BY DEF Copies
  <1>2. \A j \in Handles : o.locks \cap doing[j].locks = {} BY DEF Free
  <1> QED BY <1>1, <1>2 DEF Exclusive

(* Giving a lock back leaves the others as they are.                        *)
LEMMA ReleaseExclusive ==
    ASSUME Exclusive, \A j \in Handles : doing'[j].locks \subseteq doing[j].locks
    PROVE  Exclusive'
  <1> SUFFICES ASSUME NEW h \in Handles, NEW j \in Handles, h # j
               PROVE  doing'[h].locks \cap doing'[j].locks = {}
    BY DEF Exclusive
  <1>1. doing[h].locks \cap doing[j].locks = {} BY DEF Exclusive
  <1> QED BY <1>1

(* No two operations hold a lock of the same kind.                          *)
LEMMA ExclusiveStep == Copies /\ Exclusive /\ [Next]_vars => Exclusive'
  <1> SUFFICES ASSUME Copies, Exclusive, [Next]_vars PROVE Exclusive' OBVIOUS
  <1>a. /\ doing = [j \in Handles |-> doing[j]] /\ Sessions \subseteq Handles
        /\ Command \in Handles
    BY DEF Copies, Handles
  <1>1. ASSUME NEW h \in Handles, NEW l, NEW c, Starts(h, l, c) PROVE Exclusive'
    <2> DEFINE o == [locks |-> l, copies |-> c]
    <2>1. Free(l) /\ doing' = [doing EXCEPT ![h] = o] BY <1>1 DEF Starts
    <2>2. o.locks = l OBVIOUS
    <2> HIDE DEF o
    <2> QED BY <2>1, <2>2, BeginExclusive
  <1>2. CASE \/ \E t \in Tickets : RegisterTicket(t)
             \/ \E s \in Sessions, t \in Tickets : ConfirmPair(s, t)
             \/ \E i \in Invites : CompletePair(i)
             \/ \E p \in Peers : RemovePeer(p)
             \/ \E s \in Sessions, k \in Tokens : BindEnrollment(s, k)
             \/ \E s \in Sessions, k \in Tokens : InstallCertificate(s, k)
             \/ \E k \in Tokens : RevokeToken(k)
             \/ \E s \in Sessions, rs \in SUBSET published : ApplyRevocations(s, rs)
             \/ \E p \in Peers \ Guests : Join(p)
             \/ \E s \in Sessions, c \in Controls : ReceiveControl(s, c)
             \/ SaveDialed
    <2>h. PICK h \in Handles : \E l, c : Starts(h, l, c)
      BY <1>2, <1>a DEF RegisterTicket, ConfirmPair, CompletePair, RemovePeer, BindEnrollment,
         InstallCertificate, RevokeToken, ApplyRevocations, Join, ReceiveControl, SaveDialed, Begin
    <2> QED BY <1>1, <2>h
  <1>3. ASSUME NEW s \in Sessions, NEW t \in Tickets, AcceptPair(s, t) PROVE Exclusive'
    <2>1. Free({"pair-op"}) /\ \E c : doing' = [doing EXCEPT ![s] = [locks |-> {"pair-op"}, copies |-> c]]
      BY <1>3 DEF AcceptPair
    <2>2. PICK c : doing' = [doing EXCEPT ![s] = [locks |-> {"pair-op"}, copies |-> c]] BY <2>1
    <2> DEFINE o == [locks |-> {"pair-op"}, copies |-> c]
    <2>3. o.locks = {"pair-op"} /\ doing' = [doing EXCEPT ![s] = o] BY <2>2
    <2> HIDE DEF o
    <2> QED BY <1>a, <2>1, <2>3, BeginExclusive
  <1>4. ASSUME NEW h \in Handles, Save(h) PROVE Exclusive'
    <2>1. \/ doing' = [doing EXCEPT ![h] = Idle]
          \/ doing' = [doing EXCEPT ![h] = [@ EXCEPT !.copies = Tail(doing[h].copies)]]
      BY <1>4 DEF Save
    <2>2. Idle.locks = {} BY DEF Idle
    <2>3. [doing[h] EXCEPT !.copies = Tail(doing[h].copies)].locks \subseteq doing[h].locks
      <3>1. doing[h] = [locks |-> doing[h].locks, copies |-> doing[h].copies] BY DEF Copies
      <3> QED BY <3>1
    <2>4. \A j \in Handles : doing'[j].locks \subseteq doing[j].locks
      <3>1. \A j \in Handles : j # h => doing'[j] = doing[j] BY <1>a, <2>1
      <3>2. doing'[h] = Idle \/ doing'[h] = [doing[h] EXCEPT !.copies = Tail(doing[h].copies)]
        BY <1>a, <2>1
      <3> QED BY <2>2, <2>3, <3>1, <3>2
    <2> QED BY <2>4, ReleaseExclusive
  <1>5. CASE Crash
    <2>1. \A j \in Handles : doing'[j].locks \subseteq doing[j].locks BY <1>5 DEF Crash, Idle
    <2> QED BY <2>1, ReleaseExclusive
  <1>6. CASE UNCHANGED doing BY <1>6 DEF Exclusive
  <1>7. CASE \/ \E s \in Sessions, t \in Tickets : PairRequest(s, t)
             \/ \E p \in Peers : Approve(p)
             \/ \E s \in Sessions : PairRefused(s)
             \/ \E k \in Tokens : IssuerRevokes(k)
             \/ \E s \in Sessions : HandleControl(s)
             \/ \E c \in Controls : Late(c)
             \/ \E s \in Sessions, p \in Peers : Open(s, p)
             \/ \E s \in Sessions : Frame(s)
             \/ \E s \in Sessions : SaveHints(s)
             \/ \E k \in Lapsable : Lapse(k)
             \/ UNCHANGED vars
    BY <1>6, <1>7 DEF PairRequest, Approve, PairRefused, IssuerRevokes, HandleControl, Late, Open,
       Frame, SaveHints, Lapse, vars
  <1> QED BY <1>2, <1>3, <1>4, <1>5, <1>7 DEF Next

(* Sessions keep their peer for as long as they are open.                   *)
LEMMA ConnectedStep == Copies /\ Connected /\ [Next]_vars => Connected'
  <1> SUFFICES ASSUME Copies, Connected, [Next]_vars PROVE Connected' OBVIOUS
  <1>a. /\ doing = [j \in Handles |-> doing[j]] /\ mem = [s \in Sessions |-> mem[s]]
        /\ Sessions \subseteq Handles /\ Command \in Handles /\ Command \notin Sessions
    BY TrustAssumption DEF Copies, Handles
  <1>1. ASSUME NEW h \in Handles, UNCHANGED <<remote, asking>>,
               h \in Sessions => asking[h] = NoTicket /\ (mem[h] # Closed \/ doing[h] # Idle),
               \A s \in Sessions : s # h => mem'[s] = mem[s] /\ doing'[s] = doing[s]
        PROVE  Connected'
    BY <1>1 DEF Connected
  <1>2. ASSUME NEW h \in Handles, NEW l, NEW c, Starts(h, l, c), UNCHANGED asking PROVE Connected'
    <2>1. /\ UNCHANGED remote
          /\ h \in Sessions => asking[h] = NoTicket /\ mem[h] # Closed
          /\ doing' = [doing EXCEPT ![h] = [locks |-> l, copies |-> c]]
          /\ mem' = IF h \in Sessions THEN [mem EXCEPT ![h] = disk] ELSE mem
      BY <1>2 DEF Starts, Ready
    <2>2. \A s \in Sessions : s # h => mem'[s] = mem[s] /\ doing'[s] = doing[s] BY <1>a, <2>1
    <2> QED BY <1>1, <1>2, <2>1, <2>2
  <1>3. CASE \/ \E t \in Tickets : RegisterTicket(t)
             \/ \E s \in Sessions, t \in Tickets : ConfirmPair(s, t)
             \/ \E i \in Invites : CompletePair(i)
             \/ \E p \in Peers : RemovePeer(p)
             \/ \E s \in Sessions, k \in Tokens : BindEnrollment(s, k)
             \/ \E s \in Sessions, k \in Tokens : InstallCertificate(s, k)
             \/ \E k \in Tokens : RevokeToken(k)
             \/ \E s \in Sessions, rs \in SUBSET published : ApplyRevocations(s, rs)
             \/ \E p \in Peers \ Guests : Join(p)
             \/ \E s \in Sessions, c \in Controls : ReceiveControl(s, c)
             \/ SaveDialed
    <2>h. PICK h \in Handles : \E l, c : Starts(h, l, c) /\ UNCHANGED asking
      BY <1>3, <1>a DEF RegisterTicket, ConfirmPair, CompletePair, RemovePeer, BindEnrollment,
         InstallCertificate, RevokeToken, ApplyRevocations, Join, ReceiveControl, SaveDialed, Begin,
         pairing
    <2> QED BY <1>2, <2>h
  <1>4. ASSUME NEW s \in Sessions, NEW t \in Tickets, AcceptPair(s, t) PROVE Connected'
    <2>1. /\ UNCHANGED remote /\ mem[s] # Closed /\ mem' = [mem EXCEPT ![s] = disk]
          /\ asking' = [asking EXCEPT ![s] = NoTicket]
          /\ \E o : doing' = [doing EXCEPT ![s] = o]
      BY <1>4 DEF AcceptPair
    <2>2. \A u \in Sessions : u # s => mem'[u] = mem[u] /\ doing'[u] = doing[u] BY <1>a, <2>1
    <2>3. /\ asking' = [u \in Sessions |-> asking'[u]]
          /\ \A u \in Sessions : asking'[u] = IF u = s THEN NoTicket ELSE asking[u]
      BY <2>1 DEF Connected
    <2> QED BY <2>1, <2>2, <2>3 DEF Connected
  <1>5. ASSUME NEW h \in Handles, Save(h) PROVE Connected'
    <2>1. /\ UNCHANGED <<remote, asking>> /\ doing[h].copies # <<>>
          /\ \E o : doing' = [doing EXCEPT ![h] = o]
          /\ mem' = IF h \in Sessions THEN [mem EXCEPT ![h] = Head(doing[h].copies)] ELSE mem
      BY <1>5 DEF Save, pairing
    <2>2. doing[h] # Idle BY <2>1 DEF Idle
    <2>3. h \in Sessions => asking[h] = NoTicket BY <2>2 DEF Connected
    <2>4. \A s \in Sessions : s # h => mem'[s] = mem[s] /\ doing'[s] = doing[s] BY <1>a, <2>1
    <2> QED BY <1>1, <2>1, <2>2, <2>3, <2>4
  <1>6. ASSUME NEW s \in Sessions, SaveHints(s) \/ PairRefused(s) PROVE Connected'
    <2>1. /\ doing[s] = Idle /\ UNCHANGED doing
          /\ mem' = [mem EXCEPT ![s] = Closed] /\ remote' = [remote EXCEPT ![s] = NoPeer]
          /\ asking' = asking \/ asking' = [asking EXCEPT ![s] = NoTicket]
      BY <1>6 DEF SaveHints, PairRefused, Ready, Connected, pairing
    <2>2. /\ remote' = [u \in Sessions |-> remote'[u]] /\ asking' = [u \in Sessions |-> asking'[u]]
          /\ \A u \in Sessions : /\ u # s => mem'[u] = mem[u] /\ remote'[u] = remote[u]
                                 /\ asking'[u] \in {NoTicket, asking[u]}
          /\ mem'[s] = Closed
      BY <1>a, <2>1 DEF Connected
    <2> QED BY <2>1, <2>2 DEF Connected
  <1>7. ASSUME NEW s \in Sessions, NEW p \in Peers, Open(s, p) PROVE Connected'
    <2>1. /\ UNCHANGED <<doing, asking>>
          /\ mem' = [mem EXCEPT ![s] = disk] /\ remote' = [remote EXCEPT ![s] = p]
      BY <1>7 DEF Open, pairing
    <2>2. /\ remote' = [u \in Sessions |-> remote'[u]]
          /\ \A u \in Sessions : remote'[u] = IF u = s THEN p ELSE remote[u]
          /\ \A u \in Sessions : u # s => mem'[u] = mem[u]
      BY <1>a, <2>1 DEF Connected
    <2> QED BY <2>1, <2>2 DEF Connected
  <1>8. ASSUME NEW s \in Sessions, NEW t \in Tickets, PairRequest(s, t) PROVE Connected'
    <2>1. /\ UNCHANGED <<doing, remote>> /\ doing[s] = Idle /\ mem[s] # Closed
          /\ mem' = [mem EXCEPT ![s] = disk] /\ asking' = [asking EXCEPT ![s] = t]
      BY <1>8 DEF PairRequest, Ready
    <2>2. /\ asking' = [u \in Sessions |-> asking'[u]]
          /\ \A u \in Sessions : u # s => mem'[u] = mem[u] /\ asking'[u] = asking[u]
      BY <1>a, <2>1 DEF Connected
    <2> QED BY <2>1, <2>2 DEF Connected
  <1>9. ASSUME NEW s \in Sessions, Frame(s) PROVE Connected'
    <2>1. /\ UNCHANGED <<doing, remote, asking>> /\ asking[s] = NoTicket /\ mem[s] # Closed
          /\ mem' = [mem EXCEPT ![s] = disk]
      BY <1>9 DEF Frame, Ready, pairing
    <2>2. \A u \in Sessions : u # s => mem'[u] = mem[u] BY <1>a, <2>1
    <2> QED BY <2>1, <2>2 DEF Connected
  <1>10. CASE Crash
    <2>1. /\ remote' = [s \in Sessions |-> NoPeer] /\ asking' = [s \in Sessions |-> NoTicket]
          /\ \A s \in Sessions : mem'[s] = Closed /\ doing'[s] = Idle
      BY <1>10, <1>a DEF Crash
    <2> QED BY <2>1 DEF Connected
  <1>11. CASE UNCHANGED <<mem, doing, remote, asking>> BY <1>11 DEF Connected
  <1>12. CASE \/ \E p \in Peers : Approve(p)
              \/ \E k \in Tokens : IssuerRevokes(k)
              \/ \E s \in Sessions : HandleControl(s)
              \/ \E c \in Controls : Late(c)
              \/ \E k \in Lapsable : Lapse(k)
              \/ UNCHANGED vars
    BY <1>11, <1>12 DEF Approve, IssuerRevokes, HandleControl, Late, Lapse, vars, pairing
  <1> QED BY <1>3, <1>4, <1>5, <1>6, <1>7, <1>8, <1>9, <1>10, <1>12 DEF Next

-----------------------------------------------------------------------------
(* A copy that changes no pairing may be saved as far as tickets go.        *)
LEMMA PlainTickets ==
    ASSUME NEW f, NEW d, NEW mm, NEW dg, NEW st, NEW ow, NEW mi, NEW th, NEW who, NEW tok,
           AdmittedBy(d, mm, dg, st, ow, mi, th, who, tok), Formed(f), SameTickets(f, d)
    PROVE  Follows(f, d, st, ow, who) /\ Leads(f, d, st, ow, who)
  <1>1. Formed(d) /\ Follows(d, d, st, ow, who) /\ Ledger(d, st, ow, mi, th, who)
    BY DEF AdmittedBy, Sound
  <1>2. Follows(f, d, st, ow, who) BY <1>1, SameFollows
  <1> QED BY <1>1, <1>2, FollowersLead

(* And one that binds nobody, as far as tokens go.                          *)
LEMMA PlainTokens ==
    ASSUME NEW f, NEW d, NEW mm, NEW dg, NEW st, NEW ow, NEW mi, NEW th, NEW who, NEW tok,
           AdmittedBy(d, mm, dg, st, ow, mi, th, who, tok), SameTokens(f, d)
    PROVE  Behind(f, d, tok) /\ Binds(f, d, tok)
  <1>1. Behind(d, d, tok) BY DEF AdmittedBy, Sound
  <1> QED BY <1>1, SameBehind, BehindBinds

(* An operation begins with copies that may be saved.                       *)
LEMMA BeginsWitnessed ==
    ASSUME Copies, NEW who \in [Tickets -> Peers \cup {NoPeer}],
           NEW tok \in [Tokens -> Peers \cup {NoPeer}], NEW h \in Handles, NEW l, NEW q,
           AdmittedBy(disk, mem, doing, stale, owed', minted', through, who, tok),
           Starts(h, l, q), UNCHANGED ghosts,
           Underway([locks |-> l, copies |-> q], disk, stale, owed', who, tok)
    PROVE  Witnessed'
  <1>1. /\ doing' = [doing EXCEPT ![h] = [locks |-> l, copies |-> q]]
        /\ mem' = mem \/ mem' = [mem EXCEPT ![h] = disk]
        /\ UNCHANGED <<disk, stale, through>>
    BY DEF Starts, ghosts
  <1>2. AdmittedBy(disk', mem', doing', stale', owed', minted', through', who, tok)
    BY <1>1, StartsAdmits
  <1> QED BY <1>2 DEF Witnessed

(* The operations that neither pair nor bind: revocations of others,        *)
(* control messages, addresses after a dial, and joining another device.    *)
LEMMA PlainOps ==
    ASSUME Copies, Admission,
           \/ \E s \in Sessions, rs \in SUBSET published : ApplyRevocations(s, rs)
           \/ \E p \in Peers \ Guests : Join(p)
           \/ \E s \in Sessions, c \in Controls : ReceiveControl(s, c)
           \/ SaveDialed
    PROVE  Witnessed'
  <1>a. Sessions \subseteq Handles /\ Command \in Handles BY DEF Handles
  <1>b. PICK who \in [Tickets -> Peers \cup {NoPeer}], tok \in [Tokens -> Peers \cup {NoPeer}] :
          AdmittedBy(disk, mem, doing, stale, owed, minted, through, who, tok)
    BY DEF Admission, Witnessed
  <1>c. Formed(disk) BY <1>b DEF AdmittedBy, Sound
  <1>d. AdmittedBy(disk, mem, doing, stale, owed', minted', through, who, tok)
        /\ UNCHANGED owed /\ UNCHANGED ghosts
    BY <1>b DEF ApplyRevocations, Join, ReceiveControl, SaveDialed, pairing
  <1>1. ASSUME NEW h \in Handles, NEW l, NEW f, Starts(h, l, <<f>>), Formed(f),
               SameTickets(f, disk), SameTokens(f, disk)
        PROVE  Witnessed'
    <2>1. /\ Follows(f, disk, stale, owed', who) /\ Leads(f, disk, stale, owed', who)
          /\ Behind(f, disk, tok) /\ Binds(f, disk, tok)
      BY <1>1, <1>d, PlainTickets, PlainTokens
    <2>2. Underway([locks |-> l, copies |-> <<f>>], disk, stale, owed', who, tok)
      BY <1>1, <2>1, OneUnderway
    <2> QED BY <1>1, <1>d, <2>2, BeginsWitnessed
  <1>2. ASSUME NEW s \in Sessions, NEW rs \in SUBSET published, ApplyRevocations(s, rs)
        PROVE  Witnessed'
    <2> DEFINE known == {r \in rs : Applicable(disk, r)}
               new == {r[1] : r \in known}
               e == [p \in Peers |-> IF <<disk.peers[p], p>> \in known THEN Absent ELSE disk.peers[p]]
               c == [p \in Peers |-> IF \E r \in known : r[2] = p THEN NoToken ELSE disk.certs[p]]
               f == [disk EXCEPT !.revocations = @ \cup known, !.revoked = @ \cup new,
                                 !.peers = e, !.certs = c]
    <2>1. Starts(s, {"bind-op"}, <<f>>) BY <1>2 DEF ApplyRevocations, Begin
    <2>2. new \subseteq Tokens
      <3>1. known \subseteq Tokens \X Peers BY DEF Admission
      <3> HIDE DEF known
      <3> QED BY <3>1
    <2>3. /\ e = [p \in Peers |-> e[p]] /\ c = [p \in Peers |-> c[p]]
          /\ \A p \in Peers : e[p] \in {Absent, disk.peers[p]}
      OBVIOUS
    <2> HIDE DEF known, new, e, c
    <2>4. /\ Fields \subseteq DOMAIN f /\ f.peers = e /\ f.certs = c /\ f.version = disk.version
          /\ f.pairedBy = disk.pairedBy /\ f.awaiting = disk.awaiting /\ f.pending = disk.pending
          /\ f.bound = disk.bound /\ f.revoked = disk.revoked \cup new
      BY <1>c DEF Formed, Fields
    <2> HIDE DEF f
    <2>5. Formed(f) BY <1>c, <2>2, <2>3, <2>4 DEF Formed
    <2>6. SameTickets(f, disk) /\ SameTokens(f, disk)
      BY <2>3, <2>4, TrustAssumption DEF SameTickets, SameTokens
    <2> QED BY <1>1, <1>a, <2>1, <2>5, <2>6
  <1>3. ASSUME NEW p \in Peers, Join(p) PROVE Witnessed'
    <2> DEFINE e == [disk.peers EXCEPT ![p] = Full]
               f == [disk EXCEPT !.peers = e]
               g == [f EXCEPT !.guest = TRUE]
    <2>1. Starts(Command, {}, <<f, g>>) BY <1>3 DEF Join, Begin
    <2>2. /\ e = [q \in Peers |-> e[q]]
          /\ \A q \in Peers : e[q] \in {Full, disk.peers[q]}
      BY <1>c DEF Formed
    <2> HIDE DEF e
    <2>3. /\ Fields \subseteq DOMAIN f /\ f.peers = e /\ f.certs = disk.certs
          /\ f.version = disk.version /\ f.revoked = disk.revoked
          /\ f.pairedBy = disk.pairedBy /\ f.awaiting = disk.awaiting /\ f.pending = disk.pending
          /\ f.bound = disk.bound
      BY <1>c DEF Formed, Fields
    <2> HIDE DEF f
    <2>4. /\ Fields \subseteq DOMAIN g /\ g.peers = e /\ g.certs = disk.certs
          /\ g.version = disk.version /\ g.revoked = disk.revoked
          /\ g.pairedBy = disk.pairedBy /\ g.awaiting = disk.awaiting /\ g.pending = disk.pending
          /\ g.bound = disk.bound
      BY <2>3 DEF Fields
    <2> HIDE DEF g
    <2>5. ASSUME NEW x, Fields \subseteq DOMAIN x, x.peers = e, x.certs = disk.certs,
                 x.version = disk.version, x.revoked = disk.revoked, x.pairedBy = disk.pairedBy,
                 x.awaiting = disk.awaiting, x.pending = disk.pending, x.bound = disk.bound
          PROVE  /\ Formed(x) /\ Behind(x, disk, tok) /\ Binds(x, disk, tok)
                 /\ Follows(x, disk, stale, owed', who) /\ Leads(x, disk, stale, owed', who)
      <3>1. Formed(x) BY <1>c, <2>2, <2>5 DEF Formed
      <3>2. SameTickets(x, disk) /\ SameTokens(x, disk)
        BY <2>2, <2>5, TrustAssumption DEF SameTickets, SameTokens
      <3> QED BY <1>d, <3>1, <3>2, PlainTickets, PlainTokens
    <2>6. Underway([locks |-> {}, copies |-> <<f, g>>], disk, stale, owed', who, tok)
      <3>1. /\ Formed(f) /\ Behind(f, disk, tok) /\ Binds(f, disk, tok)
            /\ Follows(f, disk, stale, owed', who) /\ Leads(f, disk, stale, owed', who)
        BY <2>3, <2>5
      <3>2. /\ Formed(g) /\ Behind(g, disk, tok) /\ Binds(g, disk, tok)
            /\ Follows(g, disk, stale, owed', who) /\ Leads(g, disk, stale, owed', who)
        BY <2>4, <2>5
      <3> QED BY <3>1, <3>2, TwoUnderway
    <2> QED BY <1>a, <1>d, <2>1, <2>6, BeginsWitnessed
  <1>4. ASSUME NEW s \in Sessions, NEW c \in Controls, ReceiveControl(s, c) PROVE Witnessed'
    <2> DEFINE f == Nonced(disk, c)
    <2>1. Starts(s, {"nonce-op"}, <<f>>) BY <1>4 DEF ReceiveControl
    <2>2. /\ Fields \subseteq DOMAIN f /\ f.peers = disk.peers /\ f.certs = disk.certs
          /\ f.version = disk.version /\ f.revoked = disk.revoked
          /\ f.pairedBy = disk.pairedBy /\ f.awaiting = disk.awaiting /\ f.pending = disk.pending
          /\ f.bound = disk.bound
      BY <1>c DEF Formed, Fields, Nonced
    <2> HIDE DEF f
    <2>3. Formed(f) BY <1>c, <2>2 DEF Formed
    <2>4. SameTickets(f, disk) /\ SameTokens(f, disk) BY <2>2 DEF SameTickets, SameTokens
    <2> QED BY <1>1, <1>a, <2>1, <2>3, <2>4
  <1>5. CASE SaveDialed
    <2>1. Starts(Command, {}, <<disk>>) BY <1>5 DEF SaveDialed, Begin
    <2>2. SameTickets(disk, disk) /\ SameTokens(disk, disk) BY DEF SameTickets, SameTokens
    <2> QED BY <1>1, <1>a, <1>c, <2>1, <2>2
  <1> QED BY <1>2, <1>3, <1>4, <1>5

(* The operations of pairing begin with one copy that may be saved, under   *)
(* the lock of pairings.                                                    *)
LEMMA PairBegins ==
    ASSUME NEW d, NEW mm, NEW dg, NEW st, NEW ow, NEW mi, NEW th, NEW who, NEW tok, NEW l, NEW f,
           AdmittedBy(d, mm, dg, st, ow, mi, th, who, tok), "pair-op" \in l,
           Formed(f), SameTokens(f, d), Leads(f, d, st, ow, who)
    PROVE  Underway([locks |-> l, copies |-> <<f>>], d, st, ow, who, tok)
  <1>1. Behind(f, d, tok) /\ Binds(f, d, tok) BY PlainTokens
  <1> QED BY <1>1, OneUnderway

(* A ticket is minted that no removal can have known.                       *)
LEMMA RegisterOps ==
    ASSUME Copies, Admission, NEW t \in Tickets, RegisterTicket(t)
    PROVE  Witnessed'
  <1>a. Command \in Handles BY DEF Handles
  <1>b. PICK who \in [Tickets -> Peers \cup {NoPeer}], tok \in [Tokens -> Peers \cup {NoPeer}] :
          AdmittedBy(disk, mem, doing, stale, owed, minted, through, who, tok)
    BY DEF Admission, Witnessed
  <1>c. /\ Formed(disk) /\ Follows(disk, disk, stale, owed, who)
        /\ Ledger(disk, stale, owed, minted, through, who)
    BY <1>b DEF AdmittedBy, Sound
  <1> DEFINE f == [disk EXCEPT !.pending = @ \cup {t}]
  <1>1. /\ t \notin minted /\ minted' = minted \cup {t} /\ owed' = owed /\ UNCHANGED ghosts
        /\ Starts(Command, {"pair-op"}, <<f>>)
    BY DEF RegisterTicket, Begin
  <1>2. /\ Fields \subseteq DOMAIN f /\ f.peers = disk.peers /\ f.certs = disk.certs
        /\ f.version = disk.version /\ f.revoked = disk.revoked
        /\ f.pairedBy = disk.pairedBy /\ f.awaiting = disk.awaiting
        /\ f.pending = disk.pending \cup {t} /\ f.bound = disk.bound
    BY <1>c DEF Formed, Fields
  <1> HIDE DEF f
  <1>3. minted \subseteq minted' /\ minted' \subseteq Tickets BY <1>1, <1>c DEF Ledger
  <1>4. AdmittedBy(disk, mem, doing, stale, owed', minted', through, who, tok)
    <2>1. AdmittedBy(disk, mem, doing, stale, owed, minted', through, who, tok)
      BY <1>b, <1>3, MoreMinted
    <2> QED BY <1>1, <2>1
  <1>5. Formed(f) /\ SameTokens(f, disk) BY <1>c, <1>2 DEF Formed, SameTokens
  <1>6. Leads(f, disk, stale, owed', who)
    <2>1. \A q \in Peers : t \notin stale[q] BY <1>1, <1>c DEF Ledger
    <2>2. \A u \in Tickets : /\ f.awaiting[u] = disk.awaiting[u]
                             /\ u \in f.pending => u \in disk.pending \/ \A q \in Peers : u \notin stale[q]
      BY <1>2, <2>1
    <2>3. Leads(f, disk, stale, owed, who) BY <1>c, <1>2, <2>2, WaitLeads
    <2> QED BY <1>1, <2>3
  <1>7. Underway([locks |-> {"pair-op"}, copies |-> <<f>>], disk, stale, owed', who, tok)
    BY <1>4, <1>5, <1>6, PairBegins
  <1> QED BY <1>1, <1>4, <1>7, <1>a, BeginsWitnessed

(* A pending ticket is accepted: it admits the peer that brought it.        *)
LEMMA AcceptOps ==
    ASSUME Copies, Admission, NEW s \in Sessions, NEW t \in Tickets, AcceptPair(s, t)
    PROVE  Witnessed'
  <1> DEFINE p == remote[s]
             f == Spent(disk, t)
             g == IF AutoConfirm THEN Paired(f, p, t) ELSE [f EXCEPT !.awaiting[t] = p]
  <1>a. s \in Handles BY DEF Handles
  <1>b. PICK who \in [Tickets -> Peers \cup {NoPeer}], tok \in [Tokens -> Peers \cup {NoPeer}] :
          AdmittedBy(disk, mem, doing, stale, owed, minted, through, who, tok)
    BY DEF Admission, Witnessed
  <1>c. /\ Formed(disk) /\ Follows(disk, disk, stale, owed, who)
        /\ Ledger(disk, stale, owed, minted, through, who)
    BY <1>b DEF AdmittedBy, Sound
  <1>1. /\ mem[s] # Closed /\ Free({"pair-op"}) /\ t \in disk.pending /\ t \notin disk.used
        /\ doing' = [doing EXCEPT ![s] = [locks |-> {"pair-op"}, copies |-> <<g>>]]
        /\ owed' = IF AutoConfirm THEN owed ELSE owed \cup {<<t, p>>}
        /\ mem' = [mem EXCEPT ![s] = disk] /\ UNCHANGED <<disk, minted, stale, through>>
    BY DEF AcceptPair, ghosts
  <1>2. p \in Peers BY <1>1 DEF Admission, Connected
  <1>3. \A q \in Peers : t \notin stale[q] BY <1>1, <1>c DEF Ledger
  <1>4. AutoConfirm => owed = {} BY <1>c DEF Ledger
  <1> DEFINE w2 == [who EXCEPT ![t] = p]
  <1>5. w2 \in [Tickets -> Peers \cup {NoPeer}] /\ w2[t] = p BY <1>2
  <1> HIDE DEF p
  <1>6. AdmittedBy(disk, mem, doing, stale, owed', minted', through, w2, tok)
    <2>1. \A h \in Handles : "pair-op" \notin doing[h].locks BY <1>1 DEF Free
    <2>2. owed' = owed \/ (owed' = owed \cup {<<t, p>>} /\ ~AutoConfirm) BY <1>1
    <2>3. AdmittedBy(disk, mem, doing, stale, owed', minted, through, w2, tok)
      BY <1>b, <1>1, <1>2, <2>1, <2>2, TicketChosen
    <2> QED BY <1>1, <2>3
  <1> HIDE DEF w2
  <1>d. /\ Follows(disk, disk, stale, owed', w2)
        /\ Ledger(disk, stale, owed', minted', through, w2)
    BY <1>6 DEF AdmittedBy, Sound
  <1>7. /\ Formed(f) /\ f.version = disk.version /\ f.pairedBy = disk.pairedBy
        /\ f.awaiting = disk.awaiting /\ f.pending = disk.pending \ {t}
        /\ f.used = disk.used \cup {t} /\ f.peers = disk.peers /\ f.bound = disk.bound
    BY <1>c, SpentFields
  <1> HIDE DEF f
  <1>8. Formed(g) /\ SameTokens(g, disk) /\ Leads(g, disk, stale, owed', w2)
    <2>1. CASE AutoConfirm
      <3>1. g = Paired(f, p, t) BY <2>1
      <3> HIDE DEF g
      <3>2. /\ Formed(g) /\ g.awaiting = f.awaiting /\ g.pending = f.pending /\ g.used = f.used
            /\ g.bound = f.bound
            /\ \A q \in Peers : /\ g.version[q] = IF q = p THEN f.version[q] + 1 ELSE f.version[q]
                                /\ g.pairedBy[q] = IF q = p THEN t ELSE f.pairedBy[q]
                                /\ g.peers[q] = IF q = p THEN Full ELSE f.peers[q]
        BY <1>2, <1>7, <3>1, PairedFields
      <3>3. <<t, p>> \notin owed' BY <1>1, <1>4, <2>1
      <3>4. Renewed(g, disk, p, t) BY <1>7, <3>2, TrustAssumption DEF Renewed
      <3>5. t \in g.used \cup disk.used /\ w2[t] = p /\ t \notin stale[p]
        BY <1>2, <1>3, <1>5, <1>7, <3>2
      <3>6. Leads(g, disk, stale, owed', w2)
        BY <1>2, <1>c, <1>d, <3>3, <3>4, <3>5, PairLeads
      <3>7. SameTokens(g, disk) BY <1>7, <3>2, TrustAssumption DEF SameTokens
      <3> QED BY <3>2, <3>6, <3>7
    <2>2. CASE ~AutoConfirm
      <3> DEFINE a == [f.awaiting EXCEPT ![t] = p]
      <3>1. g = [f EXCEPT !.awaiting = a] BY <2>2
      <3>2. a = [u \in Tickets |-> a[u]] /\ \A u \in Tickets : a[u] = IF u = t THEN p ELSE disk.awaiting[u]
        BY <1>7 DEF Formed
      <3> HIDE DEF a, g
      <3>3. /\ Fields \subseteq DOMAIN g /\ g.peers = f.peers /\ g.certs = f.certs
            /\ g.version = f.version /\ g.revoked = f.revoked /\ g.used = f.used
            /\ g.pairedBy = f.pairedBy /\ g.awaiting = a
            /\ g.pending = f.pending /\ g.bound = f.bound
        BY <1>7, <3>1 DEF Formed, Fields
      <3>4. Formed(g) /\ SameTokens(g, disk) BY <1>7, <3>2, <3>3 DEF Formed, SameTokens
      <3>5. \A u \in Tickets :
               /\ \/ g.awaiting[u] = disk.awaiting[u]
                  \/ u \in g.used /\ w2[u] = g.awaiting[u] /\ \A q \in Peers : u \notin stale[q]
               /\ u \in g.pending => u \in disk.pending \/ \A q \in Peers : u \notin stale[q]
        BY <1>3, <1>5, <1>7, <3>2, <3>3
      <3>6. g.version = disk.version /\ g.pairedBy = disk.pairedBy BY <1>7, <3>3
      <3>7. Leads(g, disk, stale, owed', w2) BY <1>c, <1>d, <3>5, <3>6, WaitLeads
      <3> QED BY <3>4, <3>7
    <2> QED BY <2>1, <2>2
  <1> HIDE DEF g
  <1>9. Underway([locks |-> {"pair-op"}, copies |-> <<g>>], disk, stale, owed', w2, tok)
    BY <1>6, <1>8, PairBegins
  <1>10. AdmittedBy(disk', mem', doing', stale', owed', minted', through', w2, tok)
    BY <1>1, <1>6, <1>9, <1>a, StartsAdmits
  <1> QED BY <1>5, <1>10 DEF Witnessed

(* A confirmation is read, or this device's own request was accepted.       *)
LEMMA ConfirmOps ==
    ASSUME Copies, Admission, NEW s \in Sessions, NEW t \in Tickets, ConfirmPair(s, t)
    PROVE  Witnessed'
  <1> DEFINE p == remote[s]
             f == Paired(disk, p, t)
             g == [f EXCEPT !.awaiting[t] = NoPeer]
  <1>a. s \in Handles BY DEF Handles
  <1>b. PICK who \in [Tickets -> Peers \cup {NoPeer}], tok \in [Tokens -> Peers \cup {NoPeer}] :
          AdmittedBy(disk, mem, doing, stale, owed, minted, through, who, tok)
    BY DEF Admission, Witnessed
  <1>c. /\ Formed(disk) /\ Follows(disk, disk, stale, owed, who)
        /\ Ledger(disk, stale, owed, minted, through, who)
    BY <1>b DEF AdmittedBy, Sound
  <1>1. /\ <<t, p>> \in owed /\ owed' = owed \ {<<t, p>>} /\ t \notin disk.cancelled
        /\ disk.awaiting[t] = p /\ UNCHANGED <<minted, ghosts>>
        /\ Starts(s, {"pair-op"}, <<g>>)
    BY DEF ConfirmPair, Begin
  <1>2. p \in Peers /\ p # NoPeer BY <1>1, <1>c, TrustAssumption DEF Ledger
  <1>3. t \in disk.used /\ who[t] = p /\ t \notin stale[p] BY <1>1, <1>2, <1>c DEF Ledger, Follows
  <1> HIDE DEF p
  <1>4. AdmittedBy(disk, mem, doing, stale, owed', minted', through, who, tok)
    <2>1. owed' \subseteq owed /\ minted' = minted BY <1>1
    <2>2. AdmittedBy(disk, mem, doing, stale, owed', minted, through, who, tok)
      BY <1>b, <2>1, FewerOwed
    <2> QED BY <2>1, <2>2
  <1>d. /\ Follows(disk, disk, stale, owed', who)
        /\ Ledger(disk, stale, owed', minted', through, who)
    BY <1>4 DEF AdmittedBy, Sound
  <1>5. /\ Formed(f) /\ f.awaiting = disk.awaiting /\ f.pending = disk.pending /\ f.used = disk.used
        /\ f.bound = disk.bound
        /\ \A q \in Peers : /\ f.version[q] = IF q = p THEN disk.version[q] + 1 ELSE disk.version[q]
                            /\ f.pairedBy[q] = IF q = p THEN t ELSE disk.pairedBy[q]
                            /\ f.peers[q] = IF q = p THEN Full ELSE disk.peers[q]
    BY <1>2, <1>c, PairedFields
  <1> DEFINE a == [f.awaiting EXCEPT ![t] = NoPeer]
  <1>6. g = [f EXCEPT !.awaiting = a] OBVIOUS
  <1>7. a = [u \in Tickets |-> a[u]] /\ \A u \in Tickets : a[u] \in {NoPeer, disk.awaiting[u]}
    BY <1>5 DEF Formed
  <1> HIDE DEF a, f, g
  <1>8. /\ Fields \subseteq DOMAIN g /\ g.peers = f.peers /\ g.certs = f.certs
        /\ g.version = f.version /\ g.revoked = f.revoked /\ g.used = f.used
        /\ g.pairedBy = f.pairedBy /\ g.awaiting = a
        /\ g.pending = f.pending /\ g.bound = f.bound
    BY <1>5, <1>6 DEF Formed, Fields
  <1>9. Formed(g) BY <1>5, <1>7, <1>8 DEF Formed
  <1>10. SameTokens(g, disk) BY <1>5, <1>8, TrustAssumption DEF SameTokens
  <1>11. Leads(g, disk, stale, owed', who)
    <2>1. Renewed(g, disk, p, t) BY <1>5, <1>7, <1>8, TrustAssumption DEF Renewed
    <2>2. t \in g.used \cup disk.used /\ <<t, p>> \notin owed' BY <1>1, <1>3
    <2> QED BY <1>2, <1>3, <1>c, <1>d, <2>1, <2>2, PairLeads
  <1>12. Underway([locks |-> {"pair-op"}, copies |-> <<g>>], disk, stale, owed', who, tok)
    BY <1>4, <1>9, <1>10, <1>11, PairBegins
  <1> QED BY <1>1, <1>4, <1>12, <1>a, BeginsWitnessed DEF ghosts

(* This device is the one that joins, by another's invitation.              *)
LEMMA JoinerOps ==
    ASSUME Copies, Admission, NEW i \in Invites, CompletePair(i)
    PROVE  Witnessed'
  <1> DEFINE p == Inviter[i]
             f == Paired(disk, p, i)
  <1>a. Command \in Handles BY DEF Handles
  <1>b. PICK who \in [Tickets -> Peers \cup {NoPeer}], tok \in [Tokens -> Peers \cup {NoPeer}] :
          AdmittedBy(disk, mem, doing, stale, owed, minted, through, who, tok)
    BY DEF Admission, Witnessed
  <1>c. /\ Formed(disk) /\ Follows(disk, disk, stale, owed, who)
        /\ Ledger(disk, stale, owed, minted, through, who)
    BY <1>b DEF AdmittedBy, Sound
  <1>1. UNCHANGED <<minted, owed>> /\ UNCHANGED ghosts /\ Starts(Command, {"pair-op"}, <<f>>)
    BY DEF CompletePair, Begin, Joined, pairing
  <1>2. p \in Peers /\ i \notin Tickets BY TrustAssumption
  <1>3. i \notin stale[p] /\ <<i, p>> \notin owed BY <1>2, <1>c DEF Ledger
  <1> HIDE DEF p
  <1>4. /\ Formed(f) /\ f.awaiting = disk.awaiting /\ f.pending = disk.pending
        /\ f.bound = disk.bound
        /\ \A q \in Peers : /\ f.version[q] = IF q = p THEN disk.version[q] + 1 ELSE disk.version[q]
                            /\ f.pairedBy[q] = IF q = p THEN i ELSE disk.pairedBy[q]
                            /\ f.peers[q] = IF q = p THEN Full ELSE disk.peers[q]
    BY <1>2, <1>c, PairedFields
  <1> HIDE DEF f
  <1>5. SameTokens(f, disk) BY <1>4, TrustAssumption DEF SameTokens
  <1>6. Leads(f, disk, stale, owed, who)
    <2>1. Renewed(f, disk, p, i) BY <1>4, TrustAssumption DEF Renewed
    <2>2. i \in Tickets => i \in f.used \cup disk.used /\ who[i] = p BY <1>2
    <2> QED BY <1>2, <1>3, <1>4, <1>c, <2>1, <2>2, PairLeads
  <1>7. Underway([locks |-> {"pair-op"}, copies |-> <<f>>], disk, stale, owed, who, tok)
    BY <1>4, <1>5, <1>6, <1>b, PairBegins
  <1> QED BY <1>1, <1>7, <1>a, <1>b, BeginsWitnessed

(* A peer is removed.                                                       *)
LEMMA RemoveOps ==
    ASSUME Copies, Admission, NEW p \in Peers, RemovePeer(p)
    PROVE  Witnessed'
  <1> DEFINE gone == {disk.peers[p]} \cap Tokens
             more == {disk.certs[g] : g \in Peers} \cap {k \in Tokens : Issuer[k] = p}
             off == Cancelled(disk, p)
             f == Removal(disk, p, off, gone, more)
  <1>a. Command \in Handles BY DEF Handles
  <1>b. PICK who \in [Tickets -> Peers \cup {NoPeer}], tok \in [Tokens -> Peers \cup {NoPeer}] :
          AdmittedBy(disk, mem, doing, stale, owed, minted, through, who, tok)
    BY DEF Admission, Witnessed
  <1>c. /\ Formed(disk) /\ Follows(disk, disk, stale, owed, who)
        /\ Ledger(disk, stale, owed, minted, through, who)
    BY <1>b DEF AdmittedBy, Sound
  <1>1. /\ UNCHANGED <<minted, owed>> /\ UNCHANGED ghosts
        /\ Starts(Command, {"pair-op", "bind-op"}, <<f>>)
    BY DEF RemovePeer, Begin, pairing, Removal
  <1>2. gone \subseteq Tokens /\ more \subseteq Tokens OBVIOUS
  <1>3. \A t \in Tickets : disk.awaiting[t] = p => t \in off BY DEF Cancelled
  <1> HIDE DEF gone, more, off
  <1>4. /\ Formed(f)
        /\ \A q \in Peers : /\ f.version[q] = IF q = p THEN disk.version[q] + 1 ELSE disk.version[q]
                            /\ f.pairedBy[q] = IF q = p THEN NoTicket ELSE disk.pairedBy[q]
                            /\ f.peers[q] = IF q = p THEN Absent ELSE disk.peers[q]
        /\ \A t \in Tickets : f.awaiting[t] = IF disk.awaiting[t] = p THEN NoPeer ELSE disk.awaiting[t]
        /\ f.pending = disk.pending /\ f.used = disk.used \cup disk.pending
        /\ f.cancelled = disk.cancelled \cup off /\ f.bound = disk.bound
    BY <1>2, <1>c, RemovalFields
  <1> HIDE DEF f
  <1>5. SameTokens(f, disk) BY <1>4, TrustAssumption DEF SameTokens
  <1>6. Leads(f, disk, stale, owed, who)
    <2>1. disk.pending \subseteq f.used /\ \A t \in Tickets : disk.awaiting[t] = p => t \in f.cancelled
      BY <1>3, <1>4
    <2> QED BY <1>4, <1>c, <2>1, RemovalLeads
  <1>7. Underway([locks |-> {"pair-op", "bind-op"}, copies |-> <<f>>], disk, stale, owed, who, tok)
    BY <1>4, <1>5, <1>6, <1>b, PairBegins
  <1> QED BY <1>1, <1>7, <1>a, <1>b, BeginsWitnessed

(* A token is revoked, or the certificate of another issuer's guest comes.  *)
LEMMA TokenOps ==
    ASSUME Copies, Admission,
           \/ \E k \in Tokens : RevokeToken(k)
           \/ \E s \in Sessions, k \in Tokens : InstallCertificate(s, k)
    PROVE  Witnessed'
  <1>a. Sessions \subseteq Handles /\ Command \in Handles BY DEF Handles
  <1>b. PICK who \in [Tickets -> Peers \cup {NoPeer}], tok \in [Tokens -> Peers \cup {NoPeer}] :
          AdmittedBy(disk, mem, doing, stale, owed, minted, through, who, tok)
    BY DEF Admission, Witnessed
  <1>c. /\ Formed(disk) /\ Behind(disk, disk, tok) /\ Register(disk, through, tok)
    BY <1>b DEF AdmittedBy, Sound
  <1>d. UNCHANGED <<owed, minted>> /\ UNCHANGED ghosts
    BY DEF RevokeToken, InstallCertificate, pairing
  <1>1. ASSUME NEW h \in Handles, NEW f, Starts(h, {"bind-op"}, <<f>>), Formed(f),
               SameTickets(f, disk), Behind(f, disk, tok)
        PROVE  Witnessed'
    <2>1. Follows(f, disk, stale, owed, who) /\ Leads(f, disk, stale, owed, who)
      BY <1>1, <1>b, PlainTickets
    <2>2. Binds(f, disk, tok) BY <1>1, BehindBinds
    <2>3. Underway([locks |-> {"bind-op"}, copies |-> <<f>>], disk, stale, owed, who, tok)
      BY <1>1, <2>1, <2>2, OneUnderway
    <2> QED BY <1>1, <1>b, <1>d, <2>3, BeginsWitnessed
  <1>2. ASSUME NEW k \in Tokens, RevokeToken(k) PROVE Witnessed'
    <2> DEFINE e == [p \in Peers |-> IF disk.peers[p] = k THEN Absent ELSE disk.peers[p]]
               c == [p \in Peers |-> IF disk.certs[p] = k THEN NoToken ELSE disk.certs[p]]
               b == [disk.bound EXCEPT ![k] = NoPeer]
               x == {k} \X {g \in Peers : disk.certs[g] = k}
               f == [disk EXCEPT !.revoked = @ \cup {k}, !.revocations = @ \cup x,
                                 !.peers = e, !.bound = b, !.certs = c]
    <2>1. Starts(Command, {"bind-op"}, <<f>>) BY <1>2 DEF RevokeToken, Begin
    <2>2. /\ e = [p \in Peers |-> e[p]] /\ c = [p \in Peers |-> c[p]] /\ b = [u \in Tokens |-> b[u]]
          /\ \A p \in Peers : e[p] \in {Absent, disk.peers[p]}
          /\ \A u \in Tokens : b[u] \in {NoPeer, disk.bound[u]}
      BY <1>c DEF Formed
    <2> HIDE DEF e, c, b, x
    <2>3. /\ Fields \subseteq DOMAIN f /\ f.peers = e /\ f.certs = c /\ f.version = disk.version
          /\ f.pairedBy = disk.pairedBy /\ f.awaiting = disk.awaiting /\ f.pending = disk.pending
          /\ f.bound = b /\ f.revoked = disk.revoked \cup {k}
      BY <1>c DEF Formed, Fields
    <2> HIDE DEF f
    <2>4. Formed(f) BY <1>c, <2>2, <2>3 DEF Formed
    <2>5. SameTickets(f, disk) /\ SameTokens(f, disk)
      BY <2>2, <2>3, TrustAssumption DEF SameTickets, SameTokens
    <2>6. Behind(f, disk, tok) BY <1>c, <2>5, SameBehind
    <2> QED BY <1>1, <1>a, <2>1, <2>4, <2>5, <2>6
  <1>3. ASSUME NEW s \in Sessions, NEW k \in Tokens, InstallCertificate(s, k) PROVE Witnessed'
    <2> DEFINE g == Bearer[k]
               e == [disk.peers EXCEPT ![g] = k]
               c == [disk.certs EXCEPT ![g] = k]
               f == [disk EXCEPT !.peers = e, !.certs = c]
    <2>1. Starts(s, {"bind-op"}, <<f>>) /\ Issuer[k] \in Peers
      BY <1>3 DEF InstallCertificate, Begin, Delegated, Certified
    <2>2. Issuer[k] # Self /\ tok[k] = g BY <1>c, <2>1, TrustAssumption DEF Register
    <2>3. /\ e = [p \in Peers |-> e[p]] /\ c = [p \in Peers |-> c[p]]
          /\ \A p \in Peers : e[p] = IF p = g THEN k ELSE disk.peers[p]
      BY <1>c DEF Formed
    <2> HIDE DEF e, c, g
    <2>4. /\ Fields \subseteq DOMAIN f /\ f.peers = e /\ f.certs = c /\ f.version = disk.version
          /\ f.pairedBy = disk.pairedBy /\ f.awaiting = disk.awaiting /\ f.pending = disk.pending
          /\ f.bound = disk.bound /\ f.revoked = disk.revoked
      BY <1>c DEF Formed, Fields
    <2> HIDE DEF f
    <2>5. Formed(f) BY <1>c, <2>3, <2>4 DEF Formed
    <2>6. SameTickets(f, disk) BY <2>4 DEF SameTickets
    <2>7. Behind(f, disk, tok) BY <1>c, <2>2, <2>3, <2>4 DEF Behind
    <2> QED BY <1>1, <1>a, <2>1, <2>5, <2>6, <2>7
  <1> QED BY <1>2, <1>3

(* A guest enrols with a token, which binds it from now on.                 *)
LEMMA BindOps ==
    ASSUME Copies, Admission, NEW s \in Sessions, NEW k \in Tokens, BindEnrollment(s, k)
    PROVE  Witnessed'
  <1> DEFINE g == remote[s]
             b == [disk.bound EXCEPT ![k] = g]
             e == [disk.peers EXCEPT ![g] = k]
             f == [disk EXCEPT !.bound = b, !.peers = e]
             c == [f.certs EXCEPT ![g] = k]
             j == [f EXCEPT !.certs = c]
  <1>a. s \in Handles BY DEF Handles
  <1>b. PICK who \in [Tickets -> Peers \cup {NoPeer}], tok \in [Tokens -> Peers \cup {NoPeer}] :
          AdmittedBy(disk, mem, doing, stale, owed, minted, through, who, tok)
    BY DEF Admission, Witnessed
  <1>c. Formed(disk) /\ Behind(disk, disk, tok) BY <1>b DEF AdmittedBy, Sound
  <1>d. UNCHANGED <<owed, minted>> /\ UNCHANGED ghosts BY DEF BindEnrollment, pairing
  <1>1. /\ g \in Peers /\ Issuer[k] = Self /\ disk.bound[k] \in {NoPeer, g}
        /\ Free({"bind-op"}) /\ Starts(s, {"bind-op"}, <<f, j>>)
    <2>1. /\ g \in Guests /\ Issuer[k] = Self /\ disk.bound[k] \in {NoPeer, g}
          /\ Free({"bind-op"}) /\ Starts(s, {"bind-op"}, <<f, j>>)
      BY DEF BindEnrollment, Begin, Starts, Presentable
    <2> QED BY <2>1, TrustAssumption
  <1>2. PICK t2 \in [Tokens -> Peers \cup {NoPeer}] :
          /\ AdmittedBy(disk, mem, doing, stale, owed, minted, through, who, t2)
          /\ t2[k] = g
    <2>1. CASE disk.bound[k] = NoPeer
      <3> DEFINE t2 == [tok EXCEPT ![k] = g]
      <3>1. \A h \in Handles : "bind-op" \notin doing[h].locks BY <1>1 DEF Free
      <3>2. AdmittedBy(disk, mem, doing, stale, owed, minted, through, who, t2)
        BY <1>b, <1>1, <2>1, <3>1, TokenChosen
      <3>3. t2 \in [Tokens -> Peers \cup {NoPeer}] /\ t2[k] = g BY <1>1
      <3> QED BY <3>2, <3>3
    <2>2. CASE disk.bound[k] # NoPeer
      <3>1. tok[k] = g BY <1>1, <1>c, <2>2 DEF Behind
      <3> QED BY <1>b, <3>1
    <2> QED BY <2>1, <2>2
  <1>3. /\ e = [p \in Peers |-> e[p]] /\ b = [u \in Tokens |-> b[u]]
        /\ \A p \in Peers : e[p] = IF p = g THEN k ELSE disk.peers[p]
        /\ \A u \in Tokens : b[u] = IF u = k THEN g ELSE disk.bound[u]
    BY <1>c DEF Formed
  <1> HIDE DEF b, e, g
  <1>4. /\ Fields \subseteq DOMAIN f /\ f.peers = e /\ f.certs = disk.certs /\ f.version = disk.version
        /\ f.pairedBy = disk.pairedBy /\ f.awaiting = disk.awaiting /\ f.pending = disk.pending
        /\ f.bound = b /\ f.revoked = disk.revoked
    BY <1>c DEF Formed, Fields
  <1>5. c = [p \in Peers |-> c[p]] BY <1>4, <1>c DEF Formed
  <1> HIDE DEF c, f
  <1>6. /\ Fields \subseteq DOMAIN j /\ j.peers = e /\ j.certs = c /\ j.version = disk.version
        /\ j.pairedBy = disk.pairedBy /\ j.awaiting = disk.awaiting /\ j.pending = disk.pending
        /\ j.bound = b /\ j.revoked = disk.revoked
    BY <1>4 DEF Fields
  <1> HIDE DEF j
  <1>7. Formed(f) /\ Formed(j) BY <1>c, <1>3, <1>4, <1>5, <1>6 DEF Formed
  <1>8. Behind(disk, disk, t2) BY <1>2 DEF AdmittedBy, Sound
  <1>9. ASSUME NEW x, x.peers = e, x.bound = b PROVE Binds(x, disk, t2)
    <2>1. ASSUME NEW p \in Peers, x.peers[p] \in Tokens
          PROVE  /\ t2[x.peers[p]] = p
                 /\ Issuer[x.peers[p]] = Self => p \in {x.bound[x.peers[p]], disk.bound[x.peers[p]]}
      <3>1. CASE p = g BY <1>2, <1>3, <1>9, <3>1
      <3>2. CASE p # g BY <1>3, <1>8, <1>9, <2>1, <3>2 DEF Behind
      <3> QED BY <3>1, <3>2
    <2>2. ASSUME NEW u \in Tokens, x.bound[u] # NoPeer PROVE t2[u] = x.bound[u]
      BY <1>2, <1>3, <1>8, <1>9, <2>2 DEF Behind
    <2> QED BY <2>1, <2>2 DEF Binds
  <1>10. Binds(f, disk, t2) /\ Binds(j, disk, t2) BY <1>4, <1>6, <1>9
  <1>11. SameTickets(f, disk) /\ SameTickets(j, disk) BY <1>4, <1>6 DEF SameTickets
  <1>12. /\ Follows(f, disk, stale, owed, who) /\ Leads(f, disk, stale, owed, who)
         /\ Follows(j, disk, stale, owed, who) /\ Leads(j, disk, stale, owed, who)
    BY <1>2, <1>7, <1>11, PlainTickets
  <1>13. Underway([locks |-> {"bind-op"}, copies |-> <<f, j>>], disk, stale, owed, who, t2)
    BY <1>7, <1>10, <1>12, TwoUnderway
  <1> QED BY <1>1, <1>2, <1>13, <1>a, <1>d, BeginsWitnessed

(* What the file trusts is already on record.                               *)
LEMMA RecordedAdmits ==
    ASSUME NEW d, NEW mm, NEW dg, NEW st, NEW ow, NEW mi, NEW th, NEW h2, NEW who, NEW tok,
           AdmittedBy(d, mm, dg, st, ow, mi, th, who, tok), h2 = th \cup Admitted(d)
    PROVE  AdmittedBy(d, mm, dg, st, ow, mi, h2, who, tok)
  <1>1. /\ Follows(d, d, st, ow, who) /\ Behind(d, d, tok)
        /\ Ledger(d, st, ow, mi, th, who) /\ Register(d, th, tok)
    BY DEF AdmittedBy, Sound
  <1>2. \A k \in Tokens : k \notin Tickets BY TrustAssumption
  <1>3. ASSUME NEW p \in Peers, NEW t \in Tickets, <<t, p>> \in h2 PROVE t \in d.used /\ who[t] = p
    <2>1. CASE <<t, p>> \in th BY <1>1, <2>1 DEF Ledger
    <2>2. CASE <<t, p>> \in Admitted(d)
      <3>1. d.pairedBy[p] = t BY <1>2, <2>2 DEF Admitted
      <3> QED BY <1>1, <3>1 DEF Follows
    <2> QED BY <1>3, <2>1, <2>2
  <1>4. ASSUME NEW p \in Peers, NEW k \in Tokens, <<k, p>> \in h2
        PROVE  tok[k] = p /\ (Issuer[k] = Self => d.bound[k] = p)
    <2>1. CASE <<k, p>> \in th BY <1>1, <2>1 DEF Register
    <2>2. CASE <<k, p>> \in Admitted(d)
      <3>1. d.peers[p] = k BY <1>2, <2>2 DEF Admitted
      <3> QED BY <1>1, <3>1 DEF Behind
    <2> QED BY <1>4, <2>1, <2>2
  <1>5. Admitted(d) \subseteq (Tickets \cup Tokens) \X Peers BY DEF Admitted
  <1>6. Ledger(d, st, ow, mi, h2, who)
    <2>1. h2 \subseteq (Tickets \cup Tokens) \X Peers BY <1>1, <1>5 DEF Ledger
    <2> QED BY <1>1, <1>3, <2>1 DEF Ledger
  <1>7. Register(d, h2, tok) BY <1>1, <1>4 DEF Register
  <1> QED BY <1>6, <1>7 DEF AdmittedBy

(* An operation's next copy is saved.                                       *)
LEMMA SaveOps ==
    ASSUME Copies, Admission, NEW h \in Handles, Save(h)
    PROVE  Witnessed' /\ \E m : Blend(disk', m, disk)
  <1> DEFINE todo == doing[h].copies
             m == Head(todo)
             o == IF Len(todo) = 1 THEN Idle ELSE [doing[h] EXCEPT !.copies = Tail(todo)]
  <1>a. Sessions \subseteq Handles BY DEF Handles
  <1>b. PICK who \in [Tickets -> Peers \cup {NoPeer}], tok \in [Tokens -> Peers \cup {NoPeer}] :
          AdmittedBy(disk, mem, doing, stale, owed, minted, through, who, tok)
    BY DEF Admission, Witnessed
  <1>c. /\ doing = [j \in Handles |-> doing[j]] /\ mem = [s \in Sessions |-> mem[s]]
        /\ doing[h] = [locks |-> doing[h].locks, copies |-> doing[h].copies]
    BY DEF Copies
  <1>d. Formed(disk) /\ \A j \in Handles : Underway(doing[j], disk, stale, owed, who, tok)
    BY <1>b DEF AdmittedBy, Sound
  <1>1. /\ todo # <<>> /\ disk' = Saved(m, disk) /\ doing' = [doing EXCEPT ![h] = o]
        /\ mem' = mem \/ mem' = [mem EXCEPT ![h] = m]
        /\ stale' = [p \in Peers |-> IF Removes(m, p) THEN minted ELSE stale[p]]
        /\ through' = through \cup Admitted(disk') /\ UNCHANGED <<owed, minted>>
    BY <1>c DEF Save, pairing
  <1>2. /\ 1 \in DOMAIN todo /\ m = todo[1]
        /\ \/ Len(todo) = 1
           \/ /\ Len(todo) = 2 /\ Tail(todo) = <<todo[2]>> /\ 2 \in DOMAIN todo
    <2>1. Queue(todo) BY DEF Copies
    <2> HIDE DEF todo
    <2>2. CASE \E f : todo = <<f>>
      <3>1. PICK f : todo = <<f>> BY <2>2
      <3>2. Len(todo) = 1 /\ 1 \in DOMAIN todo /\ Head(todo) = todo[1] BY <3>1
      <3> QED BY <3>2
    <2>3. CASE \E f, g : todo = <<f, g>>
      <3>1. PICK f, g : todo = <<f, g>> BY <2>3
      <3>2. /\ Len(todo) = 2 /\ 1 \in DOMAIN todo /\ 2 \in DOMAIN todo
            /\ Head(todo) = todo[1] /\ Tail(todo) = <<todo[2]>>
        BY <3>1
      <3> QED BY <3>2
    <2> QED BY <1>1, <2>1, <2>2, <2>3 DEF Queue
  <1>3. /\ Formed(m) /\ Binds(m, disk, tok) /\ Leads(m, disk, stale, owed, who)
        /\ "pair-op" \notin doing[h].locks => Follows(m, disk, stale, owed, who)
        /\ "pair-op" \in doing[h].locks => Len(todo) <= 1
    BY <1>2, <1>d DEF Underway
  <1>4. Blend(disk', m, disk) BY <1>1, <1>3, <1>d, SavedFields
  <1>5. Marks(stale', stale, m, disk, minted) BY <1>1 DEF Marks, Removes
  <1>6. Reduced(o, doing[h]) /\ "pair-op" \notin o.locks
    <2>1. CASE Len(todo) = 1
      <3>1. o.locks = {} /\ o.copies = <<>> BY <2>1 DEF Idle
      <3>2. DOMAIN o.copies = {} BY <3>1
      <3> HIDE DEF o
      <3> QED BY <3>1, <3>2 DEF Reduced
    <2>2. CASE Len(todo) # 1
      <3>1. o.locks = doing[h].locks /\ o.copies = Tail(todo) BY <1>c, <2>2
      <3>2. Len(todo) = 2 /\ Tail(todo) = <<todo[2]>> /\ 2 \in DOMAIN todo BY <1>2, <2>2
      <3>3. "pair-op" \notin doing[h].locks BY <1>3, <3>2
      <3> HIDE DEF o, todo
      <3>4. DOMAIN o.copies = {1} /\ o.copies[1] = todo[2] BY <3>1, <3>2
      <3>5. \A i \in DOMAIN o.copies : \E j \in DOMAIN todo : o.copies[i] = todo[j]
        BY <3>2, <3>4
      <3> QED BY <3>1, <3>3, <3>5 DEF Reduced, todo
    <2> QED BY <2>1, <2>2
  <1>7. \A j \in Handles : doing'[j] = IF j = h THEN o ELSE doing[j] BY <1>1, <1>c
  <1>8. \A j \in Handles : Reduced(doing'[j], doing[j])
    <2> SUFFICES ASSUME NEW j \in Handles PROVE Reduced(doing'[j], doing[j]) OBVIOUS
    <2>1. CASE j = h
      <3>1. doing'[j] = o BY <1>7, <2>1
      <3> HIDE DEF o
      <3> QED BY <1>6, <2>1, <3>1
    <2>2. CASE j # h
      <3>1. doing'[j] = doing[j] BY <1>7, <2>2
      <3>2. "pair-op" \in doing[j].locks => Len(doing[j].copies) <= 1 BY <1>d DEF Underway
      <3> QED BY <3>1, <3>2 DEF Reduced
    <2> QED BY <2>1, <2>2
  <1>e. Follows(m, disk, stale, owed, who) \/ \A j \in Handles : "pair-op" \notin doing'[j].locks
    <2> SUFFICES ASSUME ~Follows(m, disk, stale, owed, who), NEW j \in Handles
                 PROVE  "pair-op" \notin doing'[j].locks
      OBVIOUS
    <2>1. "pair-op" \in doing[h].locks BY <1>3
    <2>2. j # h => "pair-op" \notin doing[j].locks BY <2>1 DEF Admission, Exclusive
    <2> HIDE DEF o, m
    <2> QED BY <1>6, <1>7, <2>2
  <1>9. Kept(mem', mem, m) BY <1>1, <1>c DEF Kept
  <1> HIDE DEF m, o, todo
  <1>10. AdmittedBy(disk', mem', doing', stale', owed, minted, through', who, tok)
    BY <1>b, <1>1, <1>3, <1>4, <1>5, <1>8, <1>9, <1>e, SavesAdmit
  <1>11. AdmittedBy(disk', mem', doing', stale', owed', minted', through', who, tok)
    BY <1>1, <1>10
  <1> QED BY <1>4, <1>11 DEF Witnessed

(* A session ends and saves the copy its last frame left it, however old.   *)
LEMMA HintOps ==
    ASSUME Copies, Admission, NEW s \in Sessions, SaveHints(s)
    PROVE  Witnessed' /\ (disk' = disk \/ \E m : Blend(disk', m, disk))
  <1> DEFINE m == mem[s]
  <1>b. PICK who \in [Tickets -> Peers \cup {NoPeer}], tok \in [Tokens -> Peers \cup {NoPeer}] :
          AdmittedBy(disk, mem, doing, stale, owed, minted, through, who, tok)
    BY DEF Admission, Witnessed
  <1>1. /\ m # Closed
        /\ disk' = disk \/ disk' = Saved(m, disk)
        /\ mem' = [mem EXCEPT ![s] = Closed] /\ through' = through \cup Admitted(disk')
        /\ UNCHANGED <<owed, minted, doing, stale>>
    BY DEF SaveHints, Ready, pairing
  <1>2. \A u \in Sessions : mem'[u] = mem[u] \/ mem'[u] = Closed BY <1>1 DEF Copies
  <1>3. CASE disk' = disk
    <2>1. AdmittedBy(disk, mem', doing, stale, owed, minted, through, who, tok)
      BY <1>b, <1>2, RestAdmits
    <2>2. through' = through \cup Admitted(disk) BY <1>1, <1>3
    <2>3. AdmittedBy(disk, mem', doing, stale, owed, minted, through', who, tok)
      BY <2>1, <2>2, RecordedAdmits
    <2>4. AdmittedBy(disk', mem', doing', stale', owed', minted', through', who, tok)
      BY <1>1, <1>3, <2>3
    <2> QED BY <1>3, <2>4 DEF Witnessed
  <1>4. CASE disk' = Saved(m, disk)
    <2>1. /\ Formed(m) /\ Follows(m, disk, stale, owed, who) /\ Behind(m, disk, tok)
          /\ Formed(disk) /\ Ledger(disk, stale, owed, minted, through, who)
      BY <1>1, <1>b DEF AdmittedBy, Sound
    <2> HIDE DEF m
    <2>2. Leads(m, disk, stale, owed, who) /\ Binds(m, disk, tok)
      BY <2>1, FollowersLead, BehindBinds
    <2>3. Blend(disk', m, disk) BY <1>4, <2>1, SavedFields
    <2>4. Marks(stale, stale, m, disk, minted)
      <3>1. \A p \in Peers : /\ m.version[p] \in Nat /\ disk.version[p] \in Nat
                             /\ m.version[p] <= disk.version[p]
        BY <2>1 DEF Formed, Follows
      <3>2. \A p \in Peers : ~(m.version[p] > disk.version[p]) BY <3>1
      <3> QED BY <3>2 DEF Marks
    <2>5. \A j \in Handles : Reduced(doing[j], doing[j])
      BY <1>b DEF AdmittedBy, Underway, Reduced
    <2>6. Kept(mem', mem, m) BY <1>2 DEF Kept
    <2>7. AdmittedBy(disk', mem', doing, stale, owed, minted, through', who, tok)
      BY <1>b, <1>1, <2>1, <2>2, <2>3, <2>4, <2>5, <2>6, SavesAdmit
    <2>8. AdmittedBy(disk', mem', doing', stale', owed', minted', through', who, tok)
      BY <1>1, <2>7
    <2> QED BY <2>3, <2>8 DEF Witnessed
  <1> QED BY <1>1, <1>3, <1>4

(* Everything else reads the file again, closes a session or cuts an        *)
(* operation off.                                                           *)
LEMMA RestOps ==
    ASSUME Copies, Admission,
           \/ \E s \in Sessions, t \in Tickets : PairRequest(s, t)
           \/ \E p \in Peers : Approve(p)
           \/ \E s \in Sessions : PairRefused(s)
           \/ \E k \in Tokens : IssuerRevokes(k)
           \/ \E s \in Sessions : HandleControl(s)
           \/ \E c \in Controls : Late(c)
           \/ \E s \in Sessions, p \in Peers : Open(s, p)
           \/ \E s \in Sessions : Frame(s)
           \/ \E k \in Lapsable : Lapse(k)
           \/ Crash
           \/ UNCHANGED vars
    PROVE  Witnessed' /\ UNCHANGED disk
  <1>b. PICK who \in [Tickets -> Peers \cup {NoPeer}], tok \in [Tokens -> Peers \cup {NoPeer}] :
          AdmittedBy(disk, mem, doing, stale, owed, minted, through, who, tok)
    BY DEF Admission, Witnessed
  <1>1. UNCHANGED <<disk, stale, owed, minted, through>>
    BY DEF PairRequest, Approve, PairRefused, IssuerRevokes, HandleControl, Late, Open, Frame,
       Lapse, Crash, vars, ghosts, pairing
  <1>2. /\ \A s \in Sessions : mem'[s] = mem[s] \/ mem'[s] = disk \/ mem'[s] = Closed
        /\ \A j \in Handles : doing'[j] = doing[j] \/ doing'[j] = Idle
    <2>1. mem = [s \in Sessions |-> mem[s]] BY DEF Copies
    <2>2. CASE UNCHANGED <<mem, doing>> BY <2>2
    <2>3. CASE Crash BY <2>3 DEF Crash
    <2>4. ASSUME NEW s \in Sessions, UNCHANGED doing,
                 mem' = [mem EXCEPT ![s] = disk] \/ mem' = [mem EXCEPT ![s] = Closed]
          PROVE  /\ \A u \in Sessions : mem'[u] = mem[u] \/ mem'[u] = disk \/ mem'[u] = Closed
                 /\ \A j \in Handles : doing'[j] = doing[j] \/ doing'[j] = Idle
      BY <2>1, <2>4
    <2>5. \/ UNCHANGED <<mem, doing>>
          \/ Crash
          \/ \E s \in Sessions : /\ UNCHANGED doing
                                 /\ \/ mem' = [mem EXCEPT ![s] = disk]
                                    \/ mem' = [mem EXCEPT ![s] = Closed]
      BY DEF PairRequest, Approve, PairRefused, IssuerRevokes, HandleControl, Late, Open, Frame,
         Lapse, vars
    <2> QED BY <2>2, <2>3, <2>4, <2>5
  <1>3. AdmittedBy(disk, mem', doing', stale, owed, minted, through, who, tok)
    BY <1>b, <1>2, RestAdmits
  <1>4. AdmittedBy(disk', mem', doing', stale', owed', minted', through', who, tok)
    BY <1>1, <1>3
  <1> QED BY <1>1, <1>4 DEF Witnessed

(* Every action leaves an account of who was admitted by what.              *)
LEMMA AdmissionStep == Copies /\ Admission /\ [Next]_vars => Admission'
  <1> SUFFICES ASSUME Copies, Admission, [Next]_vars PROVE Admission' OBVIOUS
  <1>1. Exclusive' BY ExclusiveStep DEF Admission
  <1>2. Connected' BY ConnectedStep DEF Admission
  <1>3. (published \subseteq Tokens \X Peers)'
    <2>1. \A k \in Tokens : <<k, Bearer[k]>> \in Tokens \X Peers BY TrustAssumption
    <2>2. UNCHANGED published \/ \E k \in Tokens : published' = published \cup {<<k, Bearer[k]>>}
      BY DEF Next, RegisterTicket, PairRequest, Approve, AcceptPair, PairRefused, ConfirmPair,
         CompletePair, RemovePeer, BindEnrollment, InstallCertificate, RevokeToken, IssuerRevokes,
         ApplyRevocations, Join, ReceiveControl, HandleControl, Late, Open, Frame, Save, SaveHints,
         SaveDialed, Lapse, Crash, vars
    <2> QED BY <2>1, <2>2 DEF Admission
  <1>4. Witnessed'
    BY PlainOps, RegisterOps, AcceptOps, ConfirmOps, JoinerOps, RemoveOps, TokenOps, BindOps,
       SaveOps, HintOps, RestOps DEF Next
  <1> QED BY <1>1, <1>2, <1>3, <1>4 DEF Admission

(* Some choice of peers accounts for whom tickets and tokens have admitted, *)
(* always.                                                                  *)
LEMMA AdmissionAlways == Spec => []Admission
  <1>1. Init => Admission
    <2> SUFFICES ASSUME Init PROVE Admission OBVIOUS
    <2> DEFINE who == [t \in Tickets |-> NoPeer]
               tok == [k \in Tokens |-> IF Issuer[k] = Self THEN NoPeer ELSE Bearer[k]]
    <2>1. /\ disk = EmptyFile /\ \A s \in Sessions : mem[s] = Closed
          /\ \A h \in Handles : doing[h] = Idle
          /\ owed = {} /\ minted = {} /\ through = {} /\ published = {}
          /\ stale = [p \in Peers |-> {}]
          /\ asking = [s \in Sessions |-> NoTicket] /\ remote = [s \in Sessions |-> NoPeer]
      BY DEF Init
    <2>2. /\ who \in [Tickets -> Peers \cup {NoPeer}] /\ tok \in [Tokens -> Peers \cup {NoPeer}]
          /\ \A k \in Tokens : Issuer[k] # Self => tok[k] = Bearer[k]
      BY TrustAssumption
    <2> HIDE DEF who, tok
    <2>3. /\ Fields \subseteq DOMAIN disk /\ disk.peers = [p \in Peers |-> Absent]
          /\ disk.version = [p \in Peers |-> 0] /\ disk.pairedBy = [p \in Peers |-> NoTicket]
          /\ disk.pending = {} /\ disk.awaiting = [t \in Tickets |-> NoPeer]
          /\ disk.bound = [k \in Tokens |-> NoPeer] /\ disk.certs = [p \in Peers |-> NoToken]
          /\ disk.revoked = {}
      BY <2>1 DEF EmptyFile, Fields
    <2>4. Formed(disk) BY <2>3 DEF Formed
    <2>5. NoTicket \notin Tickets /\ Absent \notin Tokens BY TrustAssumption DEF AllTickets
    <2>6. Follows(disk, disk, stale, owed, who) BY <2>1, <2>3, <2>5 DEF Follows
    <2>7. Behind(disk, disk, tok) BY <2>3, <2>5 DEF Behind
    <2>8. Ledger(disk, stale, owed, minted, through, who) BY <2>1, <2>3 DEF Ledger
    <2>9. Register(disk, through, tok) BY <2>1, <2>2 DEF Register
    <2>10. \A h \in Handles : Underway(doing[h], disk, stale, owed, who, tok)
      <3>1. Idle.copies = <<>> /\ Idle.locks = {} BY DEF Idle
      <3>2. DOMAIN <<>> = {} /\ Len(<<>>) <= 1 OBVIOUS
      <3> QED BY <2>1, <3>1, <3>2 DEF Underway
    <2>11. Witnessed BY <2>1, <2>2, <2>4, <2>6, <2>7, <2>8, <2>9, <2>10 DEF Witnessed, AdmittedBy, Sound
    <2>12. Exclusive /\ Connected
      <3>1. Idle.locks = {} BY DEF Idle
      <3>2. \A s \in Sessions : s \in Handles BY DEF Handles
      <3>3. /\ remote = [s \in Sessions |-> remote[s]] /\ asking = [s \in Sessions |-> asking[s]]
            /\ \A s \in Sessions : asking[s] = NoTicket /\ mem[s] = Closed /\ doing[s] = Idle
        BY <2>1, <3>2
      <3>4. Connected BY <3>3 DEF Connected
      <3> QED BY <2>1, <3>1, <3>4 DEF Exclusive
    <2> QED BY <2>1, <2>11, <2>12 DEF Admission
  <1> QED BY <1>1, AdmissionStep, CopiesAlways, PTL DEF Spec

(* A ticket admits one peer and a token binds one guest                     *)
(* (accept_pair_request, bind_enrollment), whatever requests race for it,   *)
(* however many sessions there are and however old the copies they save.    *)
THEOREM OneAdmission == Spec => []AdmitsOne
  <1>1. Admission => AdmitsOne
    <2> SUFFICES ASSUME Admission, NEW a \in through, NEW b \in through, a[1] = b[1]
                 PROVE  a[2] = b[2]
      BY DEF AdmitsOne
    <2>b. PICK who \in [Tickets -> Peers \cup {NoPeer}], tok \in [Tokens -> Peers \cup {NoPeer}] :
            AdmittedBy(disk, mem, doing, stale, owed, minted, through, who, tok)
      BY DEF Admission, Witnessed
    <2>1. Ledger(disk, stale, owed, minted, through, who) /\ Register(disk, through, tok)
      BY <2>b DEF AdmittedBy
    <2>2. through \subseteq (Tickets \cup Tokens) \X Peers BY <2>1 DEF Ledger
    <2>3. /\ a = <<a[1], a[2]>> /\ a[1] \in Tickets \cup Tokens /\ a[2] \in Peers
          /\ b = <<b[1], b[2]>> /\ b[1] \in Tickets \cup Tokens /\ b[2] \in Peers
      BY <2>2
    <2>4. CASE a[1] \in Tickets BY <2>1, <2>3, <2>4 DEF Ledger
    <2>5. CASE a[1] \in Tokens BY <2>1, <2>3, <2>5 DEF Register
    <2> QED BY <2>3, <2>4, <2>5
  <1> QED BY <1>1, AdmissionAlways, PTL

(* A removed peer is not paired again by a ticket minted before its removal *)
(* (remove_peer, merge_disk_state), whatever was under way and whatever     *)
(* copies from before the removal are saved after it.                       *)
THEOREM RemovalStays == Spec => []RemovedStaysRemoved
  <1>1. Admission => RemovedStaysRemoved
    <2> SUFFICES ASSUME Admission, NEW p \in Peers PROVE disk.pairedBy[p] \notin stale[p]
      BY DEF RemovedStaysRemoved
    <2>b. PICK who \in [Tickets -> Peers \cup {NoPeer}], tok \in [Tokens -> Peers \cup {NoPeer}] :
            AdmittedBy(disk, mem, doing, stale, owed, minted, through, who, tok)
      BY DEF Admission, Witnessed
    <2>1. Formed(disk) /\ Follows(disk, disk, stale, owed, who) BY <2>b DEF AdmittedBy, Sound
    <2>2. disk.pairedBy[p] \in stale[p] => disk.version[p] < disk.version[p] BY <2>1 DEF Follows
    <2>3. disk.version[p] \in Nat BY <2>1 DEF Formed
    <2>4. ~(disk.version[p] < disk.version[p]) BY <2>3
    <2> QED BY <2>2, <2>4
  <1> QED BY <1>1, AdmissionAlways, PTL

(* No guest of a revoked token is in the file, nor its certificate          *)
(* (remove_revoked_guests), whichever copy was saved last.                  *)
THEOREM RevocationHolds == Spec => []RevokedIsGone
  <1>1. Init => RevokedIsGone
    <2> SUFFICES ASSUME Init PROVE RevokedIsGone OBVIOUS
    <2>1. disk.revoked = {} BY DEF Init, EmptyFile
    <2> QED BY <2>1 DEF RevokedIsGone
  <1>2. Copies /\ Admission /\ RevokedIsGone /\ [Next]_vars => RevokedIsGone'
    <2> SUFFICES ASSUME Copies, Admission, RevokedIsGone, [Next]_vars PROVE RevokedIsGone' OBVIOUS
    <2>1. UNCHANGED disk \/ \E m : Blend(disk', m, disk)
      <3>1. CASE \E h \in Handles : Save(h) BY <3>1, SaveOps
      <3>2. CASE \E s \in Sessions : SaveHints(s) BY <3>2, HintOps
      <3>3. CASE ~(\E h \in Handles : Save(h)) /\ ~(\E s \in Sessions : SaveHints(s))
        BY <3>3 DEF Next, RegisterTicket, PairRequest, Approve, AcceptPair, PairRefused, ConfirmPair,
           CompletePair, RemovePeer, BindEnrollment, InstallCertificate, RevokeToken, IssuerRevokes,
           ApplyRevocations, Join, ReceiveControl, HandleControl, Late, Open, Frame, SaveDialed,
           Lapse, Crash, Begin, Starts, vars
      <3> QED BY <3>1, <3>2, <3>3
    <2>2. CASE UNCHANGED disk BY <2>2 DEF RevokedIsGone
    <2>3. CASE \E m : Blend(disk', m, disk)
      <3>1. PICK m : Blend(disk', m, disk) BY <2>3
      <3>2. \A p \in Peers : disk'.peers[p] \notin disk'.revoked /\ disk'.certs[p] \notin disk'.revoked
        BY <3>1 DEF Blend
      <3> QED BY <3>2 DEF RevokedIsGone
    <2> QED BY <2>1, <2>2, <2>3
  <1> QED BY <1>1, <1>2, CopiesAlways, AdmissionAlways, PTL DEF Spec
=============================================================================
