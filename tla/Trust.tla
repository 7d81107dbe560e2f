------------------------------- MODULE Trust -------------------------------
(***************************************************************************)
(* Whom one device trusts: net/trust.json and everybody who writes it.     *)
(*                                                                         *)
(* The daemon's commands and its inbound sessions each hold a copy of the  *)
(* file, change the copy and save it.  A save folds the copy onto what the *)
(* file holds by then.  Most operations take a lock of their own kind      *)
(* ("pair-op", "bind-op"), reload the copy, change it and save; between    *)
(* the reload and the save an operation of another kind, or one that takes *)
(* no lock at all, may save too.  A session also saves when its connection *)
(* ends, to keep the address it observed, with whatever copy its last      *)
(* frame left it: sessions may idle for hours.                             *)
(*                                                                         *)
(* Keys, names, scopes and addresses are left out: a peer is absent, Full, *)
(* or a guest, and a guest is the enrolment token it came with.            *)
(***************************************************************************)
EXTENDS Integers, FiniteSets, Sequences

CONSTANTS
  Peers,       \* the other devices
  Guests,      \* those that enrol; the others pair
  Tickets,     \* pairing tickets this device may mint
  Invites,     \* tickets other devices minted and showed to this one's user
  Tokens,      \* enrolment tokens, of this device and of others
  Self,        \* this device, as an issuer
  Issuer,      \* Issuer[k]: who minted token k
  Bearer,      \* Bearer[k]: the guest another issuer bound to its token k
  Inviter,     \* Inviter[i]: who minted invitation i
  Controls,    \* the control messages other devices sign
  Signer,      \* Signer[c]: who signed c
  Sessions,    \* the inbound session workers
  Command,     \* the daemon's own node, which its lock gives to one command
  AutoConfirm, \* auto_confirm_pairs
  MaxVersion,  \* bound: changes of one peer's pairing
  MaxOpens,    \* bound: inbound sessions
  MaxCrashes,  \* bound: crashes
  Lapsable,    \* the tokens whose term may end
  Absent, Full, NoTicket, NoPeer, NoToken, NoControl, Closed

AllTickets == Tickets \cup Invites
Handles    == Sessions \cup {Command}

ASSUME TrustAssumption ==
  /\ MaxVersion \in Nat /\ MaxOpens \in Nat /\ MaxCrashes \in Nat
  /\ Lapsable \subseteq Tokens
  /\ AutoConfirm \in BOOLEAN
  /\ Guests \subseteq Peers
  /\ Issuer \in [Tokens -> (Peers \ Guests) \cup {Self}]
  /\ Bearer \in [Tokens -> Guests]
  /\ Inviter \in [Invites -> Peers \ Guests]
  /\ Signer \in [Controls -> Peers \ Guests] /\ NoControl \notin Controls
  /\ Self \notin Peers /\ Command \notin Sessions
  /\ Absent \notin Tokens /\ Full \notin Tokens /\ Absent # Full
  /\ NoTicket \notin AllTickets /\ NoPeer \notin Peers /\ NoToken \notin Tokens
  /\ Tickets \cap (Invites \cup Tokens) = {}

VARIABLES
  disk,      \* the file
  mem,       \* mem[s]: session s's copy of it, or Closed
  remote,    \* remote[s]: the peer at the other end of session s
  doing,     \* doing[h]: the operation h is in: its locks, the copies to save
  minted,    \* the tickets registered so far
  asking,    \* asking[s]: the ticket session s waits for the user's approval of
  approved,  \* the files in net/approved-pairs, one per peer
  owed,      \* pair accepts sent whose confirmation has not been read
  published, \* revocations other issuers signed
  lapsed,    \* the tokens whose term has ended
  late,      \* the control messages whose time is too long ago by now
  heard,     \* heard[s]: the control message session s is to act on
  acted,     \* acted[c]: how often c was recorded and given to an adapter
  opens,     \* sessions opened so far
  crashes,   \* crashes so far
  stale,     \* history: stale[p], the tickets minted when p was last removed
  through    \* history: whom the file trusted, <<by which ticket or token, peer>>

vars == <<disk, mem, remote, doing, minted, asking, approved, owed, published,
          lapsed, late, heard, acted, opens, crashes, stale, through>>
ghosts == <<stale, through>>
control == <<late, heard, acted>>
counts == <<opens, crashes, control>>
pairing == <<minted, asking, approved, owed>>

----------------------------------------------------------------------------
(* The file.                                                               *)

Standing == {Absent, Full} \cup Tokens

TrustFile ==
  [peers : [Peers -> Standing],
   version : [Peers -> 0 .. MaxVersion],
   pairedBy : [Peers -> AllTickets \cup {NoTicket}],
   pending : SUBSET Tickets,
   awaiting : [Tickets -> Peers \cup {NoPeer}],
   used : SUBSET Tickets,
   cancelled : SUBSET AllTickets,
   bound : [Tokens -> Peers \cup {NoPeer}],
   certs : [Peers -> Tokens \cup {NoToken}],
   revoked : SUBSET Tokens,
   revocations : SUBSET (Tokens \X Peers),
   nonces : SUBSET Controls,
   guest : BOOLEAN]

EmptyFile ==
  [peers |-> [p \in Peers |-> Absent], version |-> [p \in Peers |-> 0],
   pairedBy |-> [p \in Peers |-> NoTicket], pending |-> {},
   awaiting |-> [t \in Tickets |-> NoPeer], used |-> {}, cancelled |-> {},
   bound |-> [k \in Tokens |-> NoPeer], certs |-> [p \in Peers |-> NoToken],
   revoked |-> {}, revocations |-> {}, nonces |-> {}, guest |-> FALSE]

\* merge_disk_state: copy m folded onto d, what the file holds now.  Sets only
\* grow, a peer goes by its version, the local role is the copy's.
Merge(m, d) ==
  LET newer(p)  == /\ m.version[p] >= d.version[p]
                   /\ m.peers[p] # Absent \/ m.version[p] > 0
      cancelled == d.cancelled \cup m.cancelled
      used      == d.used \cup m.used
      paired    == [p \in Peers |->
                      IF newer(p) /\ (m.version[p] > 0 \/ m.pairedBy[p] # NoTicket)
                      THEN m.pairedBy[p] ELSE d.pairedBy[p]]
      over(new, old, none) ==
        [x \in DOMAIN old |-> IF new[x] # none THEN new[x] ELSE old[x]]
      waiting   == over(m.awaiting, d.awaiting, NoPeer)
  IN [peers    |-> [p \in Peers |-> IF newer(p) THEN m.peers[p] ELSE d.peers[p]],
      version  |-> [p \in Peers |-> IF newer(p) THEN m.version[p] ELSE d.version[p]],
      pairedBy |-> paired,
      pending  |-> (d.pending \cup m.pending) \ used,
      awaiting |-> [t \in Tickets |->
                      IF \/ t \in cancelled
                         \/ waiting[t] # NoPeer /\ paired[waiting[t]] = t
                      THEN NoPeer ELSE waiting[t]],
      used |-> used, cancelled |-> cancelled,
      bound    |-> over(d.bound, m.bound, NoPeer),
      certs    |-> over(m.certs, d.certs, NoToken),
      revoked  |-> d.revoked \cup m.revoked,
      revocations |-> d.revocations \cup m.revocations,
      nonces   |-> d.nonces \cup m.nonces,
      guest    |-> m.guest]

\* prune_expired, then remove_revoked_guests.
Pruned(f) ==
  [f EXCEPT !.revocations = {r \in f.revocations : r[1] \notin lapsed},
            !.certs = [p \in Peers |-> IF f.certs[p] \in lapsed THEN NoToken
                                       ELSE f.certs[p]]]

Denied(f, k, p) == k \in f.revoked \/ <<k, p>> \in f.revocations

AsMerged(f) == f
WithoutRevoked(f) ==
  [f EXCEPT !.peers = [p \in Peers |-> IF Denied(f, f.peers[p], p) THEN Absent
                                       ELSE f.peers[p]],
            !.certs = [p \in Peers |-> IF Denied(f, f.certs[p], p) THEN NoToken
                                       ELSE f.certs[p]]]

Overwritten(m, d) == WithoutRevoked(Pruned(m))
Saved(m, d) == WithoutRevoked(Pruned(Merge(m, d)))

----------------------------------------------------------------------------
Idle == [locks |-> {}, copies |-> <<>>]

TypeOK ==
  /\ disk \in TrustFile
  /\ mem \in [Sessions -> TrustFile \cup {Closed}]
  /\ remote \in [Sessions -> Peers \cup {NoPeer}]
  /\ doing \in [Handles -> [locks : SUBSET {"pair-op", "bind-op", "nonce-op"},
                            copies : Seq(TrustFile)]]
  /\ minted \subseteq Tickets
  /\ asking \in [Sessions -> Tickets \cup {NoTicket}]
  /\ approved \subseteq Peers
  /\ owed \subseteq Tickets \X Peers
  /\ published \subseteq Tokens \X Peers
  /\ lapsed \subseteq Tokens /\ late \subseteq Controls
  /\ heard \in [Sessions -> Controls \cup {NoControl}] /\ acted \in [Controls -> 0 .. 2]
  /\ opens \in 0 .. MaxOpens /\ crashes \in 0 .. MaxCrashes
  /\ stale \in [Peers -> SUBSET Tickets]
  /\ through \subseteq (Tickets \cup Tokens) \X Peers

Init ==
  /\ disk = EmptyFile
  /\ mem = [s \in Sessions |-> Closed]
  /\ remote = [s \in Sessions |-> NoPeer]
  /\ doing = [h \in Handles |-> Idle]
  /\ minted = {} /\ asking = [s \in Sessions |-> NoTicket] /\ approved = {}
  /\ owed = {} /\ published = {} /\ lapsed = {} /\ opens = 0 /\ crashes = 0
  /\ late = {} /\ heard = [s \in Sessions |-> NoControl] /\ acted = [c \in Controls |-> 0]
  /\ stale = [p \in Peers |-> {}] /\ through = {}

Ready(h) ==
  /\ doing[h] = Idle
  /\ h \in Sessions => mem[h] # Closed /\ asking[h] = NoTicket /\ heard[h] = NoControl

Unlocked(locks) == TRUE
Free(locks) == \A h \in Handles : locks \cap doing[h].locks = {}

\* operation_lock and reload, then the change; the saves are steps of their own.
Starts(h, locks, copies) ==
  /\ Ready(h) /\ Free(locks)
  /\ doing' = [doing EXCEPT ![h] = [locks |-> locks, copies |-> copies]]
  /\ mem' = IF h \in Sessions THEN [mem EXCEPT ![h] = disk] ELSE mem
  /\ UNCHANGED <<disk, remote, opens, crashes, late, acted, lapsed>>
Begin(h, locks, copies) == Starts(h, locks, copies) /\ UNCHANGED heard

\* A ticket taken out of circulation.
Spent(f, t) == [f EXCEPT !.used = @ \cup {t}, !.pending = @ \ {t}]

\* A peer's pairing replaced: a new version, under ticket t.
Paired(f, p, t) == [f EXCEPT !.version[p] = @ + 1, !.pairedBy[p] = t, !.peers[p] = Full]

\* authorize_op: who may be trusted is a full device's to say.
FullDevice == ~disk.guest

----------------------------------------------------------------------------
(* Pairing, as the device that minted the ticket.                          *)

\* pair-ticket
RegisterTicket(t) ==
  /\ FullDevice /\ t \notin minted
  /\ minted' = minted \cup {t}
  /\ Begin(Command, {"pair-op"}, <<[disk EXCEPT !.pending = @ \cup {t}]>>)
  /\ UNCHANGED <<asking, approved, owed, published, ghosts>>

\* A pair request arrives; without auto_confirm_pairs the session waits for a
\* file in net/approved-pairs before it looks at the ticket.
PairRequest(s, t) ==
  /\ Ready(s) /\ ~AutoConfirm /\ t \in minted /\ remote[s] \notin Guests
  /\ asking' = [asking EXCEPT ![s] = t]
  /\ mem' = [mem EXCEPT ![s] = disk]
  /\ UNCHANGED <<disk, remote, doing, minted, approved, owed, published, lapsed,
                 counts, ghosts>>

\* pair-confirm on the local socket, for a request the user sees pending.
Approve(p) ==
  /\ FullDevice /\ \E s \in Sessions : remote[s] = p /\ asking[s] # NoTicket
  /\ approved' = approved \cup {p}
  /\ UNCHANGED <<disk, mem, remote, doing, minted, asking, owed, published, lapsed,
                 counts, ghosts>>

\* accept_pair_request once the wait is over.
AcceptPair(s, t) ==
  LET p == remote[s] IN
  /\ mem[s] # Closed /\ doing[s] = Idle /\ heard[s] = NoControl /\ Free({"pair-op"})
  /\ p \notin Guests
  /\ IF AutoConfirm THEN asking[s] = NoTicket
                    ELSE asking[s] = t /\ p \in approved
  /\ asking' = [asking EXCEPT ![s] = NoTicket]
  /\ approved' = approved \ {p}
  /\ mem' = [mem EXCEPT ![s] = disk]
  /\ t \in disk.pending /\ t \notin disk.used
  /\ disk.version[p] < MaxVersion
  /\ LET f == Spent(disk, t)
     IN IF AutoConfirm
        THEN /\ doing' = [doing EXCEPT ![s] = [locks |-> {"pair-op"},
                                               copies |-> <<Paired(f, p, t)>>]]
             /\ owed' = owed
        ELSE /\ doing' = [doing EXCEPT ![s] =
                            [locks |-> {"pair-op"},
                             copies |-> <<[f EXCEPT !.awaiting[t] = p]>>]]
             /\ owed' = owed \cup {<<t, p>>}
  /\ UNCHANGED <<disk, remote, minted, published, lapsed, counts, ghosts>>

\* The request is refused (ticket used, expired or not pending) or nobody
\* approved it in ten minutes; both files go, and a refusal ends the session.
PairRefused(s) ==
  /\ asking[s] # NoTicket
  /\ asking' = [asking EXCEPT ![s] = NoTicket]
  /\ approved' = approved \ {remote[s]}
  /\ mem' = [mem EXCEPT ![s] = Closed]
  /\ remote' = [remote EXCEPT ![s] = NoPeer]
  /\ UNCHANGED <<disk, doing, minted, owed, published, lapsed, counts, ghosts>>

\* confirm_pair: the peer's confirmation is read, on whichever session.
ConfirmPair(s, t) ==
  LET p == remote[s] IN
  /\ <<t, p>> \in owed
  /\ owed' = owed \ {<<t, p>>}
  /\ t \notin disk.cancelled /\ disk.awaiting[t] = p
  /\ disk.version[p] < MaxVersion
  /\ Begin(s, {"pair-op"}, <<[Paired(disk, p, t) EXCEPT !.awaiting[t] = NoPeer]>>)
  /\ UNCHANGED <<minted, asking, approved, published, ghosts>>

\* complete_pair_as_joiner, unless a removal cancelled the invitation.
Joined(f, i) == Paired(f, Inviter[i], i)

\* pair-add: the joiner's last step, when the peer has accepted.
CompletePair(i) ==
  /\ FullDevice /\ i \notin disk.cancelled /\ disk.version[Inviter[i]] < MaxVersion
  /\ Begin(Command, {"pair-op"}, <<Joined(disk, i)>>)
  /\ UNCHANGED <<pairing, published, ghosts>>

\* The tickets a removal of p cancels: the one it was paired by, and those it
\* has not confirmed.
ItsTicket(f, p) == {f.pairedBy[p]} \ {NoTicket}
Cancelled(f, p) == ItsTicket(f, p) \cup {t \in Tickets : f.awaiting[t] = p}

\* pair-remove
RemovePeer(p) ==
  /\ FullDevice /\ disk.peers[p] # Absent /\ disk.version[p] < MaxVersion
  /\ LET delegated == {disk.certs[g] : g \in Peers} \cap {k \in Tokens : Issuer[k] = p}
         off       == Cancelled(disk, p)
         f == [disk EXCEPT
                 !.peers[p] = Absent, !.version[p] = @ + 1, !.pairedBy[p] = NoTicket,
                 !.cancelled = @ \cup off,
                 !.revoked = @ \cup ({disk.peers[p]} \cap Tokens) \cup delegated,
                 !.used = @ \cup disk.pending,
                 !.awaiting = [t \in Tickets |-> IF disk.awaiting[t] = p THEN NoPeer ELSE @[t]]]
     IN Begin(Command, {"pair-op", "bind-op"}, <<f>>)
  /\ UNCHANGED <<pairing, published, ghosts>>

----------------------------------------------------------------------------
(* Enrolment, certificates and revocations.                                *)

\* A token a guest presents: minted here, its term running, not denied.
Presentable(f, k, g) == Issuer[k] = Self /\ k \notin lapsed /\ ~Denied(f, k, g)

\* A certificate another device signed for its guest: it is Full here, and
\* nobody has revoked it.
Certified(f, k, g) ==
  /\ Issuer[k] \in Peers /\ f.peers[Issuer[k]] = Full
  /\ k \notin lapsed /\ ~Denied(f, k, g)

\* bind_enrollment: saved once with the guest, once more with its certificate.
BindEnrollment(s, k) ==
  LET g == remote[s]
      f == [disk EXCEPT !.bound[k] = g, !.peers[g] = k]
  IN /\ g \in Guests /\ Presentable(disk, k, g)
     /\ disk.bound[k] \in {NoPeer, g}
     /\ Begin(s, {"bind-op"}, <<f, [f EXCEPT !.certs[g] = k]>>)
     /\ UNCHANGED <<pairing, published, ghosts>>

\* The copy an installed certificate is saved by.
Delegated(f, k, g) == <<[f EXCEPT !.peers[g] = k, !.certs[g] = k]>>

\* install_bind_certificate: an offer brings the certificate of another issuer's guest.
InstallCertificate(s, k) ==
  LET g == Bearer[k] IN
  /\ Certified(disk, k, g) /\ disk.peers[g] # Full
  /\ Begin(s, {"bind-op"}, Delegated(disk, k, g))
  /\ UNCHANGED <<pairing, published, ghosts>>

\* revoke
RevokeToken(k) ==
  LET holders == {g \in Peers : disk.certs[g] = k} IN
  /\ FullDevice /\ Issuer[k] = Self /\ k \notin disk.revoked
  /\ Begin(Command, {"bind-op"},
       <<[disk EXCEPT
            !.revoked = @ \cup {k},
            !.revocations = @ \cup ({k} \X holders),
            !.peers = [p \in Peers |-> IF @[p] = k THEN Absent ELSE @[p]],
            !.bound[k] = NoPeer,
            !.certs = [p \in Peers |-> IF @[p] = k THEN NoToken ELSE @[p]]]>>)
  /\ UNCHANGED <<pairing, published, ghosts>>

\* Another issuer revokes a token of its own.
IssuerRevokes(k) ==
  /\ Issuer[k] \in Peers
  /\ published' = published \cup {<<k, Bearer[k]>>}
  /\ UNCHANGED <<disk, mem, remote, doing, pairing, lapsed, counts, ghosts>>

\* The revocations a receiver can judge: the issuer is Full here, and the
\* certificate, or the revocation itself, is known.
Applicable(f, r) ==
  /\ Issuer[r[1]] \in Peers /\ f.peers[Issuer[r[1]]] = Full
  /\ f.certs[r[2]] = r[1] \/ r \in f.revocations

\* apply_revocations, at a handshake or with an offer.
ApplyRevocations(s, rs) ==
  LET known == {r \in rs : Applicable(disk, r)} IN
  /\ known # {}
  /\ Begin(s, {"bind-op"},
       <<[disk EXCEPT
            !.revocations = @ \cup known,
            !.revoked = @ \cup {r[1] : r \in known},
            !.peers = [p \in Peers |-> IF <<@[p], p>> \in known THEN Absent ELSE @[p]],
            !.certs = [p \in Peers |-> IF \E r \in known : r[2] = p THEN NoToken
                                       ELSE @[p]]]>>)
  /\ UNCHANGED <<pairing, published, ghosts>>

\* join: this device becomes a guest of f, which tells it of its full peers.
\* One save per peer, one for the role.
Join(f) ==
  LET others == {p \in Peers : disk.version[p] > 0 /\ disk.peers[p] = Absent}
      one    == [disk EXCEPT !.peers[f] = Full]
  IN /\ ~disk.guest /\ f \notin others
     /\ Begin(Command, {}, <<one, [one EXCEPT !.guest = TRUE]>>)
     /\ UNCHANGED <<pairing, published, ghosts>>

----------------------------------------------------------------------------
(* Control messages (control.rs).  Nothing here keeps a peer from sending  *)
(* the same one again, on this session or another.                         *)

\* verify_and_record: from its signer, a full device, in time, not seen yet.
Acceptable(f, c, p) ==
  /\ Signer[c] = p /\ f.peers[p] = Full
  /\ c \notin late /\ c \notin f.nonces

\* consume_control_nonce, under its lock and from the file as it is; the nonces
\* of messages that are late by now leave the copy, and the merge of save
\* brings them back.
Nonced(f, c) == [f EXCEPT !.nonces = (@ \ late) \cup {c}]

ReceiveControl(s, c) ==
  /\ Acceptable(disk, c, remote[s])
  /\ Starts(s, {"nonce-op"}, <<Nonced(disk, c)>>)
  /\ heard' = [heard EXCEPT ![s] = c]
  /\ UNCHANGED <<pairing, published, ghosts>>

\* The rest of handle_control, once the nonce is saved: the event, and the
\* adapter that ControlRouter finds.
HandleControl(s) ==
  LET c == heard[s] IN
  /\ c # NoControl /\ doing[s] = Idle
  /\ acted[c] < 2 /\ acted' = [acted EXCEPT ![c] = @ + 1]
  /\ heard' = [heard EXCEPT ![s] = NoControl]
  /\ UNCHANGED <<disk, mem, remote, doing, pairing, published, lapsed, late,
                 opens, crashes, ghosts>>

\* Five minutes after it was signed a message is refused.
Late(c) ==
  /\ c \notin late
  /\ late' = late \cup {c}
  /\ UNCHANGED <<disk, mem, remote, doing, pairing, published, lapsed, heard, acted,
                 opens, crashes, ghosts>>

----------------------------------------------------------------------------
(* Sessions and saves.                                                     *)

\* detached_node, when the connection is accepted.
Open(s, p) ==
  /\ mem[s] = Closed /\ doing[s] = Idle
  /\ opens < MaxOpens
  /\ opens' = opens + 1
  /\ mem' = [mem EXCEPT ![s] = disk]
  /\ remote' = [remote EXCEPT ![s] = p]
  /\ UNCHANGED <<disk, doing, pairing, published, lapsed, crashes, control, ghosts>>

\* Any other frame: the copy is read again.
Frame(s) ==
  /\ Ready(s) /\ mem[s] # disk
  /\ mem' = [mem EXCEPT ![s] = disk]
  /\ UNCHANGED <<disk, remote, doing, pairing, published, lapsed, counts, ghosts>>

\* Saving copy m takes p's pairing out of the file.
Removes(m, p) == m.peers[p] = Absent /\ m.version[p] > disk.version[p]

\* Whom file f trusts, and by which of the tickets and tokens.
Admitted(f) ==
  {<<f.pairedBy[p], p>> : p \in {q \in Peers : f.peers[q] = Full /\ f.pairedBy[q] \in Tickets}}
  \cup {<<f.peers[p], p>> : p \in {q \in Peers : f.peers[q] \in Tokens}}

\* The next save of the operation under way; the last one gives the locks back.
Save(h) ==
  LET todo == doing[h].copies IN
  /\ todo # <<>>
  /\ disk' = Saved(Head(todo), disk)
  /\ mem' = IF h \in Sessions THEN [mem EXCEPT ![h] = Head(todo)] ELSE mem
  /\ doing' = [doing EXCEPT ![h] =
                 IF Len(todo) = 1 THEN Idle ELSE [@ EXCEPT !.copies = Tail(todo)]]
  /\ stale' = [p \in Peers |-> IF Removes(Head(todo), p) THEN minted ELSE stale[p]]
  /\ through' = through \cup Admitted(disk')
  /\ UNCHANGED <<remote, pairing, published, lapsed, counts>>

\* update_addresses when the connection has ended well: the copy of the last
\* frame is saved, if it knows the peer.
SaveHints(s) ==
  /\ Ready(s)
  /\ disk' = IF mem[s].peers[remote[s]] = Absent THEN disk ELSE Saved(mem[s], disk)
  /\ mem' = [mem EXCEPT ![s] = Closed]
  /\ remote' = [remote EXCEPT ![s] = NoPeer]
  /\ through' = through \cup Admitted(disk')
  /\ UNCHANGED <<doing, pairing, published, lapsed, counts, stale>>

\* update_addresses after a dial, on the daemon's own node: reload, then save.
SaveDialed ==
  /\ \E p \in Peers : disk.peers[p] # Absent
  /\ Begin(Command, {}, <<disk>>)
  /\ UNCHANGED <<pairing, published, ghosts>>

\* A token's term ends.
Lapse(k) ==
  /\ k \in Lapsable \ lapsed
  /\ lapsed' = lapsed \cup {k}
  /\ UNCHANGED <<disk, mem, remote, doing, pairing, published, counts, ghosts>>

\* The daemon stops; a file is written whole or not at all, and the lock files
\* are free again.
Crash ==
  /\ crashes < MaxCrashes
  /\ crashes' = crashes + 1
  /\ mem' = [s \in Sessions |-> Closed]
  /\ remote' = [s \in Sessions |-> NoPeer]
  /\ doing' = [h \in Handles |-> Idle]
  /\ asking' = [s \in Sessions |-> NoTicket]
  /\ heard' = [s \in Sessions |-> NoControl]
  /\ UNCHANGED <<disk, minted, approved, owed, published, lapsed, late, acted, opens, ghosts>>

Next ==
  \/ \E t \in Tickets : RegisterTicket(t)
  \/ \E s \in Sessions, t \in Tickets : PairRequest(s, t)
  \/ \E p \in Peers : Approve(p)
  \/ \E s \in Sessions, t \in Tickets : AcceptPair(s, t)
  \/ \E s \in Sessions : PairRefused(s)
  \/ \E s \in Sessions, t \in Tickets : ConfirmPair(s, t)
  \/ \E i \in Invites : CompletePair(i)
  \/ \E p \in Peers : RemovePeer(p)
  \/ \E s \in Sessions, k \in Tokens : BindEnrollment(s, k)
  \/ \E s \in Sessions, k \in Tokens : InstallCertificate(s, k)
  \/ \E k \in Tokens : RevokeToken(k)
  \/ \E k \in Tokens : IssuerRevokes(k)
  \/ \E s \in Sessions, rs \in SUBSET published : ApplyRevocations(s, rs)
  \/ \E f \in Peers \ Guests : Join(f)
  \/ \E s \in Sessions, c \in Controls : ReceiveControl(s, c)
  \/ \E s \in Sessions : HandleControl(s)
  \/ \E c \in Controls : Late(c)
  \/ \E s \in Sessions, p \in Peers : Open(s, p)
  \/ \E s \in Sessions : Frame(s)
  \/ \E h \in Handles : Save(h)
  \/ \E s \in Sessions : SaveHints(s)
  \/ SaveDialed
  \/ \E k \in Lapsable : Lapse(k)
  \/ Crash

Spec == Init /\ [][Next]_vars

----------------------------------------------------------------------------
(* Properties.                                                             *)

\* A removed peer is not paired again by a ticket minted before the removal,
\* whatever was under way or held in a copy when it was removed (remove_peer's
\* used and cancelled tickets, the versions of merge_disk_state).
RemovedStaysRemoved ==
  \A p \in Peers : disk.peers[p] = Full => disk.pairedBy[p] \notin stale[p]

\* A ticket admits one peer and a token binds one guest, whatever requests
\* race for it and whatever copies are saved in between.
AdmitsOne ==
  \A a, b \in through : a[1] = b[1] => a[2] = b[2]

\* A guest whose token this device has revoked, or whose delegating peer it
\* removed, is not in the file, nor is its certificate (remove_revoked_guests).
RevokedIsGone ==
  \A p \in Peers : /\ disk.peers[p] \notin disk.revoked
                   /\ disk.certs[p] \notin disk.revoked

\* A guest that another device delegated, and whose term runs, is in the file
\* with its certificate: without it a revocation of the guest is passed over.
\* It fails with two sessions: merge_disk_state takes the certificates of a copy whatever its age,
\* and a session that knew the guest by a token revoked since then replaces the
\* new certificate by one that remove_revoked_guests drops.
DelegationIsJudged ==
  \A p \in Peers : LET k == disk.peers[p] IN
    k \in Tokens \ lapsed /\ Issuer[k] # Self => disk.certs[p] = k

\* No save takes back a removal, a use, a cancellation or a revocation that
\* the file already records.
RecordsStay ==
  [][/\ \A p \in Peers : disk.version[p] <= disk'.version[p]
     /\ disk.used \subseteq disk'.used
     /\ disk.cancelled \subseteq disk'.cancelled
     /\ disk.revoked \subseteq disk'.revoked]_disk

\* A control message is acted on once, however often it is sent and whatever
\* copies of the file without its nonce are saved after it.
ActedOnce == \A c \in Controls : acted[c] <= 1
=============================================================================
