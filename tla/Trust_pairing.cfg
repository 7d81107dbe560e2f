\* Two sessions that accept and confirm pairings while commands mint and remove.
SPECIFICATION Spec
CONSTANTS
  guest = guest
  q = q
  r = r
  own = own
  theirs = theirs
  invite = invite
  Peers = {q, r}
  Guests = {}
  Tickets = {t1}
  Invites = {invite}
  Tokens = {}
  Self = Self
  Issuer <- MCNone
  Bearer <- MCNone
  Inviter <- MCInviter
  Controls = {}
  Signer <- MCNoOne
  pause = pause
  NoControl = NoControl
  Sessions = {s1, s2}
  s1 = s1
  s2 = s2
  Command = Command
  AutoConfirm = FALSE
  MaxVersion = 3
  MaxOpens = 2
  MaxCrashes = 0
  Lapsable = {}
  Absent = Absent
  Full = Full
  NoTicket = NoTicket
  NoPeer = NoPeer
  NoToken = NoToken
  Closed = Closed
INVARIANTS
  RemovedStaysRemoved
  AdmitsOne
PROPERTIES
  RecordsStay
SYMMETRY SessionSymmetry
CHECK_DEADLOCK FALSE
