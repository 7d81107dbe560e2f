\* Enrolment, certificates and revocations by a session and the daemon's commands.
SPECIFICATION Spec
CONSTANTS
  guest = guest
  q = q
  r = r
  own = own
  theirs = theirs
  invite = invite
  Peers = {guest, q}
  Guests = {guest}
  Tickets = {}
  Invites = {invite}
  Tokens = {own, theirs}
  Self = Self
  Issuer <- MCIssuer
  Bearer <- MCBearer
  Inviter <- MCInviter
  Controls = {pause}
  Signer <- MCSigner
  pause = pause
  NoControl = NoControl
  Sessions = {s1}
  s1 = s1
  s2 = s2
  Command = Command
  AutoConfirm = FALSE
  MaxVersion = 2
  MaxOpens = 2
  MaxCrashes = 1
  Lapsable = {theirs}
  Absent = Absent
  Full = Full
  NoTicket = NoTicket
  NoPeer = NoPeer
  NoToken = NoToken
  Closed = Closed
INVARIANTS
  RevokedIsGone
  ActedOnce
CHECK_DEADLOCK FALSE
