SPECIFICATION Spec
CONSTANTS
  Users = {u1, u2}
  Meetups = {m1}
  Requests = {r1, r2}
  Handlers = {h1, h2}
  Nonces = {n1}
  Headcounts <- TwoSeats
  MaxCrashes = 0
  NoUser = NoUser
  NoTicket = NoTicket
  NoJob = NoJob
  Idle = Idle
\* A service nobody calls rests, and the bounded requests run out.
CHECK_DEADLOCK FALSE
PROPERTY ClosedToNewcomers
