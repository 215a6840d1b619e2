SPECIFICATION Spec
CONSTANTS
  Users = {u1, u2, u3}
  Meetups = {m1}
  Requests = {r1, r2}
  Handlers = {h1}
  Nonces = {n1, n2}
  Headcounts <- TwoSeats
  MaxCrashes = 1
  NoUser = NoUser
  NoTicket = NoTicket
  NoJob = NoJob
  Idle = Idle
SYMMETRY Symmetry
\* A service nobody calls rests, and the bounded requests run out.
CHECK_DEADLOCK FALSE
INVARIANTS
  TypeOK
  Capacity
  AnswersAreTrue
  NoOrphanJoin
PROPERTIES
  ImplementsBoard
  ForwardOnly
