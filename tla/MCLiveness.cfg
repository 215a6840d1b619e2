SPECIFICATION MCSpec
CONSTANTS
  Users = {u1, u2}
  Meetups = {m1}
  Requests = {r1, r2}
  Handlers = {}
  Nonces = {n1}
  Headcounts <- TwoSeats
  MaxCrashes = 1
  NoUser = NoUser
  NoTicket = NoTicket
  NoJob = NoJob
  Idle = Idle
  Clients = {c1, c2, c3}
  PoolSize = 2
  Likings = {l1, l2, l3}
  Likers = {v1, v2}
  Likeables = {d1}
  NoLike = NoLike
\* A service nobody calls rests, and what the model bounds runs out.
CHECK_DEADLOCK FALSE
INVARIANTS
  TypesOK
  LossesHaveACause
  CrashNeedsTwoLikes
PROPERTIES
  JobsDrain
  ClientsAnswered
  ServedWhileOneIsLeft
  LikeTakesEffect
