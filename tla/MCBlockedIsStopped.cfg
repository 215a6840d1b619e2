SPECIFICATION Spec
CONSTANTS
  Users = {u1, u2}
  Sessions = {s1, s2}
  Admins = {a1}
  NoUser = NoUser
  NoOp = NoOp
  AccessLife = 2
  BlockLife = 2
  RefreshLife = 6
  JwtLife = 8
INVARIANT
  BlockedIsStopped
