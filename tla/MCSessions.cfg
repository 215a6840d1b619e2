SPECIFICATION MCSpec
CONSTANTS
  Users = {u1}
  Sessions = {s1}
  Admins = {a1, a2}
  NoUser = NoUser
  NoOp = NoOp
  AccessLife = 2
  BlockLife = 2
  RefreshLife = 6
  JwtLife = 8
  Accounts = {master, a1}
  Master = master
  Clients = {c1, c2}
  MaxId = 3
  MaxToken = 2
  MaxTime = 5
  Day = 2
  Week = 2
  Absent = Absent
  None = None
\* All administrators may be deleted.
CHECK_DEADLOCK FALSE
SYMMETRY Symmetry
INVARIANTS
  TypesOK
  MarkerOutlivesTokens
  UnblockedIsFree
  SignOutEndsSession
  CanRenew
  OldCookiesStayOut
  RenewsUntilSunday
