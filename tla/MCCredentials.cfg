SPECIFICATION MCSpec
CONSTANTS
  Requests = {r1, r2}
  Tokens = {t1, t2, t3}
  Passwords = {w1, w2}
  NoAccount = NoAccount
  NoToken = NoToken
  Idle = Idle
  SignIns = {i1, i2}
  Kakao = {k1, k2}
  Naver = {n1}
  Nicknames = {a}
  Numbers = {1, 2}
  None = None
SYMMETRY Symmetry
INVARIANTS
  TypesOK
  PurposesStayApart
  UsedTokensDie
  FailsOnlyWhenUnlucky
