SPECIFICATION FairPoolSpec
CONSTANTS
  Clients = {u1, u2, u3}
  PoolSize = 2
PROPERTY
  ExitAnswered
