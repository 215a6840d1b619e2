SPECIFICATION MCSpec
CONSTANTS
  MaxId = 4
  MaxChanges = 1
  Take = 2
  Absent = Absent
  Sockets = {s1, s2}
  Rooms = {m1, m2}
  Unnamed = m2
  Events = {e1, e2, e3}
  NoChat = NoChat
\* A walk through a listing ends, and the events are bounded.
CHECK_DEADLOCK FALSE
SYMMETRY Symmetry
INVARIANTS
  TypesOK
  NothingMissed
  RepeatsForAReason
  CreatedRoomsAreOpen
  HeardInOrder
  AlertIsTrueOneByOne
