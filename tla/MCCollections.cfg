SPECIFICATION MCSpec
CONSTANTS
  Requests = {r1, r2}
  Collections = {c1, c2}
  Keywords = {k1, k2, k3}
  MaxWords = 2
  Alike = {{k1, k2}}
  Idle = Idle
  Photos = {p1, p2, p3}
  Labels = {l1, l2}
  NoLabel = NoLabel
  RecommendLimit = 1
  Candidates = {d1, d2, d3}
  Viewers = {v1, v2}
  Topics = {t1, t2}
  Null = Null
  Limit = 2
  WithComma = {t2}
  ConcatLimit = 1
\* All collections may be deleted, and every photo is labelled once.
CHECK_DEADLOCK FALSE
SYMMETRY Symmetry
INVARIANTS
  TypesOK
  LabelsAreKept
  MostLikedAreShown
PROPERTY
  RefusedForAReason
