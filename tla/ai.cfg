\* Two posts at once to one session of the search by conversation.
CONSTANTS
  r1 = r1  r2 = r2  v1 = v1  t1 = t1  m1 = m1  m2 = m2  k1 = k1  k2 = k2  None = None
  Regions = {r1, r2}
  Services = {v1}
  Sorts = {t1}
  Movers = {m1, m2}
  PageSize = 1
  RecentScan = 2
  Calls = {k1, k2}
  MaxPosts = 3
SPECIFICATION Spec
SYMMETRY Interchangeable
INVARIANTS
  CursorBelongsToSlots
  AnswerFitsSession
PROPERTY
  RecommendationStays
CHECK_DEADLOCK FALSE
