\* Two reviews of a mover, favorites of two movers, two calls at once.
CONSTANTS
  c1 = c1  m1 = m1  m2 = m2  r1 = r1  r2 = r2  k1 = k1  k2 = k2
  Customers = {c1}
  Movers = {m1, m2}
  Reviews = {r1, r2}
  Author <- Authors
  About <- Subjects
  Ratings = {2, 5}
  Calls = {k1, k2}
  MaxImages = 1
  MaxAttempts = 2
  MaxCareer = 1
SPECIFICATION Spec
SYMMETRY Interchangeable
INVARIANTS
  RatingIsAverage
  FavoriteCountIsExact
  ImagesWithinLimit
CHECK_DEADLOCK FALSE
