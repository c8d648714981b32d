\* One request, three movers for two places: deposits, both jobs, late calls.
CONSTANTS
  r1 = r1  r2 = r2  c1 = c1  c2 = c2  m1 = m1  m2 = m2  m3 = m3  m4 = m4  k1 = k1  k2 = k2
  Requests = {r1}
  Movers = {m1, m2, m3}
  Customers = {c1, c2}
  Owner <- OneOwner
  Calls = {k1, k2}
  GeneralLimit = 1
  TargetLimit = 1
  MaxCards = 2
  Legacy <- NoLegacy
  NoMover = NoMover
  NoRequest = NoRequest
SPECIFICATION Spec
SYMMETRY Interchangeable
INVARIANTS
  TypeOK
  AtMostOneHolder
  StatusMatchesHolder
  PaidMoveIsKept
  CardsTellHistory
  EstimateLimits
PROPERTIES
  ImplementsLives
  ImplementsAssignment
