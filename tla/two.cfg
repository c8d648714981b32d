\* Two customers, two movers, one request confirmed before deposits existed.
CONSTANTS
  r1 = r1  r2 = r2  c1 = c1  c2 = c2  m1 = m1  m2 = m2  m3 = m3  m4 = m4  k1 = k1  k2 = k2
  Requests = {r1, r2}
  Movers = {m1, m2}
  Customers = {c1, c2}
  Owner <- TwoOwners
  Calls = {k1}
  GeneralLimit = 1
  TargetLimit = 1
  MaxCards = 2
  Legacy <- LegacyPair
  NoMover = NoMover
  NoRequest = NoRequest
SPECIFICATION FairSpec
INVARIANTS
  ConfirmedCountIsExact
PROPERTIES
  ActiveIsReleasedOrOverwritten
