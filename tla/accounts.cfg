\* Two calls at once of a customer or a mover with two moves and two services.
CONSTANTS
  k1 = k1  k2 = k2  k3 = k3
  m1 = m1  m2 = m2
  s1 = s1  s2 = s2
  Roles = {"CUSTOMER", "MOVER"}
  Calls = {k1, k2}
  Moves = {m1, m2}
  Services = {s1, s2}
  MaxAttempts = 2
SPECIFICATION Spec
SYMMETRY Interchangeable
INVARIANTS
  DeletedHoldsNoMove
  ProfileHasServices
PROPERTIES
  HeldMovesSurvive
