\* Two calls at once in a room, two connections: messages, marks, events.
CONSTANTS
  k1 = k1  k2 = k2  k3 = k3  s1 = s1  s2 = s2
  Users = {"CUSTOMER", "MOVER"}
  Connections = {s1, s2}
  Owner <- CustomersTabs
  Calls = {k1, k2}
  MaxMessages = 2
  MaxAttempts = 2
SPECIFICATION Spec
SYMMETRY Interchangeable
INVARIANTS
  ConnectedIsTold
  AnnouncedIsRecorded
  UnreadCardHasReason
  RemindedOnce
