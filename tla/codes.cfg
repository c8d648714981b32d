\* Three calls at once for each purpose: sends, entries, sign-ups and resets.
CONSTANTS
  k1 = k1  k2 = k2  k3 = k3
  Purposes = {"SIGNUP", "RESET", "EDIT"}
  Calls = {k1, k2, k3}
  MaxFailed = 2
  MaxCodes = 2
SPECIFICATION Spec
SYMMETRY Interchangeable
INVARIANTS
  FailuresWithinLimit
  UsedOnce
  OneAccount
PROPERTIES
  NewestCodeOnly
  VoidStaysVoid
