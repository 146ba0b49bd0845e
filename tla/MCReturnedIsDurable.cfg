CONSTANTS
  Process = {p1, p2}
  NoProcess = none
  Uuid = {u1, u2}
  KeyPair = {k1, k2}
SPECIFICATION Spec
INVARIANTS ReturnedIsDurable
