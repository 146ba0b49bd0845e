CONSTANTS
  Uuid = {u1, u2}
  Key = {k1, k2}
  Attempt = {a1}
  Permission = {p1}
  MaxTime = 1
  MaxRevision = 3
  MaxToken = 4
SPECIFICATION Spec
SYMMETRY Symmetry
INVARIANTS TypeOK OneUuidPerKey RevokedHoldsNothing
PROPERTIES RevisionNamesRow ReactivatedByPairing ImplementsAuthority
